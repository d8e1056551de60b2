# Verification of System-Software

TLA+ models of the programs in this repository, the TLC runs that check them on
small instances, and TLAPS proofs of the central results for every size.

The repository is a collection of system programming projects. The largest is
`concurrent_stockserver`: two servers for one protocol, one with threads,
semaphores and a signal handler, one with a single `select` loop, together with their
clients and a benchmark. The others are a job control shell (`myshell`), three memory
allocators (`mymalloc_nextfit`, `mymalloc_buddy`, `CSE4100/vm/malloc`) and the driver that judges
them. All of these are modelled and checked. The safety properties of both servers, of the
clients and the benchmark, of the next-fit allocator, of the driver's timers, and the main ones of the shell and its parser
are also proved. The models have about 0.8 lines for every line of code they stand for.

## 1. Inventory

| component | state | operations | what is hard | what makes it correct |
|---|---|---|---|---|
| **thread based server: buffer and workers** (`thread_based/threading.c`, `stockserver.c`) | ring `sbuf` with `front`, `rear` and three semaphores; `idle_threads`; the pending signal | `main` accepts and inserts; a worker removes, serves, and if every thread is idle takes `sbuf.mutex` and sends `SIGSYNC`; the handler writes the stock file and posts `sbuf.mutex` | a semaphore waited for by one thread and posted by a handler on another; signals that do not queue; the ring at its limit; `sem_post` and `sem_getvalue` are two steps | a connection is served once, whole, by one worker; the mutex exists once; when the last client has left the file is current |
| **thread based server: commands** (`impl.c`, `binary_tree.c`) | `reader_n`, `writer_n` and their mutexes, a count and a `modify_mutex` per node | `show`, `sell`, `buy`, `exit` | spin loops on counters that are tested and changed in separate steps; a test before the lock that protects what it tests | no update is lost, nothing is oversold, writers get through |
| **thread based server: connections** (`network.c`, `parser.c`, `util.c`) | a `struct connection` per worker, the socket | read a line, parse, execute, answer, free | errors of one client end the process of all | answers go to the client that asked; connections end |
| **event driven server** (`event_driven/*.c`) | the pool: `clientfd`, `read_set`, `ready_set`, `nready`, `n`, `maxi`, `maxfd` | `see_pool`, `add_client`, `write_pool`, `remove_client`, and the test on `n` that writes the file | arrivals while the pool is scanned; a full pool; failed `accept`; partial lines | the fields agree, no ready client is skipped, an idle server has its file current |
| **stock tree and file** (`binary_tree.c`, `stockfile_handle.c`) | a binary search tree; the text of `stock.txt` | `insert`, `find`, `modify`, `print_to_buf`, `fsync_stockfile`, `read_stockfile` | the file is overwritten in place and not truncated; reading is by words | printing and reading are inverse; a restart finds what was synchronised |
| **stock clients** (`client/`) | a socket and a `rio_t` buffer per client process; the parent's list of pids | send a line, read `MAXLINE` bytes; fork clients, wait for them | `read` and `write` return part of what was asked, or `EINTR`; the two ends wait for each other | every line and every answer arrives whole; every client ends |
| **benchmark** (`test/common_test/benchmark.c`) | the phase, the pids of server and clients, an uninitialised signal mask | start the server, wait for its signal, run the clients three times | signals before `sigsuspend`, signals for other reasons, failing `fork` and `exec` | clients meet a server; a phase is timed until its clients have ended |
| **myshell** | job table `jobs_list[jobs_front..jobs_rear)`, `jobs_done`, `child_pid`; the terminal's group; leaders and their commands | `interpreter` loop, `parser`, pipelines, `fg`, `bg`, `kill`, `jobs`, `cd`, `exit`, `SIGCHLD` handlers of shell and leader | the handler and the foreground wait reap the same children and change the same table; one signal for several children; a handler that sleeps | the prompt comes after the foreground child, ended children are reaped, the terminal comes back, `exit` ends |
| **next-fit allocator** | the heap as a list of blocks with boundary tags, `last_bp` | `mm_malloc`, `mm_free`, `mm_realloc`, `coalesce`, `extend_heap` | the roving pointer after merging; splitting | blocks tile the heap, payloads are disjoint and aligned, `last_bp` is a block |
| **buddy allocator** | free lists and bitmaps per order in the simulated memory | `mm_init`, `mm_malloc` (`alloc_pages`, `expand`), `mm_free` with merging, `mm_realloc` | bit positions; list surgery through a copy; a new memory at every `mm_init` | every page is in one block, a bit is the exclusive or of its two buddies, lists are linked |
| **first-fit allocator** (`CSE4100/vm/malloc`) | the heap as a list of blocks with boundary tags | `mm_malloc`, `mm_free`, `mm_realloc`, `coalesce`, `checkheap` | user data between the tags | `checkheap` has nothing to report |
| **malloc driver** (`mdriver.c`, `fsecs.c`, `fcyc.c`, `ftimer.c`, `clock.c`) | options, traces, the list of ranges, statistics, a timer | reads options and traces, checks, measures utilisation and speed, prints an index | replays must meet the heap that was checked; counters wrap; samples come in any order | payloads are apart and keep their bytes, times are exact, the index is earned |
| **CS:APP library** (`csapp.c`) | a buffer per descriptor | `rio_writen`, `rio_readnb`, `rio_readlineb`, `open_clientfd`, `open_listenfd`, `sio_ltoa` | short counts, failing addresses | no byte is lost, no descriptor leaks |

Interaction in the thread based server: `main` and the workers share `sbuf` and
its semaphores; workers share the tree; a worker that has found every thread
idle hands `sbuf.mutex` to a signal handler that may run on any thread. In the event
driven server everything is in one loop and only the kernel's queues change
meanwhile. Both keep the tree in memory and write `stock.txt` when there is no
client; a crash loses what was not written.

`PROJECT.json` lists the hazards, line by line, and the properties aimed at them.

## 2. Modules

| module | code | role |
|---|---|---|
| `Process` | thread structure of the thread based server | threads, program counters, handler on top of a thread, POSIX semaphores |
| `Threading` | `threading.c`, accept loop of `main`, `fsync_stockfile` in the handler | one action per statement that touches shared state |
| `ConnQueue` | - | abstract specification: a bounded FIFO of whole connections |
| `StockCommands` | `parser.c`, command tables, arithmetic of `modify` | lines as what `parser()` returns; `int` arithmetic of width `IntMax` |
| `StockOps` | `impl.c`, `binary_tree.c` (thread based) | `show`, `sell`, `buy`; every `x++` is a load and a store |
| `ThreadServer` | `network.c`, `util.c`, and the two above composed | `service()` and `execute()` instead of the abstract service of `Threading` |
| `EventServer` | `event_driven/network.c`, `stockserver.c`, `impl.c` | the pool and its loop, with the kernel as environment |
| `StockFile` | `binary_tree.c`, `stockfile_handle.c` | the tree, its text and the file, with restarts |
| `NextFit` | `mymalloc_nextfit/mm.c`, `memlib.c`, `eval_mm_valid` of `mdriver.c` | the heap as words of memory, the allocator's calls, the driver's checks |
| `Driver` | `mdriver.c` of `mymalloc_buddy` | the driver from options to summary; the allocator is a parameter (operators from heap to heap) |
| `Timing` | `fsecs.c`, `fcyc.c`, `ftimer.c`, `clock.c` | three ways to measure, as operators on a timer |
| `Buddy`, `FirstFit` | `mymalloc_buddy/mm.c`, `CSE4100/vm/malloc/mm.c`, their `memlib.c` | the two allocators, as operators |
| `ShellParser` | `parser`, `find_shell_command`, `find_arguments`, `command_list` | lines as sequences of tokens |
| `Shell` | `interpreter.c`, `sig.c`, `execute.c`, `module/*.c`, `myshell.c` | the shell, its handler, the leaders and the keyboard |
| `Rio` | `csapp.c` | system calls as sets of results, the buffer between them |
| `StockClients` | `client/*.c`, `service()` of the server | client processes and connections, byte by byte |
| `Benchmark` | `benchmark.c` | the benchmark process and its signals, over `StockClients` |
| `Threading_proof` | - | proofs about `Threading`: synchronisation; the ring and its refinement of `ConnQueue` |
| `StockOps_proof` | - | proofs about counters and updates |
| `ThreadServer_proof` | - | the composed server implements `Threading`, and what follows |
| `EventServer_proof` | - | proofs about the pool |
| `Shell_proof` | - | proofs about the shell and what its parser accepts |
| `NextFit_proof` | - | proofs about the next-fit allocator under the driver's checks |
| `Driver_proof` | - | proofs about the timers of the driver |
| `Benchmark_proof` | - | proofs about `StockClients`, `Benchmark` and the library functions |
| `MC*` | - | constants and symmetry for TLC; `MCAllocators` composes the driver with both allocators |

Definitions named `X_Y` and commented "Variant" are forms of the action `X` with
one plausible slip; no specification uses them. They show that the property named for them
in `PROJECT.json` notices the slip.

### How state and actions correspond to the code

*Threads.* `pc[t]` names the statement thread `t` executes next, `hpc[t]` the
statement of `sigsync_handler` on `t`. While a handler runs on `t`, `t` itself does
not move (`Goto`). The handler is installed with `signal()`, so `SIGSYNC` is
blocked while it runs on `t`, and `sem_wait` and `accept` resume afterwards.

*Connections.* A connection is numbered when `accept` returns it and that number
stands for its peer address; `sock[fd]` is the connection the kernel has behind
`fd`. So a torn slot, a descriptor that was closed and given out again, or an answer to the
wrong client are all visible. The two assignments of `sbuf_insert` and
`sbuf_remove` are separate actions.

*Synchronisation.* `Deliver` may pick any thread. `HandlerPrint` prints one node at
a time, in any order and without a lock, while workers may change the tree, as
`print_to_buf` does. A `kill` while the signal is pending has no effect
beyond the one pending signal.

*Undefined behaviour.* After the line `NL`, and after `NOCMD` as the first line of
a connection, `free_args()` works on pointers that were never set or were freed
already: the process goes on or aborts, a choice in the model (`Reply`,
`ServeLine`). A read that fails leaves a buffer with old contents that is parsed:
any command (`Leftover`). Signed overflow wraps, which is what this
build does.

*Process exit.* `Rio_writen` exits the process when a write fails: `up` becomes
`FALSE` and nothing moves any more.

*Descriptor -1 in the event server.* `accept` may fail at any time (EMFILE, ENFILE,
ENOMEM); the model follows the unchecked -1 through `add_client`: no slot is
used, `n` is incremented, and `FD_SET(-1)` sets the last bit of word 0 (`FdBit`; the divisions and
shifts of this build, without `_FORTIFY_SOURCE`, make that bit 63, `NFDBITS - 1`). `select` looks at it once
`maxfd` has reached it. If that descriptor is not open, `select` returns -1 and leaves
`ready_set` as it was, with `listenfd` in it, so `accept` is called and waits (`SelectFails`, `Blocked`). If a client
gets that descriptor, the bit is its own, and goes when it leaves.

*Text.* `StockFile` has the actual text as digits and separators, so that lengths matter:
`Digits` is `sprintf("%d")`, `Numbers` is `fscanf("%s")` with `atoi`, and
`Rounds` keeps the words of the previous round when the file ends early, as the
arrays of `read_stockfile` do.

*Heap.* In `NextFit` the memory is a number per word. Headers, footers and the user's data share
it, as in the program, so a tag that is read after the user has written over it is read as that
data. A call of the allocator is one action, since nothing runs concurrently with it; its
parts are operators from heap to heap with the names of the functions and macros of `mm.c`.
`Wild` is a search that leaves the memory or no longer advances. The driver fills block `i`
with byte `i`, and its error exits are the values of `verdict`. The memory of the model is small, so
any data but 0 leads out of it; in the 20 MB of the program byte 1 still stays
inside, and 2 and above do not.

*Allocators under the driver.* `Driver` does to a heap what `main()` does, and calls the allocator through constants
(`MMInit`, `MMMalloc`, ...), so one run has both allocators: the memory that `Init` picks tells which.
An allocator call ends the process by a field `fault` of the heap (an assert of `mm_free`, an
access outside the memory). The bitmap of `Buddy` is indexed as in the code: `BITS` bits to a word
and half of them as places in it. The entry behind the last free area is the first page struct, as in memory.
Timers see a clock only through counters of `WIDTH` bits, or through timevals, and how long a
call takes is chosen freely from `Durations`.

*Shell.* The shell's own steps need an empty `handler` stack; the handler runs between any two of them, and on top of
itself while it sleeps in `sigsuspend`. `SIGCHLD` is one bit. A child is a leader with the number of
commands it has still to fork and that are left. A freed job keeps its place in the
table; what the code reads from it is a choice, and using it may end the shell. On ^Z the commands that are executing stop, and those that are not yet executed go on; the model
has both outcomes of a leader with commands (`CtrlZ`). `waitpid` that finds no such child leaves `st`
uninitialised, so the job may be inserted or not (`WaitOn`). A builtin in the background or in a pipe works on
a copy of the table in a process of its own, so only its signals matter (`switch_case_cmd`).

*Clients and benchmark.* A socket is a sequence of bytes of bounded length in each direction; `read` and `write`
move any positive number of them or return `EINTR`. An order is one byte and a newline, its answer `MAXLINE` times
that byte, so a byte of another answer is visible. The last line of `stockclient`'s input may lack its newline (`Cut`). The mask `ss` of the benchmark is any set of its two signals. A
server may fail to listen and not notice, or end while it boots or while clients are connected. The user of `stockclient` may type or not.

## 3. Runs

| run | states | what it shows |
|---|---|---|
| `threading` | 161,940 | `TypeOK`, `MutexHandOff`, `WaitingIntact`, `ServedByOne`, `QuiescentPersisted`, and that `sbuf` refines `ConnQueue` (`IsQueue`) |
| `stock_ops` | 30,706 | the counters are exact, no update is lost, a spinning writer gets to the tree |
| `stock_ops_oversold` | violation | two buys of the last share both succeed |
| `thread_server` | 359,222 | the composed server implements `Threading`; every answer goes to the client that asked, with resets |
| `thread_server_live` | 131,670 | every accepted connection ends up closed or the process has ended; the file catches up |
| `event_server` | 137,708 | the pool is consistent, the stray bit of a failed `accept` included, no ready client is skipped, nothing is oversold, the file of an idle server is current, every line is served unless that bit makes `select` fail |
| `stock_file` | 8,242 | printing and reading are inverse; a restart finds every stock of the last synchronisation |
| `stock_file_tail` | violation | the file is not what the tree prints |
| `next_fit` | 345,504 | `HeapSound` (the blocks tile the heap, the allocated ones are those in use, free neighbours are merged), the driver finds no error, the heap grows only if nothing larger than the request is free |
| `allocators` | 899,989 | payloads lie apart and keep their bytes; `FreeAreasSound` (lists linked, every page in one block, merge bits exact); `checkheap` is silent; replays are the same; measured times, best samples and the index are right |
| `shell` | 335,749 | the prompt waits for the foreground child, ended children are reaped, the terminal comes back, `exit` ends unless a handler or a leader sleeps or is stopped; the parser accepts the command lines and finds every command |
| `benchmark` | 137,887 | no byte is lost, client phases meet a server and wait for their clients, every client ends unless its last line has no newline; `open_clientfd`, `open_listenfd` and `sio_ltoa` keep their promises |

What each property says is in the comment above it. The type invariant of a module is a conjunct
of its first invariant, except in `Threading`, where it is checked, and proved, by itself.

### Bounds, and why they are enough

- `threading`: 2 workers, 2 slots, 3 connections, 3 descriptors, 2 stocks with 2 counts.
  With 3 connections the ring of 2 wraps and is full with a third connection waiting
  to be inserted; a descriptor is reused after a close; both workers can leave at once, which is the
  case `idle_threads` is about; 2 stocks let a handler print one before and one
  after a change. Workers and descriptors are symmetric; no liveness is checked with
  symmetry.
- `stock_ops`: 2 workers that execute any commands for ever, a stock that exists
  and one that does not, `IntMax = 1`. A lost update needs two workers. Ints of
  two bits make wrap-around reachable in one step.
- `thread_server`: 1 slot, 2 connections, all kinds of lines but `exit`, and resets. `exit` is
  left out because it is what `StaysUp` is about: after it the descriptor is closed
  while the worker still uses it, and neither property is meant to hold.
- `thread_server_live`: lines `show`, `sell` and `exit`, no resets: the questions are about waiting
  and spinning, which need a reader and a writer.
- `event_server`: 2 slots, 3 clients and 3 descriptors, so the pool overflows;
  amounts 2 and the least int, which is its own negation. `NFDBITS = 6` makes the second of the three descriptors
  the one of the stray bit: it is below, at and above `maxfd`, open and closed.
- `stock_file`: counts of one to three digits and steps of 99, so a text gets shorter
  and longer by two characters; files with the stocks in either order and one that
  names a stock twice; at most 5 nodes, because every boot may add one.

- `next_fit`: a heap of 160 bytes that starts with 48 and grows twice or three times, traces of 7
  requests on 3 blocks of three sizes. Every case of `coalesce`, splits of both kinds, all three ways through
  `mm_realloc`, the second split in it, the wrapped search and the end of the memory occur in
  traces of 6. Sizes are multiples of 8: with a size that is 4 modulo 8 `mm_realloc`
  packs size bits into the flags and `Tiled` fails in three requests (`mm.c:161`).

- `allocators`: 8 pages of 8 bytes, so three orders and two blocks of the top order; words of 4 bits; a
  first-fit heap of 240 bytes that grows by 32. The default traces have 1 and 4 requests of every kind; the
  file of `-f` begins with eight pages in use and three of them free in different pairs, and goes on with any two requests,
  because a merge works only if the buddy is in the middle of its list. Other files are missing, short or have a bogus request. Two options at most. Counters
  of 2 bits start at 78, so that the low word wraps; 2 best of at most 3 samples. `mem_init` gets memory 8
  times, so a measurement runs out of it.
- `shell`: three lines. The first is `ls` or `sleep &`, the second any of 14, one of every builtin, a pipe, an unknown
  command, syntax errors, builtins in the background and in a pipe; the third makes the shell print and free the jobs
  that are done. The parser is checked on all lines of up to 5 of 7 tokens, with `MAXARGS = 3`.
- `benchmark`: up to two clients and three orders (with two clients the division leaves a remainder), no client at all, answers of 4
  bytes through buffers of 2 and sockets of 2, so that every read and write can be partial; all masks. With `MAXLINE = 4` a line is
  shorter than the buffer of `rio_readlineb`, so only its newline ends it. The library functions are checked on up to
  3 addresses, of every kind, and on numbers from -40 to 40 in three bases.

### Fairness, and why the code justifies it

- `StockOps`: weak fairness of every worker inside a command. A thread that can run is
  scheduled; a spinning one runs without advancing. No fairness on new requests.
- `ThreadServer`: weak fairness of every thread, every handler, and of the delivery of a pending
  signal (kernel); of service steps (the client answers or the read returns); and
  strong fairness of `ReadEOF`, which says that a client does not stay for ever. None on `accept`.
- `EventServer`: weak fairness of the one process, except where it waits in `accept` after a failed `select` (`Blocked`): that nobody may ever end.
  Nothing is assumed of the clients.
- `Shell`: weak fairness of the shell, of its handler (delivery included) and of every leader. Nothing
  is assumed of the user; the end of a command is part of the leader's fairness, so commands do end. `ExitEnds`
  relies on that.
- `Benchmark`: weak fairness of the server's start, of every client and of the thread that serves it. None on the
  death of the server, nor on the benchmark and the multiclient process: a client does not need them. None
  on the user of `stockclient` (`UserStep`): typing, and the end of the input, may never come. A process that could always read again is
  not interrupted for ever.

Deadlock is checked in every run but two: a server waiting for clients still accepts
(failed accepts included), and the end of the process is a step of its own (`Exited`). In `shell` and
`benchmark` it is not checked, because these programs really stop: a client program ends, a benchmark phase may
wait for a signal that has passed, and the shell may hang (section 5).

## 4. Proofs

The theorems hold for every value of the constants that the assumptions of the modules allow: any finite number of
workers, clients and connections, any size of ring, pool, buffer and socket, any width of int. `PROJECT.json` lists them
under "theorems". Each one rests on an inductive invariant, which is given here because it is
the reason why the code works.

The loops of the parser, of the allocator's searches and of the library are recursive functions. The library's induction theorems take a
predicate as a parameter, which the provers here cannot instantiate, so `LeastElement` (`Least` in `NextFit_proof`) takes their place: a set of natural numbers has a least
element (`WFMin` of `WellFoundedInduction`), and a loop that is wrong somewhere would be wrong at a least place, where its
equation says otherwise. That a function with the equation exists is shown in the same way, one argument at a time.

### Thread based server: buffer and synchronisation

`Threading_proof`, about synchronisation:

- `TypeCorrect`: `Spec => []TypeOK`. No semaphore is negative, every ring index is a slot.
- `MutexSafe`: `Spec => []MutexHandOff`. There is one permission of `sbuf.mutex`, in one of five
  places. The lemmas `MutexAcquire`, `MutexRelease` and `MutexSilent` say what a
  step may do with it; each action is one of the three, or moves the permission between
  `kill`, the pending signal and the handler.
- `Persisted`: `Spec => []QuiescentPersisted`. The property is not inductive: that the
  worker that leaves last synchronises depends on `idle_threads` being exact, and that the
  synchronisation is good depends on what the handler has printed so far. `SyncInv`
  adds `IdleExact` (the semaphore is the number of workers outside service),
  `TextsEmpty` (no leftovers of an earlier print) and `WillSync` (a worker is active, or
  the file is current or about to be, with current text). The inductive
  invariant is `SyncIInv == TypeOK /\ MutexHandOff /\ SyncInv`. `MutexHandOff` is in it because
  a second handler could otherwise overwrite the file with older text.

and about the ring:

- `WaitingSafe` and `ServedSafe`: `WaitingIntact` and `ServedByOne`. The inductive invariant is
  `RingInv == TypeOK /\ MutexHandOff /\ RingCounts /\ ConnInv`. `RingCounts` says that `empty_slots` and `items`, with the
  threads between a wait and a post, count the free and the full places, so that `rear - front` never exceeds the ring; arithmetic lemmas turn
  that into different slots for different waiting connections. `ConnInv` says who holds a connection between `accept` and
  the ring, and between the ring and `close`. The mutex is needed since only its owner moves `front` or `rear`.
- `SbufIsQueue`: `Spec => IsQueue`, the refinement of `ConnQueue`. A step of an insertion is a stutter until
  the second word of the slot is written, and that of a removal until the second one is read.

### Thread based server: commands and the whole server

`StockOps_proof` (with lemmas about the arithmetic of `StockCommands`, which `EventServer_proof` has too):

- `CountersSafe`, `UpdatesSafe`: `CountersExact` and `NoLostUpdate`. In `OpsInv`, `Locks` says which statements hold a mutex and that
  the semaphore is free exactly when no worker is at one of them; `ExactCounts` counts the worker between load and store; for a node, that
  what a worker has loaded under `modify_mutex` is still the count. Neither property is inductive without the value in the register.

`ThreadServer_proof`, about `Threading` and `StockOps` composed:

- `ServerCounts`: both properties hold inside the whole server, whatever clients send. `ServerInv == ServerPc /\ OpsInv /\ CmdSent`.
- `ServerImplements`: `ServerSpec => ImplementsThreading`, with `AbsPc` as the mapping of program counters: all of `service()`
  is the label "serve" of `Threading`. The hypothesis is `"exit" \notin ClientOps`: `exit_client` closes the descriptor in the middle of the
  service, the kernel may give it out again, and then the implementation does not hold (section 5, `StaysUp`).
- `ServerSync`: what is proved of `Threading` therefore holds of the whole server.
- `AnswersOwn`: `AnswersOwnClient`, from `ServedByOne` through the refinement.

### Event driven server

`EventServer_proof`: `PoolSafe`, `ScanComplete`, `IdleSafe` and `SoldSafe`, from one inductive invariant `EventInv`. `PoolInv` has the parts of `PoolConsistent`
in the form in which a loop in the middle of the pool keeps them: `read_set` is the listening descriptor and the clients, and perhaps the stray bit once
an `accept` has failed. `Reported` says that `nready` is the number of descriptors in `ready_set` that the
scan has not reached, or that `select` has failed and it is negative, without which `NoReadyClientSkipped` (the loop may stop at `nready = 0`) is not inductive; cardinality
lemmas account for the descriptor that a step handles.

### Shell

`Shell_proof`: `PromptInOrder` (the action property `PromptAfterForeground`) and `TerminalReturns` (the second
conjunct of `IdleOwnsTerminal`). `ShellInv` adds to types that the pids in use are `1 .. forks` (`Counted`), that whatever `waitpid` may report as stopped is stopped (`StoppedAre`) and
`TerminalOwned`: who has the terminal is alive, or a `SIGCHLD` is pending or its handler is running, which will take the
terminal back. The lemmas `ReapMoves`, `Usr2Moves`, `ContinueMoves`, `OneMoves` and `EndMoves` are the ways in which a leader changes
its state. What the parser made of a line is left open, so these proofs need nothing about it.

`ParserAlwaysFollows`: `Spec => []ParserFollowsGrammar`, for lines of any length and any `MAXARGS`. `ReadsOn` and `ReadsAll` follow `parser()` from
token to token: what it has made of the first tokens is what the grammar says of them, if it has not refused. Every command that is longer
than `MAXARGS` words is outside the property (`FewArguments`), as the words behind are taken for a command. `SearchFinds` and `SearchFails` are about the binary
search of `find_shell_command`: names are compared by two characters only, so `KeysOrdered` says that the 30 names of
`command_list` are in strict order of the number that these two make (`Key`), and the name, if it is there, stays between the two bounds.

### Next-fit allocator

`NextFit_proof`: `HeapAlwaysSound`, `DriverAlwaysContent` and the action property `HeapGrowsOnlyWhenFull`. The properties of the run walk along the
headers in memory; the proofs describe a heap by the set `S` of its block pointers, the block `nx[b]` after each, and the set `F` of the free ones.
`Layout` says that header and footer of every block hold the length and the use that this description gives (`Tags`) and that it
reaches from the prologue to the break; `Coal` that no two free blocks are neighbours; `Owns` that every payload of the driver lies in a
block of its own and holds its fill. `ChainReads` shows that walking along the headers visits exactly `S`. The inductive invariant `IInv` says that such a description
exists, that the allocated blocks are those of the driver, and where `last_bp` is: at a block, or inside the payload of a block in
use (`StrayIn`). The latter is needed because `mm_realloc` leaves `last_bp` where it was when it merges the block away (`mm.c:154`).

One lemma for every function says what it does to the description: `TagEffect` and `MarkEffect` for a block that is split or taken whole,
`CoalesceEffect` for the four cases of `coalesce`, `ExtendEffect`, `EndLoopFinds`, `LastLoopFinds` and `NextFitFinds` for the searches (they end, find a block that fits, and none only
if there is none), `MallocEffect`, `FreeEffect` and `ReallocOK` for the three calls. `OwnsCarried` and `Keeps` say that nothing else is written.

Two hypotheses are in the statements. `SizesAligned`: sizes are multiples of 8, because `mm_realloc` marks a block with `size + 8`, and for a size that
is 4 modulo 8 the blocks do not tile the heap any more (`mm.c:161`). `OutOfReach`: the fill of a block, read as a size by a stray `last_bp`, leads out of
the memory. With the 20 MB of the program that is true of every index but 1 (`16843009 < 20971520`), so there the theorems are about traces that do
not use index 1; for smaller memories they are about all. Index 0 is allowed: its fill reads as a size of 0, which ends the first loop of the search.

### Malloc driver

`Driver_proof`: `SamplerKeepsTheBest` (`SamplesKBest`) and `MeasuresWhatPassed` (the action property `MeasuresElapsed`), whatever the allocator does. `TimerInv` says that
the timer is one of the packages with a clock that is not negative, and that while a function is measured `values[]` is the sampler of the samples so far. `Sampler` is
stronger than the property only in its form: there are different places `pick[i]` in `samples`, in order of their values, and none of the others is
less than the last. `AddedSorted` shows that one insertion keeps this, wherever the new sample sinks to (`Sinks`). The samples may be
negative: `get_comp_counter` subtracts what it takes the ticks to have cost.

`CounterDifference` is about `get_counter()` over two words of any width `B`: with the borrow of `clock.c:64` the difference of two readings is
exactly the time between them, as long as that is less than `B * B`. `TimevalDifference` is the same for seconds and microseconds, with microseconds of
either sign. Both rest on the uniqueness of quotient and remainder (`DivUnique`), which the prover does not know.

### Clients and benchmark

`Benchmark_proof`:

- `BytesSafe`: `Spec => []BytesIntact`. `WireInv` says that a connection is idle, or carries the line of one order in the order
  `line`, `rio_buf`, socket, rest of the writer, or its answer likewise, and never parts of both. The lemmas before it are about four
  sequences of which a prefix moves into the one before. That a full answer ends the reading uses that an answer has `MAXLINE` bytes.
- `FindServer`, `PhaseTimed`: `ClientsFindServer` and the action property `PhaseTimesClients`. `PhaseInv` says which signals can be
  pending: until the server has booted no `SIGCHLD`, afterwards no second `SIGUSR1`, and a `SIGCHLD` only when the multiclient process of this phase has
  ended; and by `MayRun` which clients may still run. Both are claims while the server lives. `ProcTyped` bounds `runprocess` and `waited`.
- `LibraryCorrect`: `Spec => []LibraryKeepsPromises`. `WalkGives` says of `open_clientfd` and `open_listenfd` of `csapp.c`, from every place of the address list on, that one descriptor is left open if
  the walk comes to an address that can be used before a `close` fails, and none otherwise; `LtoaAlways` that what `sio_ltoa` writes denotes its argument, for every number and base. The clients' copy
  is proved to do the same for numbers that are not negative.

### Assumptions

All are stated as named `ASSUME`s, which TLC evaluates in the runs. `ProcessAssumption`, `ThreadingAssumption`: the workers are a finite, non-empty set, `main` is none of them, the
buffer has a slot, -1 is not a descriptor. `StockCommandsAssumption`: `IntMax` is a natural number. `EventServerAssumption` and `ThreadServerAssumption`: the pool has a
slot, the listening descriptor is below the stray bit, the constants of the model have their types, and counts are ints (`0 .. IntMax \subseteq Counts`, `Counts = Int32`: `modify()` can produce them all). `ShellAssumption`: a line can be
read, and the table has more entries than lines. `RioAssumption`, `ClientsAssumption`: buffers and sockets hold a byte, and `MAXLINE` is more than the two bytes of an order. `BenchmarkAssumption`: numbers of
clients and orders are not negative. `LibraryAssumption`, `LongLinesAssumption`: bases are at least 2, and the address lists and the lines for the parser are sequences of what they should be.
`NextFitAssumption`: the memory and `CHUNCKSIZE` are multiples of 8 and one chunk fits, sizes are positive multiples of 4, indices fit into seven bits. `TimingAssumption`, `ClocksAssumption`: there are samples to keep, a
word has bits (that `2 ^ WIDTH` is a positive number is stated because the provers have no exponentiation), the timer is one of the three packages, and no call takes as long as the whole counter. No assumption mentions a reachable state.

### Model-checked only

- Liveness: `ClientsFinish`, the waiting and spinning of the servers, the reaping of children, `ExitEnds`. Fairness is outside what the prover handles.
- `StockFile`: the tree and its text are recursive operators, which the prover cannot unfold. Recursive functions would need a set of all
  trees as their domain, which TLC could not evaluate.
- `Buddy`, `FirstFit` and what the driver finds of them (`PayloadsApart`, `FreeAreasSound`, `CheckheapSilent`, `ReplayIsTheSame`, `IndexIsEarned`):
  they are as much work as `NextFit_proof`, with a bitmap and linked lists besides, and depend on the allocator. No
  property of the driver alone implies them: `add_range()` only looks at the ends of a payload.
- `TypeOK` of `Shell`: that the job table does not overflow is a matter of the few lines of the run. A line
  may enter two jobs, and `insert_jobs` has no bound (`jobs.c`), so it is not true for all constants.
- The inductive invariants `SyncInv`, `RingInv`, `OpsInv`, `ServerInv`, `EventInv`, `ShellInv`, `WireInv`, `PhaseInv`, `TimerInv` and `IInv` are in no run: they are proved.

## 5. Disagreements with documents and tests

Two have a run of their own:

1. `NeverOversold` (thread based): `modify()` tests before it locks (`binary_tree.c:41`);
   the unit test expects `NOTENOUGHERR`.
2. `FileIsMemory`: `stock.txt` is opened without `O_TRUNC`.

These are stated in the modules, are violated when TLC checks them, and are in no run:

3. `ReaderWriterExclusion` (`StockOps`): the test of one counter and the increment of the other are separate
   steps, so a reader and a writer can be in the tree together (`impl.c:14`, `:39`), although
   `threading.h:71` and the report exclude it.
4. `StaysUp` (`ThreadServer`): `exit_client` closes the socket before the answer is written; the write fails and
   the process exits (`impl.c:74`).
5. `NeverWild` (`NextFit`): `mm_realloc` does not move `last_bp` off the block it merges (`mm.c:154`), and
   does not look at what `mm_malloc` returns (`:160`). The driver's realloc
   traces grow index 0 only, whose data reads as a size of 0, which is harmless.
6. `ForegroundReturns` (`Shell`): the handler that finds a killed child sleeps in `sigsuspend`
   (`sig.c:31`), and the line it interrupted does not return.

Met while modelling:

- Event driven server: an unchecked failed `accept` counts a client that never leaves, so the file is not
  written any more (`IdlePersisted` is stated for servers to which this has not happened). It also sets bit 63 of `read_set` (`network.c:116`): when 63 or more
  descriptors have been in use and 63 is closed, `select` fails with EBADF, nobody looks at its result, and the server
  accepts but serves nobody until 63 is open again. Both servers: the report's
  periodic synchronisation (16 seconds) does not happen, since `time_check()` is never called; "NO SUCH STOCK" is
  never sent.
- Next-fit: `mm_realloc` with sizes that are no multiple of 8 (above).
- Driver: the check of `mm_realloc` compares a signed `char` with 0 .. 255, so for block indices whose low byte is 128 or more it always fails
  (`mdriver.c:653`); a negative compensated time gives a negative throughput, which no cap meets (`:334`).
- Buddy: `init_buddy()` leaves the bit of the two top blocks set, so a merge up to that order takes the other block
  whatever its use (`mm.c:442`); the invariants are stated for heaps to which this has not happened
  (`TopUntouched`). From 33 pairs of an order on two pairs share a bit (`:156`). The asserts abort a merge whose
  buddy is first or last in its list (`:460`). Every `mm_init` leaks the memory before (`:373`).
- Shell: a background child that ends before its job is inserted stays `RUNNING` in the table (`interpreter.c:65`); freed
  jobs stay in the table and are read and freed again (`jobs.c:44`); the search for the first job has no bound
  (`:68`); the handler inserts `child_pid` and not the child that stopped (`sig.c:19`), and the foreground wait may insert it again;
  a foreground leader whose commands do not stop at ^Z, or too late, exits (`interpreter.c:116`); a leader whose commands ended before
  `sigsuspend` sleeps until a signal (`interpreter.c:116`); `exit` waits for ever for a stopped job
  (`exit.c:10`); `fg` may wait for group 0 (`jobs.c:119`); words after the 15th argument are taken for
  a command (`interpreter.c:265`).
- Clients and benchmark: a signal before `sigsuspend` leaves the benchmark waiting (`benchmark.c:91`); the death of the server
  ends a phase early; the query type goes to `serverargv`, so all three phases send random orders (`:104`), and
  `strcmp` is used the wrong way round (`multiclient_benchmark.c:40`); the remainder of `total_order / num_client` is not sent
  though it is counted (`:37`); a client that fails makes the benchmark exit without its server (`benchmark.c:53`). A last line of input without a newline leaves `stockclient` and server waiting for each
  other (`stockclient.c:23`, `util.c:34`).
- Library: when `close` fails, `open_clientfd` and `open_listenfd` of `csapp.c` return -1 although a later address may
  work (`csapp.c:973`, `:1025`). `sio_ltoa` of the clients' copy writes one wrong character for a negative number
  (`client/csapp.c:231`).

## 6. Not modelled, and why

- Overflow of `front` and `rear` after 2^31 connections: the bound `MaxAccepts` stays below it.
- Pipelined lines in the event server (its `rio` buffer is a copy that is dropped): the clients of
  the repository wait for each answer.
- Descriptors at or above `FD_SETSIZE`, lines longer than `MAXLINE`, more than `MAX_CLIENT` clients, an empty stock
  file (uninitialised arrays), the contents of answers, printing and logging.
- Failing I/O of the synchronisation: `fsync_stockfile` ignores the results of `open`, `write` and `fsync`
  (`stockfile_handle.c:24-27`); in the models it succeeds, and the write is one step. So `QuiescentPersisted`, `IdlePersisted`, `FileCatchesUp` and `RestartKeepsStocks`
  are about disks that work and crashes outside the write.
- In the event server, a `select` that fails for another reason than the stray bit (EINTR, ENOMEM), and a `close` that fails, which would leave the
  client in the pool (`network.c:128`).
- In the shell, job numbers outside the table (`jobs_list[-1]`, `jobs.c:99`) and what commands do with a pipe. A `fork` that fails: its -1 is taken for
  a child, so that `waitpid(-1)` waits for any child and -1 is inserted as a job (`interpreter.c:49-65`). The SIGCONT that a builtin in a pipe sends
  to its leader (`execute.c:43`), which goes on if another command has stopped it. Which commands have been executed when ^Z comes: the
  model allows every outcome.
- `sio_ltoa` of the least `long`. Sizes for the first-fit allocator that are no multiples of its word.
- `macro.c`, which only repeats the benchmark (its loop tests a variable that never changes, `:73`); the unit tests.
- The wrappers of `csapp.c` that only report an error, the exits of the clients' `Getaddrinfo` and `Close` (`client/csapp.c`), `excode/` and class material: textbook code and
  exercises that share no state with the programs.

## 7. Plan

Every component is modelled as far as it is meant to be, and the invariants of the servers, the clients, the benchmark, the next-fit allocator and
the timers are proved. What is left, in this order:

1. The buddy allocator with the description by sets that `NextFit_proof` uses for the next-fit heap: the pages of every block, and the bit of a pair as the
   exclusive or of two memberships.
2. The first-fit allocator likewise, whose `coalesce` has the same four cases.
3. `StockFile` with a tree of numbered nodes in place of nested records, so that the steps of a restart can be reasoned about.
