----------------------------- MODULE Threading -----------------------------
(***************************************************************************)
(* threading.c of the thread based stock server, with the accept loop of   *)
(* main(): connections travel from the main thread through the bounded     *)
(* buffer sbuf to the workers; a worker that finds every thread idle takes *)
(* sbuf.mutex and sends SIGSYNC to the process, and the handler, on        *)
(* whatever thread the kernel picks, writes the stock file and gives       *)
(* sbuf.mutex back.                                                        *)
(*                                                                         *)
(* service() is abstract here: it changes counts of stocks for as long as  *)
(* the client stays and ends by closing the connection.  ThreadServer      *)
(* replaces it by the code of network.c and impl.c.                        *)
(***************************************************************************)
EXTENDS Process

CONSTANTS
    Slots,       \* sp->n, the size of the buffer (PENDING_CONNECTION_N)
    Fds,         \* the descriptors accept() can return, all above listenfd
    NoFd,        \* -1
    Counts,      \* the values a count field can have
    MaxAccepts   \* bound on the number of successful accepts; front and rear
                 \* are ints that only grow, so it stands for 2^31 - 1 too

ASSUME ThreadingAssumption ==
    /\ Slots \in Nat \ {0}
    /\ MaxAccepts \in Nat
    /\ NoFd \notin Fds

VARIABLES
    buf, front, rear,            \* sbuf.waiting_connfd, .front, .rear
    mutex, empty_slots, items,   \* the semaphores of sbuf
    connfd, clientaddr,          \* the globals main() accepts into
    sock,          \* kernel: sock[fd], the connection behind fd, 0 if closed
    wc,            \* wc[w]: the waiting_connfd local of network_worker
    idle_threads,  \* semaphore
    sigpending,    \* a SIGSYNC was generated and not delivered yet
    printed,       \* printed[t]: buf of fsync_stockfile() on t, by stock
    file           \* the stock file, by stock

sbuf == <<buf, front, rear, mutex, empty_slots, items>>
conns == <<connfd, clientaddr, sock>>
sync == <<sigpending, hpc, printed, file>>
vars == <<pc, hpc, count, buf, front, rear, mutex, empty_slots, items, connfd,
          clientaddr, sock, wc, idle_threads, sigpending, printed, file>>

(***************************************************************************)
(* Connections are numbered in the order accept() returned them; the       *)
(* address of the peer, clientaddr, is that number.  Slots are calloc'ed.  *)
(***************************************************************************)
ConnNos == 0 .. MaxAccepts

Conn == [connfd : Fds \cup {NoFd}, clientaddr : ConnNos]

NoConn == [connfd |-> NoFd, clientaddr |-> 0]

EmptyText == [i \in {} |-> 0]

Texts == UNION {[S -> Counts] : S \in SUBSET Ids}

MainLabels == {"accept", "ins_wait", "ins_lock", "ins_fd", "ins_addr",
               "ins_unlock", "ins_post"}

WorkerLabels == {"rem_wait", "rem_lock", "rem_fd", "rem_addr", "rem_unlock",
                 "rem_post", "idle_wait", "serve", "idle_post", "getvalue",
                 "sync_lock", "kill"}

HandlerLabels == {"none", "print", "post"}

TypeOK ==
    /\ pc \in [Threads -> MainLabels \cup WorkerLabels]
    /\ pc[MainThread] \in MainLabels
    /\ \A w \in Workers : pc[w] \in WorkerLabels
    /\ hpc \in [Threads -> HandlerLabels]
    /\ count \in [Ids -> Counts]
    /\ buf \in [0 .. Slots - 1 -> Conn]
    /\ front \in Nat
    /\ rear \in Nat
    /\ mutex \in Nat
    /\ empty_slots \in Nat
    /\ items \in Nat
    /\ connfd \in Fds \cup {NoFd}
    /\ clientaddr \in ConnNos
    /\ sock \in [Fds -> ConnNos]
    /\ wc \in [Workers -> Conn]
    /\ idle_threads \in Nat
    /\ sigpending \in BOOLEAN
    /\ printed \in [Threads -> Texts]
    /\ file \in [Ids -> Counts]

(***************************************************************************)
(* mutex_init(), read_stockfile() and the creation of the workers.         *)
(***************************************************************************)
Init ==
    /\ pc = [t \in Threads |-> IF t = MainThread THEN "accept" ELSE "rem_wait"]
    /\ hpc = [t \in Threads |-> "none"]
    /\ file \in [Ids -> Counts]
    /\ count = file
    /\ buf = [k \in 0 .. Slots - 1 |-> NoConn]
    /\ front = 0 /\ rear = 0
    /\ mutex = 1 /\ empty_slots = Slots /\ items = 0
    /\ connfd = NoFd /\ clientaddr = 0
    /\ sock = [fd \in Fds |-> 0]
    /\ wc = [w \in Workers |-> NoConn]
    /\ idle_threads = Cardinality(Workers)
    /\ sigpending = FALSE
    /\ printed = [t \in Threads |-> EmptyText]

-----------------------------------------------------------------------------
(***************************************************************************)
(* main(): accept, then sbuf_insert.                                       *)
(***************************************************************************)
Accept ==
    /\ Goto(MainThread, "accept", "ins_wait")
    /\ clientaddr < MaxAccepts
    /\ \E fd \in Fds :
        /\ sock[fd] = 0
        /\ connfd' = fd
        /\ sock' = [sock EXCEPT ![fd] = clientaddr + 1]
    /\ clientaddr' = clientaddr + 1
    /\ UNCHANGED <<hpc, count, sbuf, wc, idle_threads, sigpending, printed, file>>

(* Variant: a failed accept() is not filtered out. *)
AcceptError_Unchecked ==
    /\ Goto(MainThread, "accept", "ins_wait")
    /\ connfd' = NoFd
    /\ UNCHANGED <<hpc, count, sbuf, clientaddr, sock, wc, idle_threads,
                   sigpending, printed, file>>

(* accept returned -1: connfd > listenfd is false, nothing is inserted. *)
AcceptError ==
    /\ Goto(MainThread, "accept", "accept")
    /\ connfd' = NoFd
    /\ UNCHANGED <<hpc, count, sbuf, clientaddr, sock, wc, idle_threads,
                   sigpending, printed, file>>

(* Variant: sbuf_insert does not wait for an empty slot. *)
InsertWait_Full ==
    /\ Goto(MainThread, "ins_wait", "ins_lock")
    /\ UNCHANGED <<count, sbuf, conns, wc, idle_threads, sync>>

InsertWait ==
    /\ Goto(MainThread, "ins_wait", "ins_lock")
    /\ SemWait(empty_slots)
    /\ UNCHANGED <<count, buf, front, rear, mutex, items, conns, wc,
                   idle_threads, sync>>

InsertLock ==
    /\ Goto(MainThread, "ins_lock", "ins_fd")
    /\ SemWait(mutex)
    /\ UNCHANGED <<count, buf, front, rear, empty_slots, items, conns, wc,
                   idle_threads, sync>>

InsertFd ==
    /\ Goto(MainThread, "ins_fd", "ins_addr")
    /\ rear' = rear + 1
    /\ buf' = [buf EXCEPT ![(rear + 1) % Slots].connfd = connfd]
    /\ UNCHANGED <<count, front, mutex, empty_slots, items, conns, wc,
                   idle_threads, sync>>

InsertAddr ==
    /\ Goto(MainThread, "ins_addr", "ins_unlock")
    /\ buf' = [buf EXCEPT ![rear % Slots].clientaddr = clientaddr]
    /\ UNCHANGED <<count, front, rear, mutex, empty_slots, items, conns, wc,
                   idle_threads, sync>>

InsertUnlock ==
    /\ Goto(MainThread, "ins_unlock", "ins_post")
    /\ SemPost(mutex)
    /\ UNCHANGED <<count, buf, front, rear, empty_slots, items, conns, wc,
                   idle_threads, sync>>

InsertPost ==
    /\ Goto(MainThread, "ins_post", "accept")
    /\ SemPost(items)
    /\ UNCHANGED <<count, buf, front, rear, mutex, empty_slots, conns, wc,
                   idle_threads, sync>>

MainStep ==
    \/ Accept \/ AcceptError
    \/ InsertWait \/ InsertLock \/ InsertFd \/ InsertAddr \/ InsertUnlock
    \/ InsertPost

-----------------------------------------------------------------------------
(***************************************************************************)
(* network_worker(): sbuf_remove, then the service of one connection, then *)
(* the decision to synchronise the file.                                   *)
(***************************************************************************)
(* Variant: items is a plain counter, nobody waits for it. *)
RemoveWait_Empty(w) ==
    /\ Goto(w, "rem_wait", "rem_lock")
    /\ items' = items - 1
    /\ UNCHANGED <<count, buf, front, rear, mutex, empty_slots, conns, wc,
                   idle_threads, sync>>

RemoveWait(w) ==
    /\ Goto(w, "rem_wait", "rem_lock")
    /\ SemWait(items)
    /\ UNCHANGED <<count, buf, front, rear, mutex, empty_slots, conns, wc,
                   idle_threads, sync>>

(* Variant: sbuf_remove does not take the mutex. *)
RemoveLock_None(w) ==
    /\ Goto(w, "rem_lock", "rem_fd")
    /\ UNCHANGED <<count, sbuf, conns, wc, idle_threads, sync>>

RemoveLock(w) ==
    /\ Goto(w, "rem_lock", "rem_fd")
    /\ SemWait(mutex)
    /\ UNCHANGED <<count, buf, front, rear, empty_slots, items, conns, wc,
                   idle_threads, sync>>

RemoveFd(w) ==
    /\ Goto(w, "rem_fd", "rem_addr")
    /\ front' = front + 1
    /\ wc' = [wc EXCEPT ![w].connfd = buf[(front + 1) % Slots].connfd]
    /\ UNCHANGED <<count, buf, rear, mutex, empty_slots, items, conns,
                   idle_threads, sync>>

RemoveAddr(w) ==
    /\ Goto(w, "rem_addr", "rem_unlock")
    /\ wc' = [wc EXCEPT ![w].clientaddr = buf[front % Slots].clientaddr]
    /\ UNCHANGED <<count, sbuf, conns, idle_threads, sync>>

RemoveUnlock(w) ==
    /\ Goto(w, "rem_unlock", "rem_post")
    /\ SemPost(mutex)
    /\ UNCHANGED <<count, buf, front, rear, empty_slots, items, conns, wc,
                   idle_threads, sync>>

RemovePost(w) ==
    /\ Goto(w, "rem_post", "idle_wait")
    /\ SemPost(empty_slots)
    /\ UNCHANGED <<count, buf, front, rear, mutex, items, conns, wc,
                   idle_threads, sync>>

IdleWait(w) ==
    /\ Goto(w, "idle_wait", "serve")
    /\ SemWait(idle_threads)
    /\ UNCHANGED <<count, sbuf, conns, wc, sync>>

(* service(): a request changed the count of a stock. *)
ServiceModify(w) ==
    /\ Goto(w, "serve", "serve")
    /\ \E i \in Ids, v \in Counts : count' = [count EXCEPT ![i] = v]
    /\ UNCHANGED <<sbuf, conns, wc, idle_threads, sync>>

(* service(): the client is gone; socket_close, break. *)
ServiceClose(w) ==
    /\ Goto(w, "serve", "idle_post")
    /\ sock' = [sock EXCEPT ![wc[w].connfd] = 0]
    /\ UNCHANGED <<count, sbuf, connfd, clientaddr, wc, idle_threads, sync>>

IdlePost(w) ==
    /\ Goto(w, "idle_post", "getvalue")
    /\ SemPost(idle_threads)
    /\ UNCHANGED <<count, sbuf, conns, wc, sync>>

(* Variant: the worker counts itself as busy still. *)
GetValue_OffByOne(w) ==
    /\ \/ /\ idle_threads = Cardinality(Workers) - 1
          /\ Goto(w, "getvalue", "sync_lock")
          /\ UNCHANGED wc
       \/ /\ idle_threads # Cardinality(Workers) - 1
          /\ Goto(w, "getvalue", "rem_wait")
          /\ wc' = [wc EXCEPT ![w] = NoConn]
    /\ UNCHANGED <<count, sbuf, conns, idle_threads, sync>>

(* sem_getvalue and the test on it; wc dies at the end of the loop body. *)
GetValue(w) ==
    /\ \/ /\ idle_threads = Cardinality(Workers)
          /\ Goto(w, "getvalue", "sync_lock")
          /\ UNCHANGED wc
       \/ /\ idle_threads # Cardinality(Workers)
          /\ Goto(w, "getvalue", "rem_wait")
          /\ wc' = [wc EXCEPT ![w] = NoConn]
    /\ UNCHANGED <<count, sbuf, conns, idle_threads, sync>>

(* Variant: SIGSYNC is sent without holding the mutex. *)
SyncLock_None(w) ==
    /\ Goto(w, "sync_lock", "kill")
    /\ UNCHANGED <<count, sbuf, conns, wc, idle_threads, sync>>

SyncLock(w) ==
    /\ Goto(w, "sync_lock", "kill")
    /\ SemWait(mutex)
    /\ UNCHANGED <<count, buf, front, rear, empty_slots, items, conns, wc,
                   idle_threads, sync>>

(* kill(getpid(), SIGSYNC): a signal that is already pending is not queued. *)
Kill(w) ==
    /\ Goto(w, "kill", "rem_wait")
    /\ sigpending' = TRUE
    /\ wc' = [wc EXCEPT ![w] = NoConn]
    /\ UNCHANGED <<hpc, count, sbuf, conns, idle_threads, printed, file>>

RemoveStep(w) ==
    \/ RemoveWait(w) \/ RemoveLock(w) \/ RemoveFd(w) \/ RemoveAddr(w)
    \/ RemoveUnlock(w) \/ RemovePost(w)

SyncStep(w) ==
    IdleWait(w) \/ IdlePost(w) \/ GetValue(w) \/ SyncLock(w) \/ Kill(w)

WorkerStep(w) ==
    RemoveStep(w) \/ SyncStep(w) \/ ServiceModify(w) \/ ServiceClose(w)

-----------------------------------------------------------------------------
(***************************************************************************)
(* sigsync_handler(): the kernel delivers the signal on any thread that is *)
(* not in the handler already (SIGSYNC is blocked there).  signal() gives  *)
(* SA_RESTART, so sem_wait and accept resume afterwards.                   *)
(***************************************************************************)
Deliver(t) ==
    /\ sigpending
    /\ hpc[t] = "none"
    /\ sigpending' = FALSE
    /\ hpc' = [hpc EXCEPT ![t] = "print"]
    /\ UNCHANGED <<pc, count, sbuf, conns, wc, idle_threads, printed, file>>

(* fsync_stockfile(): print_to_buf reads the nodes one by one, no lock. *)
HandlerPrint(t) ==
    /\ hpc[t] = "print"
    /\ \E i \in Ids \ DOMAIN printed[t] :
        printed' = [printed EXCEPT ![t] =
            [j \in DOMAIN printed[t] \cup {i} |->
                IF j = i THEN count[i] ELSE printed[t][j]]]
    /\ UNCHANGED <<pc, hpc, count, sbuf, conns, wc, idle_threads, sigpending,
                   file>>

HandlerWrite(t) ==
    /\ hpc[t] = "print"
    /\ DOMAIN printed[t] = Ids
    /\ file' = printed[t]
    /\ hpc' = [hpc EXCEPT ![t] = "post"]
    /\ UNCHANGED <<pc, count, sbuf, conns, wc, idle_threads, sigpending,
                   printed>>

HandlerPost(t) ==
    /\ hpc[t] = "post"
    /\ SemPost(mutex)
    /\ hpc' = [hpc EXCEPT ![t] = "none"]
    /\ printed' = [printed EXCEPT ![t] = EmptyText]
    /\ UNCHANGED <<pc, count, buf, front, rear, empty_slots, items, conns, wc,
                   idle_threads, sigpending, file>>

HandlerStep(t) ==
    Deliver(t) \/ HandlerPrint(t) \/ HandlerWrite(t) \/ HandlerPost(t)

-----------------------------------------------------------------------------
Next ==
    \/ MainStep
    \/ \E w \in Workers : WorkerStep(w)
    \/ \E t \in Threads : HandlerStep(t)

Spec == Init /\ [][Next]_vars

-----------------------------------------------------------------------------
(***************************************************************************)
(* Invariants                                                              *)
(***************************************************************************)
(* Thread t is between its sem_wait and its sem_post of sbuf.mutex, or has *)
(* taken it for the handler that its kill() will start.                    *)
HoldLabels == {"ins_fd", "ins_addr", "ins_unlock",
               "rem_fd", "rem_addr", "rem_unlock", "kill"}

Holds(t) == pc[t] \in HoldLabels

InHandler(t) == hpc[t] # "none"

(***************************************************************************)
(* sbuf.mutex is worth exactly one permission, and it is in one place: in  *)
(* the semaphore, with the one thread inside sbuf_insert or sbuf_remove,   *)
(* with the worker about to call kill(), in the pending SIGSYNC, or with   *)
(* the one running handler, which posts what another thread waited for.    *)
(* In particular no SIGSYNC is generated while one is pending (it would be *)
(* merged with it and the mutex would be lost), and no two handlers write  *)
(* the stock file at once.                                                 *)
(***************************************************************************)
MutexHandOff ==
    /\ mutex \in {0, 1}
    /\ mutex = 1 <=> /\ ~ sigpending
                     /\ \A t \in Threads : ~ Holds(t) /\ ~ InHandler(t)
    /\ \A t, u \in Threads : Holds(t) /\ Holds(u) => t = u
    /\ \A t, u \in Threads : InHandler(t) /\ InHandler(u) => t = u
    /\ \A t, u \in Threads : ~ (Holds(t) /\ InHandler(u))
    /\ sigpending => \A t \in Threads : ~ Holds(t) /\ ~ InHandler(t)

(* The connections whose insertion, or removal, is complete. *)
Inserted == IF pc[MainThread] = "ins_addr" THEN rear - 1 ELSE rear

Removed == IF \E w \in Workers : pc[w] = "rem_addr" THEN front - 1 ELSE front

(***************************************************************************)
(* Every connection that waits in sbuf is whole: slot k % n still holds    *)
(* descriptor and address of the k-th connection, and that descriptor is   *)
(* still that connection.  The ring never wraps onto a waiting connection, *)
(* whatever the interleaving of insertions, removals and synchronisations. *)
(***************************************************************************)
WaitingIntact ==
    \A k \in Removed + 1 .. Inserted :
        LET c == buf[k % Slots]
        IN  c.clientaddr = k /\ c.connfd \in Fds /\ sock[c.connfd] = k

Taken(w) == pc[w] \in {"rem_unlock", "rem_post", "idle_wait", "serve"}

(***************************************************************************)
(* A worker that has taken a connection owns it until it closes it: its    *)
(* descriptor is that connection, and no other worker has it.              *)
(***************************************************************************)
ServedByOne ==
    /\ \A w \in Workers : Taken(w) =>
        wc[w].connfd \in Fds /\ sock[wc[w].connfd] = wc[w].clientaddr
    /\ \A w, u \in Workers : Taken(w) /\ Taken(u) /\ w # u =>
        wc[w].connfd # wc[u].connfd

(* A worker serves a client or has yet to decide whether to synchronise. *)
ActiveLabels == {"serve", "idle_post", "getvalue", "sync_lock", "kill"}

Active(w) == pc[w] \in ActiveLabels

(***************************************************************************)
(* When no worker serves a client or is about to synchronise, no SIGSYNC   *)
(* is pending and no handler runs, the stock file has every change made in *)
(* memory: the worker that leaves last always triggers a synchronisation   *)
(* that sees the final counts.                                             *)
(***************************************************************************)
QuiescentPersisted ==
    (/\ \A w \in Workers : ~ Active(w)
     /\ ~ sigpending
     /\ \A t \in Threads : ~ InHandler(t)) => file = count

(***************************************************************************)
(* The strengthening that makes QuiescentPersisted inductive: idle_threads *)
(* counts exactly, a thread outside the handler has no text, and if no     *)
(* worker is active then memory is on file, or about to be: a signal is    *)
(* pending or a handler prints, and what it has printed is current.        *)
(***************************************************************************)
BusyLabels == {"serve", "idle_post"}

InService == {w \in Workers : pc[w] \in BusyLabels}

IdleExact == idle_threads = Cardinality(Workers) - Cardinality(InService)

TextsEmpty == \A t \in Threads : hpc[t] = "none" => printed[t] = EmptyText

Fresh(t) == \A i \in DOMAIN printed[t] : printed[t][i] = count[i]

WillSync ==
    \/ \E w \in Workers : Active(w)
    \/ /\ sigpending \/ file = count \/ \E t \in Threads : hpc[t] = "print"
       /\ \A t \in Threads : hpc[t] = "print" => Fresh(t)

SyncInv == IdleExact /\ TextsEmpty /\ WillSync

-----------------------------------------------------------------------------
(***************************************************************************)
(* Refinement: sbuf implements the queue of ConnQueue.                     *)
(***************************************************************************)
Queue == INSTANCE ConnQueue WITH
    Capacity <- Slots,
    queue <- [i \in 1 .. Inserted - Removed |-> buf[(Removed + i) % Slots]],
    last <- Inserted,
    holding <- [w \in Workers |->
        IF pc[w] \in {"rem_wait", "rem_lock", "rem_fd", "rem_addr"}
        THEN NoConn ELSE wc[w]]

(* The bounded buffer of threading.c is a first-in first-out queue that    *)
(* loses, duplicates, reorders and tears no connection.                    *)
IsQueue == Queue!Spec

=============================================================================
