------------------------------ MODULE Process ------------------------------
(***************************************************************************)
(* The process of the thread based stock server: one main thread and       *)
(* NETWORK_WORKER_THREAD_N workers that share the stock tree (stockserver.c*)
(* and common.h of concurrent_stockserver/thread_based).  Every component  *)
(* of the server is written over this state: where each thread is, whether *)
(* a signal handler has interrupted it, and the count of every stock.      *)
(***************************************************************************)
EXTENDS Integers, FiniteSets

CONSTANTS
    Workers,     \* the network_worker threads
    MainThread,  \* the thread that runs main() and accepts connections
    Ids          \* the stock ids of the tree that read_stockfile() built

ASSUME ProcessAssumption ==
    /\ IsFiniteSet(Workers)
    /\ Workers # {}
    /\ MainThread \notin Workers

VARIABLES
    pc,     \* pc[t]: the statement thread t executes next
    hpc,    \* hpc[t]: the statement of the SIGSYNC handler on t, or "none"
    count   \* count[i]: the count field of the node of stock i

Threads == Workers \cup {MainThread}

(***************************************************************************)
(* Thread t executes the statement "from" and goes to "to".  The handler   *)
(* runs on the stack of t: while it does, t itself does not move.          *)
(***************************************************************************)
Goto(t, from, to) ==
    /\ pc[t] = from
    /\ hpc[t] = "none"
    /\ pc' = [pc EXCEPT ![t] = to]

(***************************************************************************)
(* POSIX semaphores.  sem_wait blocks while the value is 0; sem_post never *)
(* blocks and may be called by a thread that did not wait.                 *)
(***************************************************************************)
SemWait(s) == s > 0 /\ s' = s - 1

SemPost(s) == s' = s + 1

=============================================================================
