---------------------------- MODULE EventServer ----------------------------
(***************************************************************************)
(* The event driven stock server (network.c, impl.c and stockserver.c of   *)
(* concurrent_stockserver/event_driven): one process that waits in select  *)
(* for the descriptors of its pool, serves one line of each ready client,  *)
(* and writes the stock file whenever the pool is empty.                   *)
(*                                                                         *)
(* The clients and the kernel are the environment: connections queue at    *)
(* the listening socket, and a line, part of a line, or the end of a       *)
(* connection arrives at any time, also while the pool is scanned.         *)
(***************************************************************************)
EXTENDS StockCommands, FiniteSets

CONSTANTS
    Ids,            \* the stock ids of the tree
    Counts,         \* the values a count field can have
    ListenFd,       \* listenfd
    Fds,            \* the descriptors accept() can return
    PoolSize,       \* FD_SETSIZE
    NFDBITS,        \* the bits of one word of an fd_set (64 in this build)
    MaxClients,     \* bound on the clients that are connected or connecting
    ClientOps,      \* the kinds of lines clients send
    ClientEvents    \* what can arrive: "line", "partial"

ASSUME EventServerAssumption ==
    /\ ListenFd \in Nat
    /\ Fds \subseteq Nat /\ IsFiniteSet(Fds)
    /\ \A fd \in Fds : fd > ListenFd
    /\ NFDBITS \in Nat /\ ListenFd < NFDBITS - 1
    /\ PoolSize \in 1 .. IntMax
    /\ Counts \subseteq Int32 /\ 0 .. IntMax \subseteq Counts
    /\ MaxClients \in Nat
    /\ ClientEvents \subseteq {"line", "partial"}

VARIABLES
    at,          \* the statement of main's loop: select, accept, scan or sync
    idx,         \* i of write_pool()
    read_set, ready_set, nready, n, maxi, maxfd, clientfd,  \* _pool
    count,       \* count[i]: the count field of the node of stock i
    file,        \* the stock file, by stock
    up,          \* the process is running
    backlog,     \* kernel: connections nobody has accepted yet
    inbox,       \* kernel: inbox[fd], what select sees there
    open,        \* kernel: the descriptors that are open sockets
    refused      \* history: accept() has failed

pool == <<read_set, ready_set, nready, n, maxi, maxfd, clientfd>>
kernel == <<backlog, inbox, open, refused>>
vars == <<at, idx, pool, count, file, up, kernel>>

Slots == 0 .. PoolSize - 1

NoFd == -1

(***************************************************************************)
(* The bit of an fd_set that FD_SET(fd) sets.  -1 is in word -1 / 64 = 0,  *)
(* and the build shifts by the low bits of -1: it is the last bit there.   *)
(***************************************************************************)
FdBit(fd) == IF fd < 0 THEN NFDBITS - 1 ELSE fd

StrayFd == FdBit(NoFd)

Parsed == {c \in Lines : c.op \in ClientOps}

TypeOK ==
    /\ at \in {"select", "accept", "scan", "sync"}
    /\ idx \in Nat
    /\ read_set \subseteq Fds \cup {ListenFd, StrayFd}
    /\ ready_set \subseteq Fds \cup {ListenFd, StrayFd}
    /\ nready \in Int
    /\ n \in Int32
    /\ maxi \in -1 .. PoolSize - 1
    /\ maxfd \in Fds \cup {ListenFd}
    /\ clientfd \in [Slots -> Fds \cup {NoFd}]
    /\ count \in [Ids -> Counts]
    /\ file \in [Ids -> Counts]
    /\ up \in BOOLEAN
    /\ backlog \in 0 .. MaxClients
    /\ inbox \in [Fds -> {"none", "line", "partial", "eof"}]
    /\ open \subseteq Fds
    /\ refused \in BOOLEAN

(* read_stockfile() and init_pool(). *)
Init ==
    /\ at = "select" /\ idx = 0
    /\ read_set = {ListenFd} /\ ready_set = {} /\ nready = 0
    /\ n = 0 /\ maxi = -1 /\ maxfd = ListenFd
    /\ clientfd = [i \in Slots |-> NoFd]
    /\ file \in [Ids -> {k \in Counts : k >= 0}] /\ count = file
    /\ up = TRUE
    /\ backlog = 0
    /\ inbox = [fd \in Fds |-> "none"]
    /\ open = {}
    /\ refused = FALSE

-----------------------------------------------------------------------------
(***************************************************************************)
(* The environment.  A client of the repository sends its next line only   *)
(* after the answer to the previous one (stockclient.c, multiclient.c); it *)
(* ends with a line or without.                                            *)
(***************************************************************************)
Connect ==
    /\ backlog + Cardinality(open) < MaxClients
    /\ backlog' = backlog + 1
    /\ UNCHANGED <<at, idx, pool, count, file, up, inbox, open, refused>>

Arrive(fd) ==
    /\ fd \in open
    /\ inbox[fd] = "none"
    /\ \E e \in ClientEvents \cup {"eof"} : inbox' = [inbox EXCEPT ![fd] = e]
    /\ UNCHANGED <<at, idx, pool, count, file, up, backlog, open, refused>>

-----------------------------------------------------------------------------
(***************************************************************************)
(* see_pool()                                                              *)
(***************************************************************************)
IsReady(fd) == IF fd = ListenFd THEN backlog > 0 ELSE inbox[fd] # "none"

(* A descriptor that select() looks at is not open. *)
BadSet == \E fd \in read_set : fd <= maxfd /\ fd \notin open \cup {ListenFd}

Select ==
    /\ at = "select"
    /\ ~ BadSet
    /\ \E R \in {{fd \in read_set : fd <= maxfd /\ IsReady(fd)}} :
        /\ R # {}
        /\ ready_set' = R
        /\ nready' = Cardinality(R)
    /\ at' = "accept"
    /\ UNCHANGED <<idx, read_set, n, maxi, maxfd, clientfd, count, file, up,
                   kernel>>

(***************************************************************************)
(* select() returns -1 (EBADF), which nobody looks at, and leaves          *)
(* ready_set as it was: it has listenfd in it.                             *)
(***************************************************************************)
SelectFails ==
    /\ at = "select"
    /\ BadSet
    /\ ready_set' = read_set
    /\ nready' = -1
    /\ at' = "accept"
    /\ UNCHANGED <<idx, read_set, n, maxi, maxfd, clientfd, count, file, up,
                   kernel>>

NotListening ==
    /\ at = "accept"
    /\ ListenFd \notin ready_set
    /\ at' = "scan" /\ idx' = 0
    /\ UNCHANGED <<pool, count, file, up, kernel>>

(* Variant: the listening descriptor is not taken off nready. *)
AddClient_KeepsReady(fd) ==
    /\ \E i \in Slots :
        /\ clientfd[i] < 0
        /\ \A j \in Slots : j < i => clientfd[j] >= 0
        /\ clientfd' = [clientfd EXCEPT ![i] = fd]
        /\ maxi' = IF i > maxi THEN i ELSE maxi
    /\ read_set' = read_set \cup {FdBit(fd)}
    /\ maxfd' = IF fd > maxfd THEN fd ELSE maxfd
    /\ n' = Wrap(n + 1)
    /\ at' = "scan" /\ idx' = 0
    /\ UNCHANGED nready

(* add_client(fd): the first slot that is free. *)
AddClient(fd) ==
    /\ nready' = nready - 1
    /\ \E i \in Slots :
        /\ clientfd[i] < 0
        /\ \A j \in Slots : j < i => clientfd[j] >= 0
        /\ clientfd' = [clientfd EXCEPT ![i] = fd]
        /\ maxi' = IF i > maxi THEN i ELSE maxi
    /\ read_set' = read_set \cup {FdBit(fd)}
    /\ maxfd' = IF fd > maxfd THEN fd ELSE maxfd
    /\ n' = Wrap(n + 1)
    /\ at' = "scan" /\ idx' = 0

Accept ==
    /\ at = "accept"
    /\ ListenFd \in ready_set
    /\ backlog > 0
    /\ \E fd \in Fds \ open :
        /\ \A e \in Fds \ open : fd <= e
        /\ AddClient(fd)
        /\ open' = open \cup {fd}
    /\ backlog' = backlog - 1
    /\ UNCHANGED <<ready_set, count, file, up, inbox, refused>>

(***************************************************************************)
(* accept() returns -1 (EMFILE, ENFILE, ENOMEM) and nobody looks.          *)
(* add_client(-1) counts a client that does not exist, the slot stays      *)
(* free, FD_SET(-1) sets the bit of a descriptor that may be closed, and   *)
(* a connection still waits, so that the next select returns at once.      *)
(* These errors do not wait for a connection.                              *)
(***************************************************************************)
AcceptFails ==
    /\ at = "accept"
    /\ ListenFd \in ready_set
    /\ AddClient(NoFd)
    /\ refused' = TRUE
    /\ UNCHANGED <<ready_set, count, file, up, backlog, inbox, open>>

(* add_client(): "Too many client", error_exit. *)
PoolFull ==
    /\ at = "accept"
    /\ ListenFd \in ready_set
    /\ \A i \in Slots : clientfd[i] >= 0
    /\ up' = FALSE
    /\ UNCHANGED <<at, idx, pool, count, file, kernel>>

-----------------------------------------------------------------------------
(***************************************************************************)
(* write_pool()                                                            *)
(***************************************************************************)
(* Variant: the slot maxi is not looked at. *)
MoreClients_BelowMaxi == idx < maxi /\ nready > 0

MoreClients == idx <= maxi /\ nready > 0

Scanning == at = "scan" /\ MoreClients

Ready(i) == clientfd[i] > 0 /\ clientfd[i] \in ready_set

SkipClient ==
    /\ Scanning
    /\ ~ Ready(idx)
    /\ idx' = idx + 1
    /\ UNCHANGED <<at, pool, count, file, up, kernel>>

(* Variant: no FD_CLR. *)
RemoveClient_Watched ==
    /\ open' = open \ {clientfd[idx]}
    /\ inbox' = [inbox EXCEPT ![clientfd[idx]] = "none"]
    /\ clientfd' = [clientfd EXCEPT ![idx] = NoFd]
    /\ n' = Wrap(n - 1)
    /\ UNCHANGED read_set

(* remove_client(clientfd[idx], idx): close, FD_CLR, n--. *)
RemoveClient ==
    /\ open' = open \ {clientfd[idx]}
    /\ inbox' = [inbox EXCEPT ![clientfd[idx]] = "none"]
    /\ read_set' = read_set \ {clientfd[idx]}
    /\ clientfd' = [clientfd EXCEPT ![idx] = NoFd]
    /\ n' = Wrap(n - 1)

KeepClient ==
    /\ inbox' = [inbox EXCEPT ![clientfd[idx]] = "none"]
    /\ UNCHANGED <<open, read_set, clientfd, n>>

(* rio_readlineb() returned 0. *)
ServeEOF ==
    /\ Scanning
    /\ Ready(idx)
    /\ inbox[clientfd[idx]] = "eof"
    /\ nready' = nready - 1
    /\ idx' = idx + 1
    /\ RemoveClient
    /\ UNCHANGED <<at, ready_set, maxi, maxfd, count, file, up, backlog, refused>>

(***************************************************************************)
(* What parser() may be given: a line, or, when only part of a line is     *)
(* there and rio_readlineb() returned -1, that part over whatever the      *)
(* local buf held (but not NL, which parser() returns only for rc = 1).    *)
(***************************************************************************)
Received(e) ==
    CASE e = "line" -> Parsed
      [] e = "partial" -> {c \in Parsed : c.op # "NL"}
      [] OTHER -> {}

(* show, sell, buy and exit_client; nothing happens for an error code. *)
Execute(c) ==
    /\ count' = IF c \in IntInt /\ c.id \in Ids /\ Enough(count[c.id], c)
                THEN [count EXCEPT ![c.id] = Moved(@, c)]
                ELSE count
    /\ IF c.op = "exit" THEN RemoveClient ELSE KeepClient

(* free_args(): after NL and NOCMD it works on uninitialised fields of the *)
(* local cmd, so the process aborts or goes on.                            *)
FreeArgs(c) ==
    \/ up' = TRUE
    \/ c.op \in {"NL", "NOCMD"} /\ up' = FALSE

(* One command is executed and one answer sent; a failed send is ignored. *)
ServeLine ==
    /\ Scanning
    /\ Ready(idx)
    /\ nready' = nready - 1
    /\ idx' = idx + 1
    /\ \E c \in Received(inbox[clientfd[idx]]) : Execute(c) /\ FreeArgs(c)
    /\ UNCHANGED <<at, ready_set, maxi, maxfd, file, backlog, refused>>

EndScan ==
    /\ at = "scan"
    /\ ~ MoreClients
    /\ at' = "sync"
    /\ UNCHANGED <<idx, pool, count, file, up, kernel>>

(* Variant: the file is written only if the pool was never used. *)
Sync_NeverUsed ==
    /\ at = "sync"
    /\ file' = IF maxi = -1 THEN count ELSE file
    /\ at' = "select" /\ idx' = 0
    /\ UNCHANGED <<pool, count, up, kernel>>

(* main(): fsync_stockfile() if the pool is empty. *)
Sync ==
    /\ at = "sync"
    /\ file' = IF n = 0 THEN count ELSE file
    /\ at' = "select" /\ idx' = 0
    /\ UNCHANGED <<pool, count, up, kernel>>

Server ==
    \/ Select \/ SelectFails \/ NotListening \/ Accept \/ AcceptFails \/ PoolFull
    \/ SkipClient \/ ServeEOF \/ ServeLine \/ EndScan \/ Sync

Exited == ~ up /\ UNCHANGED vars

Next ==
    \/ up /\ Server
    \/ up /\ Connect
    \/ up /\ \E fd \in Fds : Arrive(fd)
    \/ Exited

Spec == Init /\ [][Next]_vars

(* accept() waits: select() has failed and nobody connects.                *)
Blocked == at = "accept" /\ ListenFd \in ready_set /\ backlog = 0

(* The server runs whenever it can; nothing is assumed of the clients, and *)
(* not that a call of accept() that waits ever returns.                    *)
FairSpec == Spec /\ WF_vars(up /\ ~ Blocked /\ Server)

-----------------------------------------------------------------------------
(***************************************************************************)
(* Properties                                                              *)
(***************************************************************************)
Used == {i \in Slots : clientfd[i] # NoFd}

(***************************************************************************)
(* The fields of the pool agree: every client has a slot of its own, no    *)
(* slot above maxi is used, and select watches the descriptors in the      *)
(* slots, which are the open ones, so that no client is forgotten.  It     *)
(* watches nothing else, except the bit that a failed accept() has set; as *)
(* long as none has failed, n is the number of clients, so that the file   *)
(* is written when the last one leaves and not before.                     *)
(***************************************************************************)
PoolConsistent ==
    /\ TypeOK
    /\ \A i \in Used : i <= maxi /\ clientfd[i] <= maxfd
    /\ \A i, j \in Used : clientfd[i] = clientfd[j] => i = j
    /\ open = {clientfd[i] : i \in Used}
    /\ open \cup {ListenFd} \subseteq read_set
    /\ read_set \subseteq open \cup {ListenFd} \cup {fd \in {StrayFd} : refused}
    /\ ~ refused => n = Cardinality(Used)

(***************************************************************************)
(* write_pool() stops early once nready is 0: when it ends, no client that *)
(* select reported is left unserved.  After a failed accept() the count    *)
(* may also be the -1 of a failed select(), less the accept() that follows *)
(* it, and then nobody was reported.                                       *)
(***************************************************************************)
NoReadyClientSkipped ==
    at = "sync" => nready = 0 \/ (refused /\ nready = -2)

(* Whenever the server waits in select without a client, the stock file    *)
(* has every change, so that shutting it down then loses nothing, as long  *)
(* as accept() has not failed (then n is never 0 again).                   *)
IdlePersisted ==
    at = "select" /\ open = {} /\ ~ refused => file = count

(* modify() never leaves a stock with a negative count: what is not there  *)
(* cannot be bought, whatever the amounts, the least int included.         *)
NeverOversold == \A i \in Ids : count[i] >= 0

(***************************************************************************)
(* Whatever a client sent is dealt with, or the server is gone, or the bit *)
(* that a failed accept() left makes every select() fail from now on until *)
(* that descriptor is opened.                                              *)
(***************************************************************************)
EveryLineServed ==
    \A fd \in Fds : inbox[fd] # "none" ~> (inbox[fd] = "none" \/ ~ up \/ BadSet)

=============================================================================
