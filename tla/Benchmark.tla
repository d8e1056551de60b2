----------------------------- MODULE Benchmark -----------------------------
(***************************************************************************)
(* benchmark.c (concurrent_stockserver/test/common_test): it starts the    *)
(* server, waits for its SIGUSR1, and then runs multiclient_benchmark      *)
(* three times, waiting for SIGCHLD each time.  It waits with sigsuspend() *)
(* and a signal mask that is never initialised.                            *)
(***************************************************************************)
EXTENDS StockClients

CONSTANTS
    Settings(_), \* the numbers of clients and of orders a program is tried with
    MayDie,      \* the server may end by itself
    AddrLists, Bases, Numbers   \* what the library functions are checked on

Programs == {"benchmark", "multiclient", "multiclient_benchmark", "stockclient"}

ASSUME BenchmarkAssumption == \A name \in Programs : Settings(name) \subseteq Nat \X Nat

ASSUME LibraryAssumption ==
    /\ AddrLists \subseteq Seq({"nosocket", "refused", "stuck", "ok"})
    /\ Bases \subseteq Nat \ {0, 1}
    /\ Numbers \subseteq Int

VARIABLES
    bench,       \* the benchmark process
    ss,          \* the signals that the mask of sigsuspend() blocks
    pending      \* the signals that are pending for it

benchVars == <<bench, ss, pending>>
vars == <<program, server, parent, client, service, toServer, toClient, bench, ss, pending>>

Signals == {"SIGENDCLOCK", "SIGCHLD"}
PathWrong == 33

-----------------------------------------------------------------------------
(***************************************************************************)
(* The server, up to its main loop.  A failed open_listenfd() is not       *)
(* noticed: the server tells that it has booted and is deaf.               *)
(***************************************************************************)
(* Variant: the parent is told before the socket listens. *)
ServerListen_Late ==
    /\ server.pc = "starting"
    /\ IF server.deaf
       THEN server' = [server EXCEPT !.pc = "bound", !.deaf = FALSE] /\ UNCHANGED pending
       ELSE server' = [server EXCEPT !.deaf = TRUE] /\ pending' = pending \cup {"SIGENDCLOCK"}
    /\ UNCHANGED <<program, parent, connVars, bench, ss>>

ServerListen ==
    /\ server.pc = "starting"
    /\ \E addr \in {"ok", "refused"} :
         server' = [server EXCEPT !.pc = "bound",
                                  !.deaf = open_listenfd(TRUE, <<addr>>, TRUE).rc < 0]
    /\ UNCHANGED <<program, parent, connVars, benchVars>>

(* kill(getppid(), SIGSERVERBOOTED) *)
ServerBooted ==
    /\ server.pc = "bound"
    /\ server' = [server EXCEPT !.pc = "serving"]
    /\ pending' = IF program = "benchmark" THEN pending \cup {"SIGENDCLOCK"} ELSE pending
    /\ UNCHANGED <<program, parent, connVars, bench, ss>>

(* error_exit() when there is no stock file, and unix_error() after a failed *)
(* write, both with exit(0).                                                *)
ServerDies ==
    /\ MayDie /\ server.pc \in {"starting", "serving"}
    /\ Dead
    /\ pending' = IF program = "benchmark" THEN pending \cup {"SIGCHLD"} ELSE pending
    /\ UNCHANGED <<program, parent, client, toServer, toClient, bench, ss>>

(* The end of the multiclient process. *)
ParentEnds ==
    /\ ParentExit \/ ForkFails
    /\ pending' = IF program = "benchmark" THEN pending \cup {"SIGCHLD"} ELSE pending
    /\ UNCHANGED <<bench, ss>>

-----------------------------------------------------------------------------
(***************************************************************************)
(* benchmark.c                                                             *)
(***************************************************************************)
BenchAt(where) == program = "benchmark" /\ bench.pc = where

(* StartPhase() and fork_and_exec(): execv() fails when the path is wrong,  *)
(* and a fork() that fails starts nothing, which nobody notices.            *)
StartServer ==
    /\ BenchAt("start") /\ bench.phase = 0
    /\ \/ /\ server' = [server EXCEPT !.pc = "starting"] /\ UNCHANGED pending
       \/ /\ server' = [server EXCEPT !.pc = "dead", !.status = PathWrong]
          /\ pending' = pending \cup {"SIGCHLD"}
       \/ UNCHANGED <<server, pending>>
    /\ bench' = [bench EXCEPT !.pc = "started"]
    /\ UNCHANGED <<program, parent, connVars, ss>>

(***************************************************************************)
(* The argument "show" or "modify" is put into serverargv, so that         *)
(* multiclient_benchmark gets none.                                        *)
(***************************************************************************)
StartClients ==
    /\ BenchAt("start") /\ bench.phase \in 1 .. 3
    /\ \/ /\ StartParent(bench.num_client, bench.total_order, "none")
          /\ pending' = IF bench.num_client = 0 THEN pending \cup {"SIGCHLD"} ELSE pending
       \/ /\ parent' = [NoParent EXCEPT !.pc = "failed"]
          /\ pending' = pending \cup {"SIGCHLD"}
       \/ UNCHANGED <<parent, pending>>
    /\ bench' = [bench EXCEPT !.pc = "started"]
    /\ UNCHANGED <<program, server, connVars, ss>>

Suspend ==
    /\ BenchAt("started")
    /\ bench' = [bench EXCEPT !.pc = "suspended"]
    /\ UNCHANGED <<program, server, parent, connVars, ss, pending>>

(* A handler that runs makes sigsuspend() return. *)
Wakes == IF bench.pc = "suspended" THEN "woken" ELSE bench.pc

Deliverable(sig) ==
    /\ program = "benchmark" /\ bench.pc # "exited" /\ sig \in pending
    /\ bench.pc = "suspended" => sig \notin ss

endclock ==
    /\ Deliverable("SIGENDCLOCK")
    /\ pending' = pending \ {"SIGENDCLOCK"}
    /\ bench' = [bench EXCEPT !.pc = Wakes]
    /\ UNCHANGED <<program, server, parent, connVars, ss>>

(***************************************************************************)
(* child_reaper() waits for every child that has ended.  A status that is  *)
(* not 0 ends the benchmark, and leaves the other child alone.             *)
(***************************************************************************)
child_reaper ==
    /\ Deliverable("SIGCHLD")
    /\ pending' = pending \ {"SIGCHLD"}
    /\ bench' = [bench EXCEPT !.pc = IF server.status = PathWrong \/ parent.pc = "failed"
                                     THEN "exited" ELSE Wakes]
    /\ parent' = IF parent.pc \in {"exited", "killed", "failed"}
                 THEN [parent EXCEPT !.pc = "reaped"] ELSE parent
    /\ UNCHANGED <<program, server, connVars, ss>>

(* print_execution_time() and the next phase. *)
Report ==
    /\ BenchAt("woken") /\ bench.phase < 3
    /\ bench' = [bench EXCEPT !.pc = "start", !.phase = @ + 1]
    /\ UNCHANGED <<program, server, parent, connVars, ss, pending>>

(* After the last phase the server is killed. *)
Finish ==
    /\ BenchAt("woken") /\ bench.phase = 3
    /\ bench' = [bench EXCEPT !.pc = "exited"]
    /\ IF server.pc = "dead" THEN UNCHANGED <<server, service>> ELSE Dead
    /\ UNCHANGED <<program, parent, client, toServer, toClient, ss, pending>>

Bench == StartServer \/ StartClients \/ Suspend \/ endclock \/ child_reaper
         \/ Report \/ Finish

-----------------------------------------------------------------------------
(***************************************************************************)
(* A client program may also be run by hand, with a server that is up.     *)
(***************************************************************************)
ByHand ==
    /\ parent = NoParent
    /\ \/ program = "multiclient" /\ StartMulticlient(bench.num_client)
       \/ /\ program = "multiclient_benchmark"
          /\ \E arg \in {"show", "modify"} :
               StartParent(bench.num_client, bench.total_order, arg)
    /\ UNCHANGED <<program, server, connVars, benchVars>>

Init ==
    /\ program \in Programs
    /\ bench \in {[pc |-> "start", phase |-> 0, num_client |-> n[1], total_order |-> n[2]] :
                     n \in Settings(program)}
    /\ ss \in IF program = "benchmark" THEN SUBSET Signals ELSE {{}}
    /\ pending = {}
    /\ server = [pc |-> IF program = "benchmark" THEN "none" ELSE "serving",
                 deaf |-> FALSE, status |-> 0]
    /\ parent = NoParent
    /\ client = [c \in Clients |->
          IF program = "stockclient" /\ c = 1
          THEN [NoClient EXCEPT !.pc = "connect", !.left = bench.total_order] ELSE NoClient]
    /\ service = [c \in Clients |-> NoService]
    /\ toServer = [c \in Clients |-> <<>>] /\ toClient = [c \in Clients |-> <<>>]

ParentStep ==
    \/ ByHand
    \/ (ForkClient \/ AllForked \/ WaitClient) /\ UNCHANGED benchVars
    \/ ParentEnds

ConnStep(c) == (ClientStep(c) \/ UserStep(c) \/ ServiceStep(c)) /\ UNCHANGED benchVars

ServerStep == ServerListen \/ ServerBooted

Next ==
    \/ Bench
    \/ ServerStep \/ ServerDies
    \/ ParentStep
    \/ \E c \in Clients : ConnStep(c)

(***************************************************************************)
(* The server, its threads and the clients are scheduled, and EINTR is not *)
(* returned for ever.  Nothing makes the server end or the user type, and  *)
(* the clients depend neither on the benchmark nor on their parent.        *)
(***************************************************************************)
Spec == /\ Init /\ [][Next]_vars
        /\ WF_vars(ServerStep)
        /\ \A c \in Clients :
             /\ WF_vars(ClientStep(c) /\ UNCHANGED benchVars)
             /\ WF_vars(ServiceStep(c) /\ UNCHANGED benchVars)

-----------------------------------------------------------------------------
TypeOK ==
    /\ bench.pc \in {"start", "started", "suspended", "woken", "exited"}
    /\ server.pc \in {"none", "starting", "bound", "serving", "dead"}
    /\ parent.pc \in {"none", "fork", "wait", "exited", "killed", "failed", "reaped"}
    /\ parent.runprocess \in 0 .. parent.num_client /\ parent.waited \in 0 .. parent.num_client
    /\ pending \subseteq Signals
    /\ \A c \in Clients :
         /\ client[c].left \in Nat /\ Len(client[c].buf) <= MAXLINE
         /\ client[c].rio.rio_cnt \in 0 .. RIO_BUFSIZE
         /\ Len(toServer[c]) <= SocketBuffer /\ Len(toClient[c]) <= SocketBuffer

(***************************************************************************)
(* A client phase begins only when the server is there, listening if it    *)
(* could: the SIGUSR1 of the server, or its end, is what ends the phase    *)
(* before, whatever the mask blocks.  The processes are well typed.        *)
(***************************************************************************)
ClientsFindServer ==
    /\ TypeOK
    /\ bench.phase > 0 => server.pc \in {"bound", "serving", "dead"}

(***************************************************************************)
(* The time of a client phase is taken only when the multiclient process   *)
(* and all its clients have ended, as long as the server runs.             *)
(***************************************************************************)
PhaseTimesClients ==
    [][bench.phase > 0 /\ bench.pc = "woken" /\ bench.pc' # "woken" /\ ServerUp
       => parent.pc = "reaped" /\ \A c \in Clients : ~ Running(c)]_vars

(***************************************************************************)
(* Every client comes to its end, and stockclient to its prompt, while the *)
(* server serves it: no order waits for ever for a byte that nobody sends. *)
(* The exception is a last line of stdin without a newline: the server     *)
(* waits for the newline (rio_readlineb) and the client for the answer.    *)
(***************************************************************************)
AtPrompt(c) == program = "stockclient" /\ client[c].pc = "order"

ClientsFinish ==
    \A c \in Clients :
        Running(c) ~> \/ ~ Running(c) \/ AtPrompt(c) \/ client[c].order = Cut
                      \/ server.pc = "dead"

AtStart == bench.phase = 0 /\ bench.pc = "start" /\ client = [c \in Clients |-> NoClient]

(* An address works, and the walk along the list comes to it. *)
Reaches(addrs) ==
    \E k \in DOMAIN addrs : addrs[k] = "ok" /\ \A j \in 1 .. k - 1 : addrs[j] # "stuck"

(* open_clientfd() and open_listenfd() of csapp.c find an address that     *)
(* works, if there is one and no close() fails before it, and leave no     *)
(* other descriptor open.                                                  *)
OpensOne ==
    AtStart => \A found, listens \in BOOLEAN, addrs \in AddrLists :
        LET usable == found /\ Reaches(addrs)
            cl == open_clientfd(found, addrs)
            li == open_listenfd(found, addrs, listens)
        IN  /\ (cl.rc > 0) = usable /\ cl.opened = IF usable THEN 1 ELSE 0
            /\ (li.rc > 0) = (usable /\ listens)
            /\ li.opened = IF usable /\ listens THEN 1 ELSE 0

(* sio_ltoa() of csapp.c writes the digits of a number that denote it in   *)
(* that base, and so does the clients' copy of a number that is not        *)
(* negative.                                                               *)
LtoaDenotes ==
    AtStart => \A v \in Numbers, b \in Bases :
        /\ Denotes(sio_ltoa(v, b), b) = v
        /\ v >= 0 => Denotes(client_sio_ltoa(v, b), b) = v

(***************************************************************************)
(* The library functions keep their promises: opening a connection or a    *)
(* listening socket leaves one descriptor or none (open_clientfd,          *)
(* open_listenfd of csapp.c, close() failing or not), and printed numbers  *)
(* denote what was printed (sio_ltoa, both copies of it).                  *)
(***************************************************************************)
LibraryKeepsPromises == OpensOne /\ LtoaDenotes

=============================================================================
