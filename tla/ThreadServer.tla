---------------------------- MODULE ThreadServer ----------------------------
(***************************************************************************)
(* The whole thread based stock server: the buffer and the synchronisation *)
(* of Threading, the commands of StockOps, and between them service() and  *)
(* execute() of network.c, which read the lines of one client, execute     *)
(* them and answer.  A failed write ends the process: Rio_writen() calls   *)
(* unix_error(), which calls exit(0).                                      *)
(***************************************************************************)
EXTENDS Threading, StockOps

CONSTANTS
    ClientOps,  \* the kinds of lines clients send
    MayReset    \* whether a client may reset its connection

ASSUME ThreadServerAssumption ==
    /\ ClientOps \subseteq {"show", "sell", "buy", "exit", "NOCMD", "INVARG", "NL"}
    /\ MayReset \in BOOLEAN
    /\ Counts = Int32

VARIABLES
    up,      \* the process is running
    reset,   \* the connections their clients have reset
    argset   \* argset[w]: service() has set cnct.argc for this connection

Parsed == {c \in Lines : c.op \in ClientOps}

(***************************************************************************)
(* What parser() can make of a buffer that rio_readlineb() gave up on: the *)
(* start of a line over what earlier lines, or nobody, left there.  NL is  *)
(* excluded, parser() returns it only for rc = 1.                          *)
(***************************************************************************)
Leftover == {c \in Parsed : c.op # "NL"}

serviceLabels == {"exec", "reply"} \cup ShowLabels \cup ModLabels

socketVars == <<sbuf, connfd, clientaddr, wc, idle_threads, sync>>
ownVars == <<up, reset, argset>>
serverVars == <<vars, stockVars, ownVars>>

(* The stock file the server is started with names no negative count. *)
ServerInit ==
    /\ Init
    /\ \A i \in Ids : file[i] >= 0
    /\ StockInit
    /\ cmd = [w \in Workers |-> Show]
    /\ up = TRUE
    /\ reset = {}
    /\ argset = [w \in Workers |-> FALSE]

-----------------------------------------------------------------------------
(* The connection that the descriptor of worker w is right now, 0 if none. *)
Peer(w) == sock[wc[w].connfd]

(* parser() on the text c; find_cmd() sets argc when it knows the command. *)
Parse(w, c) ==
    /\ Goto(w, "serve", IF IsError(c) THEN "reply" ELSE "exec")
    /\ cmd' = [cmd EXCEPT ![w] = c]
    /\ result' = [result EXCEPT ![w] = {}]
    /\ argset' = [argset EXCEPT ![w] = @ \/ c.op \notin {"NOCMD", "NL"}]
    /\ UNCHANGED <<count, socketVars, sock, reader_n, writer_n, reader_n_mutex,
                   writer_n_mutex, modify_mutex, st, tmp, ledger, up, reset>>

(* rio_readlineb() returned a line. *)
ReadLine(w) ==
    /\ pc[w] = "serve"
    /\ Peer(w) # 0 /\ Peer(w) \notin reset
    /\ \E c \in Parsed : Parse(w, c)

(* Variant: on an error the socket is closed, but the loop goes on. *)
ReadError_Close(w) ==
    /\ Goto(w, "serve", "reply")
    /\ Peer(w) = 0 \/ Peer(w) \in reset
    /\ sock' = [sock EXCEPT ![wc[w].connfd] = 0]
    /\ UNCHANGED <<count, socketVars, stockVars, ownVars>>

(* rio_readlineb() returned -1, which is not 0: the buffer is parsed. *)
ReadError(w) ==
    /\ pc[w] = "serve"
    /\ Peer(w) = 0 \/ Peer(w) \in reset
    /\ \E c \in Leftover : Parse(w, c)

(* Variant: the loop ends without closing the socket. *)
ReadEOF_Leak(w) ==
    /\ Goto(w, "serve", "idle_post")
    /\ Peer(w) # 0 /\ Peer(w) \notin reset
    /\ UNCHANGED <<count, sock, socketVars, stockVars, ownVars>>

(* rio_readlineb() returned 0: the client closed its end. *)
ReadEOF(w) ==
    /\ ServiceClose(w)
    /\ Peer(w) # 0 /\ Peer(w) \notin reset
    /\ cmd' = [cmd EXCEPT ![w] = Show]
    /\ result' = [result EXCEPT ![w] = {}]
    /\ st' = [st EXCEPT ![w] = "SUCCESS"]
    /\ argset' = [argset EXCEPT ![w] = FALSE]
    /\ UNCHANGED <<reader_n, writer_n, reader_n_mutex, writer_n_mutex,
                   modify_mutex, tmp, ledger, up, reset>>

(* exit_client(): ERROR when socket_close() succeeded, SUCCESS otherwise. *)
ExitClient(w) ==
    /\ cmd[w].op = "exit"
    /\ Goto(w, "exec", "reply")
    /\ st' = [st EXCEPT ![w] = IF Peer(w) # 0 THEN "ERROR" ELSE "SUCCESS"]
    /\ sock' = [sock EXCEPT ![wc[w].connfd] = 0]
    /\ UNCHANGED <<count, socketVars, reader_n, writer_n, reader_n_mutex,
                   writer_n_mutex, modify_mutex, cmd, tmp, result, ledger,
                   ownVars>>

(***************************************************************************)
(* Rio_writen() succeeds, then free_args().  After NL, and after NOCMD     *)
(* while argc was never set, free_args() frees through uninitialised or    *)
(* dangling pointers: the process aborts or goes on.                       *)
(***************************************************************************)
Reply(w) ==
    /\ Goto(w, "reply", "serve")
    /\ Peer(w) # 0 /\ Peer(w) \notin reset
    /\ \/ up' = TRUE
       \/ /\ cmd[w].op = "NL" \/ (cmd[w].op = "NOCMD" /\ ~ argset[w])
          /\ up' = FALSE
    /\ UNCHANGED <<count, socketVars, sock, stockVars, reset, argset>>

(* Rio_writen() fails: EBADF, EPIPE or ECONNRESET; exit(0). *)
ReplyFails(w) ==
    /\ Goto(w, "reply", "serve")
    /\ Peer(w) = 0 \/ Peer(w) \in reset
    /\ up' = FALSE
    /\ UNCHANGED <<count, socketVars, sock, stockVars, reset, argset>>

ServiceStep(w) ==
    \/ ReadLine(w) \/ ReadError(w) \/ ReadEOF(w) \/ ExitClient(w)
    \/ Reply(w) \/ ReplyFails(w)
    \/ OpStep(w) /\ UNCHANGED <<socketVars, sock, ownVars>>

(* A client resets its connection (or dies with an answer unread). *)
ClientReset ==
    /\ MayReset
    /\ \E fd \in Fds :
        /\ sock[fd] \notin reset \cup {0}
        /\ reset' = reset \cup {sock[fd]}
    /\ UNCHANGED <<vars, stockVars, up, argset>>

ThreadingStep ==
    /\ \/ MainStep
       \/ \E w \in Workers : RemoveStep(w) \/ SyncStep(w)
       \/ \E t \in Threads : HandlerStep(t)
    /\ UNCHANGED <<stockVars, ownVars>>

(* The process is gone. *)
Exited == ~ up /\ UNCHANGED serverVars

ServerNext ==
    \/ up /\ ThreadingStep
    \/ up /\ \E w \in Workers : ServiceStep(w)
    \/ up /\ ClientReset
    \/ Exited

ServerSpec == ServerInit /\ [][ServerNext]_serverVars

(***************************************************************************)
(* Fairness: the kernel schedules every runnable thread and delivers every *)
(* pending signal (weak), and a client that is served again and again      *)
(* eventually closes its connection (strong, on ReadEOF).  accept() is not *)
(* in it: no client need ever come.                                        *)
(***************************************************************************)
Up(A) == up /\ A /\ UNCHANGED <<stockVars, ownVars>>

ServerFairSpec ==
    /\ ServerSpec
    /\ WF_serverVars(Up(InsertWait \/ InsertLock \/ InsertFd \/ InsertAddr
                        \/ InsertUnlock \/ InsertPost))
    /\ WF_serverVars(Up(\E t \in Threads : Deliver(t)))
    /\ \A t \in Threads :
        WF_serverVars(Up(HandlerPrint(t) \/ HandlerWrite(t) \/ HandlerPost(t)))
    /\ \A w \in Workers :
        /\ WF_serverVars(Up(RemoveStep(w) \/ SyncStep(w)))
        /\ WF_serverVars(up /\ ServiceStep(w))
        /\ SF_serverVars(up /\ ReadEOF(w))

-----------------------------------------------------------------------------
(***************************************************************************)
(* Properties                                                              *)
(***************************************************************************)
Abstract == INSTANCE Threading WITH
    pc <- [t \in Threads |-> IF pc[t] \in serviceLabels THEN "serve" ELSE pc[t]]

(***************************************************************************)
(* service() keeps its side of Threading: it only changes counts, and      *)
(* closes the descriptor it was given once, as its last action.  So what   *)
(* is proved of Threading holds of the server.                             *)
(***************************************************************************)
ImplementsThreading == Abstract!Spec

(* Every answer goes to the client that asked: the descriptor a worker     *)
(* writes to is still the connection it took from sbuf.                    *)
AnswersOwnClient ==
    [][\A w \in Workers :
        pc[w] = "reply" /\ pc'[w] = "serve" /\ up' => Peer(w) = wc[w].clientaddr
      ]_serverVars

(* The server outlives its clients: no sequence of their commands ends the *)
(* process (the report on the server: "exit" closes that client's socket). *)
(* It does not hold: the answer to exit is written to the closed socket.   *)
StaysUp == up

(***************************************************************************)
(* Nobody waits or spins for ever: every accepted connection ends up       *)
(* closed, unless a failed write has ended the process.                    *)
(***************************************************************************)
ConnectionsClose ==
    \A c \in 1 .. MaxAccepts :
        clientaddr >= c ~> ~ up \/ \A fd \in Fds : sock[fd] # c

(* If the clients leave for good, the stock file catches up with memory.   *)
FileCatchesUp ==
    <>[](up /\ \A fd \in Fds : sock[fd] = 0) => <>[](file = count)

=============================================================================
