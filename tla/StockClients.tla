---------------------------- MODULE StockClients ----------------------------
(***************************************************************************)
(* The stock clients (stockclient.c, multiclient.c, multiclient_benchmark.c*)
(* under concurrent_stockserver/client) and their connections to the       *)
(* server (service() of thread_based/network.c), byte by byte.             *)
(*                                                                         *)
(* multiclient forks num_client clients and waits for them.  A client      *)
(* sends one line per order and reads MAXLINE bytes for it, however short  *)
(* the answer is.  An order is "show" or "modify" (a buy or a sell, with   *)
(* amounts that nothing here depends on); its line is that byte and a      *)
(* newline, and its answer is MAXLINE times that byte.  Only what is typed *)
(* to stockclient may end without a newline, as the last line.             *)
(***************************************************************************)
EXTENDS Rio, FiniteSets

CONSTANTS
    MAXLINE,        \* length of an answer
    SocketBuffer,   \* what the kernel keeps of one direction of a connection
    MaxClients,     \* bound on num_client
    ORDER_PER_CLIENT

ASSUME ClientsAssumption ==
    /\ MAXLINE \in Nat /\ MAXLINE > 2 /\ SocketBuffer \in Nat \ {0} /\ MaxClients \in Nat \ {0}
    /\ ORDER_PER_CLIENT \in Nat

Clients == 1 .. MaxClients
Orders == {"show", "modify"}
Cut == "cut"                   \* the last line of stdin, without a newline
Typed == Orders \cup {Cut}
NL == "newline"

VARIABLES
    program,    \* "benchmark", or the client program that is run by itself
    server,     \* the server process
    parent,     \* the multiclient process
    client,     \* the client processes
    service,    \* the server's end of every connection
    toServer, toClient   \* the bytes on the way

connVars == <<client, service, toServer, toClient>>

NoClient == [pc |-> "none", order |-> "show", left |-> 0, out |-> <<>>,
             rio |-> rio_readinitb, buf |-> <<>>]
NoService == [pc |-> "none", rio |-> rio_readinitb, line |-> <<>>, out |-> <<>>]
NoParent == [pc |-> "none", num_client |-> 0, per_client |-> 0, query_type |-> "RAND",
             runprocess |-> 0, waited |-> 0]

Line(order) == IF order = Cut THEN <<order>> ELSE <<order, NL>>
Answer(order) == [k \in 1 .. MAXLINE |-> order]

Running(c) == client[c].pc \notin {"none", "exited"}
ServerUp == server.pc # "none" /\ server.pc # "dead"

-----------------------------------------------------------------------------
(***************************************************************************)
(* multiclient and multiclient_benchmark.  num_client = 0 divides by zero: *)
(* the process is killed.  strcmp() is taken for equality, so that "show"  *)
(* selects MODIFY and everything else that is given selects SHOW.          *)
(***************************************************************************)
query_type(arg) ==
    IF arg = "none" THEN "RAND" ELSE IF arg # "show" THEN "SHOW" ELSE "MODIFY"

StartParent(num_client, total_order, arg) ==
    parent' = [NoParent EXCEPT !.pc = IF num_client = 0 THEN "killed" ELSE "fork",
                               !.num_client = num_client,
                               !.per_client = IF num_client = 0 THEN 0
                                              ELSE total_order \div num_client,
                               !.query_type = query_type(arg)]

(* multiclient: the orders are given per client, and are random. *)
StartMulticlient(num_client) ==
    parent' = [NoParent EXCEPT !.pc = "fork", !.num_client = num_client,
                               !.per_client = ORDER_PER_CLIENT]

(* A client of an earlier phase that still runs, its server gone, is forgotten. *)
ForkClient ==
    /\ parent.pc = "fork" /\ parent.runprocess < parent.num_client
    /\ parent' = [parent EXCEPT !.runprocess = @ + 1]
    /\ client' = [client EXCEPT ![parent.runprocess + 1] =
                     [NoClient EXCEPT !.pc = "connect", !.left = parent.per_client]]
    /\ UNCHANGED <<program, server, service, toServer, toClient>>

(* fork() fails: main() returns -1, and the clients it has go on alone. *)
ForkFails ==
    /\ parent.pc = "fork" /\ parent.runprocess < parent.num_client
    /\ parent' = [parent EXCEPT !.pc = "failed"]
    /\ UNCHANGED <<program, server, connVars>>

AllForked ==
    /\ parent.pc = "fork" /\ parent.runprocess = parent.num_client
    /\ parent' = [parent EXCEPT !.pc = "wait"]
    /\ UNCHANGED <<program, server, connVars>>

WaitClient ==
    /\ parent.pc = "wait" /\ parent.waited < parent.num_client
    /\ ~ Running(parent.waited + 1)
    /\ parent' = [parent EXCEPT !.waited = @ + 1]
    /\ UNCHANGED <<program, server, connVars>>

(* Variant: the parent does not wait for its clients. *)
ParentExit_NoWait ==
    /\ parent.pc = "wait"
    /\ parent' = [parent EXCEPT !.pc = "exited"]
    /\ UNCHANGED <<program, server, connVars>>

ParentExit ==
    /\ parent.pc = "wait" /\ parent.waited = parent.num_client
    /\ parent' = [parent EXCEPT !.pc = "exited"]
    /\ UNCHANGED <<program, server, connVars>>

-----------------------------------------------------------------------------
(***************************************************************************)
(* A client.  Every error ends it with exit(0).                            *)
(***************************************************************************)
Exit(c) == client' = [client EXCEPT ![c] = [NoClient EXCEPT !.pc = "exited"]]

(* The connection is made when the kernel of the server takes it.  What is *)
(* left of an older connection at the same place is forgotten.             *)
OpenClientfd(c) ==
    /\ client[c].pc = "connect"
    /\ IF server.pc \in {"bound", "serving"} /\ ~ server.deaf
       THEN /\ client' = [client EXCEPT ![c].pc = "order", ![c].rio = rio_readinitb]
            /\ service' = [service EXCEPT ![c] = [NoService EXCEPT !.pc = "read"]]
       ELSE Exit(c) /\ UNCHANGED service
    /\ toServer' = [toServer EXCEPT ![c] = <<>>] /\ toClient' = [toClient EXCEPT ![c] = <<>>]
    /\ UNCHANGED <<program, server, parent>>

(* The next order is made up, and what rio_writen() has to write. *)
NextOrder(c, orders) ==
    /\ client[c].pc = "order" /\ client[c].left > 0
    /\ \E order \in orders :
         client' = [client EXCEPT ![c].pc = "write", ![c].order = order,
                                  ![c].out = Line(order),
                                  ![c].left = IF order = Cut THEN 0 ELSE @ - 1]
    /\ UNCHANGED <<program, server, parent, service, toServer, toClient>>

Queries(type) == program \in {"benchmark", "multiclient_benchmark"} /\ parent.query_type = type

random_q(c) == Queries("RAND") /\ NextOrder(c, Orders)
modify_q(c) == Queries("MODIFY") /\ NextOrder(c, {"modify"})
show_q(c) == Queries("SHOW") /\ NextOrder(c, {"show"})

MulticlientOrder(c) == program = "multiclient" /\ NextOrder(c, Orders)

(* Close() and exit(). *)
Close(c) ==
    /\ program # "stockclient"
    /\ client[c].pc = "order" /\ client[c].left = 0
    /\ Exit(c)
    /\ UNCHANGED <<program, server, parent, service, toServer, toClient>>

(* stockclient sends the lines that Fgets() returns, until stdin ends.  The *)
(* last line may lack its newline; left bounds the lines.                  *)
TypedLine(c) == program = "stockclient" /\ NextOrder(c, Typed)

EndOfInput(c) ==
    /\ program = "stockclient" /\ client[c].pc = "order"
    /\ Exit(c)
    /\ UNCHANGED <<program, server, parent, service, toServer, toClient>>

UserStep(c) == TypedLine(c) \/ EndOfInput(c)

(* After the last byte the client reads the answer. *)
AfterOrder(out) == IF out = <<>> THEN "read" ELSE "write"

(* write() takes as much as the kernel has room for, or is interrupted. *)
RioWriten(c) ==
    /\ client[c].pc = "write" /\ service[c].pc # "closed"
    /\ \E k \in 0 .. Least(Len(client[c].out), SocketBuffer - Len(toServer[c])) :
         LET out == AfterWrite(client[c].out, k)
         IN  /\ client' = [client EXCEPT ![c].out = out, ![c].pc = AfterOrder(out),
                                         ![c].buf = <<>>]
             /\ toServer' = [toServer EXCEPT ![c] = @ \o SubSeq(client[c].out, 1, k)]
    /\ UNCHANGED <<program, server, parent, service, toClient>>

(* A write to a connection that the server has closed is lost or kills. *)
WriteClosed(c) ==
    /\ client[c].pc = "write" /\ service[c].pc = "closed"
    /\ client' = [client EXCEPT ![c].out = <<>>, ![c].pc = "read", ![c].buf = <<>>] \/ Exit(c)
    /\ UNCHANGED <<program, server, parent, service, toServer, toClient>>

(* The client has its answer, and forgets it. *)
BackToOrder(c) == [client[c] EXCEPT !.pc = "order", !.order = "show", !.buf = <<>>]

(***************************************************************************)
(* rio_readnb(): the end of the file makes it return what it has, which    *)
(* the client takes for an answer.  A reset connection ends the client,    *)
(* except stockclient, which does not look at the result.                  *)
(***************************************************************************)
ReadRefill(c) ==
    /\ client[c].pc = "read" /\ NeedsRefill(client[c].rio)
    /\ \E r \in read(toClient[c], service[c].pc = "closed", RIO_BUFSIZE) :
         /\ client' = [client EXCEPT ![c] =
              [IF AtEOF(r) THEN BackToOrder(c) ELSE client[c] EXCEPT !.rio = Refill(r)]]
         /\ toClient' = [toClient EXCEPT ![c] = Drop(@, Len(r.got))]
    /\ UNCHANGED <<program, server, parent, service, toServer>>

ReadReset(c) ==
    /\ client[c].pc = "read" /\ service[c].pc = "closed" /\ NeedsRefill(client[c].rio)
    /\ IF program = "stockclient" THEN client' = [client EXCEPT ![c] = BackToOrder(c)]
       ELSE Exit(c)
    /\ UNCHANGED <<program, server, parent, service, toServer, toClient>>

ReadCopy(c) ==
    LET r == rio_readnb(client[c].rio, client[c].buf, MAXLINE)
        back == IF r.done THEN BackToOrder(c) ELSE [client[c] EXCEPT !.buf = r.buf]
    IN  /\ client[c].pc = "read" /\ ~ NeedsRefill(client[c].rio)
        /\ client' = [client EXCEPT ![c] = [back EXCEPT !.rio = r.rio]]
        /\ UNCHANGED <<program, server, parent, service, toServer, toClient>>

ClientStep(c) ==
    \/ OpenClientfd(c) \/ Close(c)
    \/ random_q(c) \/ modify_q(c) \/ show_q(c) \/ MulticlientOrder(c)
    \/ RioWriten(c) \/ WriteClosed(c)
    \/ ReadRefill(c) \/ ReadReset(c) \/ ReadCopy(c)

-----------------------------------------------------------------------------
(***************************************************************************)
(* service() of the server, for the connection of client c: rio_readlineb, *)
(* the command, and an answer of MAXLINE bytes.                            *)
(***************************************************************************)
Serving(c) == server.pc = "serving" /\ service[c].pc # "closed"

LineRefill(c) ==
    /\ Serving(c) /\ service[c].pc = "read" /\ NeedsRefill(service[c].rio)
    /\ \E r \in read(toServer[c], client[c].pc = "exited", RIO_BUFSIZE) :
         /\ service' = [service EXCEPT ![c].rio = Refill(r),
                           ![c].pc = IF AtEOF(r) THEN "closed" ELSE @]
         /\ toServer' = [toServer EXCEPT ![c] = Drop(@, Len(r.got))]
    /\ UNCHANGED <<program, server, parent, client, toClient>>

(* At the end of the line the command is executed. *)
LineByte(c) ==
    LET r == rio_readlineb(service[c].rio, service[c].line, MAXLINE)
    IN  /\ Serving(c) /\ service[c].pc = "read" /\ ~ NeedsRefill(service[c].rio)
        /\ service' = [service EXCEPT ![c].rio = r.rio, ![c].line = r.line,
                          ![c].pc = IF r.done THEN "write" ELSE @,
                          ![c].out = IF r.done THEN Answer(r.line[1]) ELSE @]
        /\ UNCHANGED <<program, server, parent, client, toServer, toClient>>

(* service() goes on when rio_writen() has written all of the answer. *)
AfterAnswer(out) == IF out = <<>> THEN "read" ELSE "write"

AnswerWrite(c) ==
    /\ Serving(c) /\ service[c].pc = "write"
    /\ \E k \in 0 .. Least(Len(service[c].out), SocketBuffer - Len(toClient[c])) :
         LET out == AfterWrite(service[c].out, k)
         IN  /\ service' = [service EXCEPT ![c].out = out, ![c].pc = AfterAnswer(out),
                               ![c].line = IF out = <<>> THEN <<>> ELSE @]
             /\ toClient' = [toClient EXCEPT ![c] = @ \o SubSeq(service[c].out, 1, k)]
    /\ UNCHANGED <<program, server, parent, client, toServer>>

ServiceStep(c) ==
    LineRefill(c) \/ LineByte(c) \/ AnswerWrite(c)

(* The process of the server ends, and its connections are closed. *)
Dead == /\ server' = [server EXCEPT !.pc = "dead"]
        /\ service' = [c \in Clients |->
              IF service[c].pc = "none" THEN service[c]
              ELSE [NoService EXCEPT !.pc = "closed"]]

-----------------------------------------------------------------------------
Unread(rp) == IF rp.rio_cnt > 0 THEN SubSeq(rp.rio_buf, 1, rp.rio_cnt) ELSE <<>>

(* The bytes of an order that the server has not answered yet, wherever they are. *)
Asked(c) == (IF service[c].pc = "read" THEN service[c].line ELSE <<>>)
            \o Unread(service[c].rio) \o toServer[c] \o client[c].out

(* The bytes of the answer. *)
Told(c) == (IF client[c].pc = "read" THEN client[c].buf ELSE <<>>)
           \o Unread(client[c].rio) \o toClient[c]
           \o (IF service[c].pc = "write" THEN service[c].out ELSE <<>>)

(* What the server has of the line, what it has buffered, what is on the *)
(* way and what the client has still to write are the line of the order, *)
(* until the server answers it.                                          *)
LineIntact(c) ==
    client[c].pc \in {"write", "read"} /\ service[c].pc # "closed" =>
        Asked(c) = IF Told(c) = <<>> THEN Line(client[c].order) ELSE <<>>

(* What the client has read and buffered, what is on the way and what the *)
(* server has still to write is the answer to the order the client waits  *)
(* for.                                                                   *)
AnswerIntact(c) ==
    service[c].pc \notin {"none", "closed"} =>
        /\ client[c].pc = "read" => Told(c) \in {<<>>, Answer(client[c].order)}
        /\ client[c].pc = "order" => Told(c) = <<>>

(***************************************************************************)
(* No byte of an order or of its answer is lost, doubled or reordered      *)
(* between client and server, whatever read() and write() return, and      *)
(* nothing of an answer is left for the next order.                        *)
(***************************************************************************)
BytesIntact == \A c \in Clients : LineIntact(c) /\ AnswerIntact(c)

=============================================================================
