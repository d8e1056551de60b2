------------------------- MODULE ThreadServer_proof -------------------------
(***************************************************************************)
(* Proofs about the whole thread based server: what StockOps_proof shows   *)
(* of the commands holds inside the server, service() keeps its side of    *)
(* Threading, and so everything proved of Threading holds of the server,   *)
(* as long as no client sends exit.                                        *)
(***************************************************************************)
EXTENDS ThreadServer, StockOps_proof, TLAPS

(* The labels as Threading sees them: all of service() is "serve". *)
AbsLabel(l) == IF l \in serviceLabels THEN "serve" ELSE l

AbsPc == [t \in Threads |-> IF pc[t] \in serviceLabels THEN "serve" ELSE pc[t]]

(* Threading with all that is proved of it, seen from the server. *)
Proved == INSTANCE Threading_proof WITH pc <- AbsPc

ServerPc == pc = [t \in Threads |-> pc[t]]

(* A worker has a command that clients send, or none yet. *)
CmdSent == \A w \in Workers : cmd[w].op \in ClientOps \cup {"show"}

ServerInv == ServerPc /\ OpsInv /\ CmdSent

LEMMA WorkersAreThreads ==
    Workers \subseteq Threads /\ MainThread \in Threads /\ MainThread \notin Workers
BY ProcessAssumption DEF Threads

LEMMA ServerGoto ==
    ASSUME ServerPc, NEW t \in Threads, NEW from, NEW to, Goto(t, from, to)
    PROVE  /\ ServerPc' /\ pc[t] = from /\ pc'[t] = to
           /\ \A u \in Threads : u # t => pc'[u] = pc[u]
           /\ Abstract!Goto(t, AbsLabel(from), AbsLabel(to))
<1>1. ServerPc' /\ pc[t] = from /\ pc'[t] = to /\ hpc[t] = "none"
      /\ \A u \in Threads : u # t => pc'[u] = pc[u]
  BY DEF ServerPc, Goto
<1>2. AbsPc[t] = AbsLabel(from) /\ AbsPc' = [AbsPc EXCEPT ![t] = AbsLabel(to)]
  BY <1>1 DEF AbsPc, AbsLabel
<1> QED BY <1>1, <1>2 DEF Abstract!Goto, AbsPc

-----------------------------------------------------------------------------
(***************************************************************************)
(* The commands inside the server.  Steps outside of show() and modify()   *)
(* move workers between labels that OpsInv does not speak of.              *)
(***************************************************************************)
LEMMA OthersMove ==
    ASSUME OpsInv, UNCHANGED <<count, stockVars>>, ServerPc',
           \A w \in Workers : pc'[w] = pc[w]
    PROVE  OpsInv'
<1>1. UNCHANGED <<count, reader_n, writer_n, reader_n_mutex, writer_n_mutex,
                  modify_mutex, cmd, st, tmp, result, ledger>>
  BY DEF stockVars
<1>2. UNCHANGED <<AtReader, AtWriter, Readers, Writers>> /\ \A i \in Ids : AtNode(i)' = AtNode(i)
  BY <1>1 DEF AtReader, AtWriter, AtNode, Readers, Writers
<1>3. WorkersRun'
  <2>1. DOMAIN pc' = Threads
    BY DEF ServerPc
  <2> QED BY <1>1, <2>1, WorkersAreThreads DEF OpsInv, WorkersRun, ServerPc
<1>4. InOwnCommand'
  BY <1>1 DEF OpsInv, InOwnCommand
<1> QED BY <1>1, <1>2, <1>3, <1>4 DEF OpsInv, Locks, ReaderLock, WriterLock, NodeLocks,
                                     ExactCounts, NodesTyped, NoLostUpdate

(* Labels that no lock and no counter has to do with. *)
NeutralLabels == {"exec", "reply", "serve", "rem_wait", "rem_lock", "rem_fd", "rem_addr",
                  "rem_unlock", "rem_post", "idle_wait", "idle_post", "getvalue",
                  "sync_lock", "kill"}

LEMMA Neutral ==
    NeutralLabels \cap (CritLabels \cup ReadLabels \cup WriteLabels \cup ShowLabels \cup ModLabels) = {}
BY DEF NeutralLabels, CritLabels, ReaderCrit, WriterCrit, ReadLabels, WriteLabels, ShowLabels,
       ModLabels

LEMMA NeutralStep ==
    ASSUME OpsInv, NEW w \in Workers, NEW from \in NeutralLabels, NEW to \in NeutralLabels,
           Goto(w, from, to), UNCHANGED sharedVars,
           cmd' \in [Workers -> Lines], \A u \in Workers : u # w => cmd'[u] = cmd[u],
           st' \in [Workers -> {"SUCCESS", "ERROR", "NOTENOUGHERR"}],
           result' \in [Workers -> SUBSET Ids]
    PROVE  OpsInv'
<1>1. WorkersRun /\ InOwnCommand
  BY DEF OpsInv
<1>2. pc'[w] = to /\ \A u \in Workers : u # w => pc'[u] = pc[u]
  BY <1>1, OpGoto
<1>3. to \notin ShowLabels /\ to \notin ModLabels /\ to \notin {"mod_wait", "mod_store"}
  BY Neutral DEF ModLabels
<1>4. InOwnCommand'
  BY <1>1, <1>2, <1>3 DEF InOwnCommand
<1>5. /\ from \notin CritLabels /\ to \notin CritLabels
      /\ from \notin ReadLabels /\ to \notin ReadLabels
      /\ from \notin WriteLabels /\ to \notin WriteLabels
  BY Neutral
<1> QED BY <1>4, <1>5, OpSilent

LEMMA ServerInvInit == ServerInit => ServerInv
<1> SUFFICES ASSUME ServerInit PROVE ServerInv
  OBVIOUS
<1> USE WorkersAreThreads
<1>1. ServerPc /\ \A w \in Workers : pc[w] = "rem_wait"
  BY DEF ServerInit, Init, ServerPc
<1>2. AtReader = {} /\ AtWriter = {} /\ Readers = {} /\ Writers = {} /\ \A i \in Ids : AtNode(i) = {}
  BY <1>1 DEF AtReader, AtWriter, AtNode, Readers, Writers, ReadLabels, WriteLabels
<1>3. Locks
  <2>1. \A v : Guarded(1, v, tmp, {})
    BY DEF Guarded
  <2> QED BY <1>2, <2>1 DEF ServerInit, StockInit, Locks, ReaderLock, WriterLock, NodeLocks
<1>4. ExactCounts
  BY <1>2, FS_EmptySet DEF ExactCounts, ServerInit, StockInit
<1>5. WorkersRun
  <2>1. Show \in Lines /\ 0 \in 0 .. Cardinality(Workers)
    BY CountsTyped DEF Lines, Commands
  <2>2. cmd \in [Workers -> Lines] /\ tmp \in [Workers -> Int32 \cup 0 .. Cardinality(Workers)]
    BY <2>1 DEF ServerInit, StockInit
  <2> QED BY <1>1, <2>2 DEF WorkersRun, ServerPc
<1>6. InOwnCommand
  BY <1>1 DEF InOwnCommand, ShowLabels, ModLabels
<1>7. NodesTyped
  BY ThreadServerAssumption DEF ServerInit, Init, StockInit, NodesTyped
<1>8. NoLostUpdate
  BY DEF ServerInit, StockInit, NoLostUpdate
<1>9. CmdSent
  BY DEF ServerInit, CmdSent, Show, NoArgs
<1> QED BY <1>1, <1>3, <1>4, <1>5, <1>6, <1>7, <1>8, <1>9 DEF OpsInv, ServerInv

LEMMA ThreadingStepInv == ServerInv /\ ThreadingStep => ServerInv'
<1> SUFFICES ASSUME ServerInv, ThreadingStep PROVE ServerInv'
  OBVIOUS
<1> USE WorkersAreThreads
<1>0. ServerPc /\ OpsInv /\ CmdSent /\ UNCHANGED stockVars
  BY DEF ServerInv, ThreadingStep
<1>1. UNCHANGED <<cmd, st, result, reader_n, writer_n, reader_n_mutex, writer_n_mutex,
                  modify_mutex, tmp, ledger>>
  BY <1>0 DEF stockVars
<1>2. CmdSent'
  BY <1>0, <1>1 DEF CmdSent
<1>3. CASE MainStep
  <2>1. count' = count /\ \E from, to : Goto(MainThread, from, to)
    BY <1>3 DEF MainStep, Accept, AcceptError, InsertWait, InsertLock, InsertFd, InsertAddr,
                InsertUnlock, InsertPost
  <2>2. ServerPc' /\ \A w \in Workers : pc'[w] = pc[w]
    BY <1>0, <2>1, ServerGoto
  <2> QED BY <1>0, <1>2, <2>1, <2>2, OthersMove DEF ServerInv
<1>4. ASSUME NEW w \in Workers, RemoveStep(w) \/ SyncStep(w) PROVE ServerInv'
  <2>1. count' = count /\ \E from \in NeutralLabels, to \in NeutralLabels : Goto(w, from, to)
    BY <1>4 DEF RemoveStep, RemoveWait, RemoveLock, RemoveFd, RemoveAddr, RemoveUnlock,
                RemovePost, SyncStep, IdleWait, IdlePost, GetValue, SyncLock, Kill,
                NeutralLabels
  <2>2. ServerPc'
    BY <1>0, <2>1, ServerGoto
  <2>3. /\ cmd' \in [Workers -> Lines] /\ result' \in [Workers -> SUBSET Ids]
        /\ st' \in [Workers -> {"SUCCESS", "ERROR", "NOTENOUGHERR"}]
    BY <1>0, <1>1 DEF OpsInv, WorkersRun, NodesTyped
  <2>4. UNCHANGED sharedVars
    BY <1>1, <2>1 DEF sharedVars
  <2>5. OpsInv'
    BY <1>0, <1>1, <2>1, <2>3, <2>4, NeutralStep
  <2> QED BY <1>2, <2>2, <2>5 DEF ServerInv
<1>5. ASSUME NEW t \in Threads, HandlerStep(t) PROVE ServerInv'
  <2>1. UNCHANGED <<pc, count>>
    BY <1>5 DEF HandlerStep, Deliver, HandlerPrint, HandlerWrite, HandlerPost
  <2>2. ServerPc'
    BY <1>0, <2>1 DEF ServerPc
  <2> QED BY <1>0, <1>2, <2>1, <2>2, OthersMove DEF ServerInv
<1> QED BY <1>3, <1>4, <1>5 DEF ThreadingStep

(* Reading and answering: the only place where the command changes. *)
LEMMA TalkInv ==
    ASSUME ServerInv, NEW w \in Workers,
           ReadLine(w) \/ ReadError(w) \/ ReadEOF(w) \/ ExitClient(w) \/ Reply(w) \/ ReplyFails(w)
    PROVE  ServerInv'
<1> USE WorkersAreThreads
<1>0. ServerPc /\ OpsInv /\ CmdSent
  BY DEF ServerInv
<1>t. /\ cmd \in [Workers -> Lines] /\ result \in [Workers -> SUBSET Ids]
      /\ st \in [Workers -> {"SUCCESS", "ERROR", "NOTENOUGHERR"}]
  BY <1>0 DEF OpsInv, WorkersRun, NodesTyped
<1>1. CASE ReadLine(w) \/ ReadError(w)
  <2>1. PICK c \in Parsed : Parse(w, c)
    BY <1>1 DEF ReadLine, ReadError, Leftover
  <2>2. /\ UNCHANGED sharedVars /\ st' = st /\ cmd' = [cmd EXCEPT ![w] = c]
        /\ result' = [result EXCEPT ![w] = {}]
        /\ \E to \in {"reply", "exec"} : Goto(w, "serve", to)
    BY <2>1 DEF Parse, sharedVars
  <2>3. c \in Lines /\ c.op \in ClientOps
    BY DEF Parsed
  <2>4. /\ cmd' \in [Workers -> Lines] /\ \A u \in Workers : u # w => cmd'[u] = cmd[u]
        /\ cmd'[w] = c /\ result' \in [Workers -> SUBSET Ids]
    BY <1>t, <2>2, <2>3
  <2>5. OpsInv' /\ ServerPc'
    BY <1>0, <1>t, <2>2, <2>4, NeutralStep, ServerGoto DEF NeutralLabels
  <2>6. CmdSent'
    BY <1>0, <2>3, <2>4 DEF CmdSent
  <2> QED BY <2>5, <2>6 DEF ServerInv
<1>2. CASE ReadEOF(w)
  <2>1. /\ UNCHANGED sharedVars /\ st' = [st EXCEPT ![w] = "SUCCESS"]
        /\ cmd' = [cmd EXCEPT ![w] = Show] /\ result' = [result EXCEPT ![w] = {}]
        /\ Goto(w, "serve", "idle_post")
    BY <1>2 DEF ReadEOF, ServiceClose, sharedVars
  <2>2. Show \in Lines /\ Show.op = "show"
    BY DEF Lines, Commands, Show, NoArgs
  <2>3. /\ cmd' \in [Workers -> Lines] /\ \A u \in Workers : u # w => cmd'[u] = cmd[u]
        /\ cmd'[w] = Show /\ result' \in [Workers -> SUBSET Ids]
        /\ st' \in [Workers -> {"SUCCESS", "ERROR", "NOTENOUGHERR"}]
    BY <1>t, <2>1, <2>2
  <2>4. OpsInv' /\ ServerPc'
    BY <1>0, <2>1, <2>3, NeutralStep, ServerGoto DEF NeutralLabels
  <2>5. CmdSent'
    BY <1>0, <2>2, <2>3 DEF CmdSent
  <2> QED BY <2>4, <2>5 DEF ServerInv
<1>3. CASE ExitClient(w)
  <2>1. UNCHANGED sharedVars /\ UNCHANGED <<cmd, result>> /\ Goto(w, "exec", "reply")
    BY <1>3 DEF ExitClient, sharedVars
  <2>2. st' \in [Workers -> {"SUCCESS", "ERROR", "NOTENOUGHERR"}]
    BY <1>t, <1>3 DEF ExitClient
  <2>3. OpsInv' /\ ServerPc'
    BY <1>0, <1>t, <2>1, <2>2, NeutralStep, ServerGoto DEF NeutralLabels
  <2> QED BY <1>0, <2>1, <2>3 DEF ServerInv, CmdSent
<1>4. CASE Reply(w) \/ ReplyFails(w)
  <2>1. UNCHANGED sharedVars /\ UNCHANGED <<cmd, st, result>> /\ Goto(w, "reply", "serve")
    BY <1>4 DEF Reply, ReplyFails, stockVars, sharedVars
  <2>2. OpsInv' /\ ServerPc'
    BY <1>0, <1>t, <2>1, NeutralStep, ServerGoto DEF NeutralLabels
  <2> QED BY <1>0, <2>1, <2>2 DEF ServerInv, CmdSent
<1> QED BY <1>1, <1>2, <1>3, <1>4

(* A command moves the worker inside service() and leaves the sockets alone. *)
LEMMA OpMoves ==
    ASSUME ServerPc, NEW w \in Workers, OpStep(w)
    PROVE  /\ UNCHANGED cmd /\ ServerPc'
           /\ \E from \in serviceLabels, to \in serviceLabels : Goto(w, from, to)
<1>1. cmd' = cmd
  BY DEF OpStep, ShowStep, ModStep, ShowSpin, ShowEnter, ShowPrint, ShowPrinted, ShowLeave,
         ModEnter, ModSpin, ModCheck, ModLoad, ModStore, ModLeave, stockVars
<1>2. \E from \in serviceLabels, to \in serviceLabels : Goto(w, from, to)
  BY DEF OpStep, ShowStep, ModStep, ShowSpin, ShowEnter, ShowPrint, ShowPrinted, ShowLeave,
         ModEnter, ModSpin, ModCheck, ModLoad, ModStore, ModLeave, LockLoad, StoreUnlock,
         serviceLabels, ShowLabels, ModLabels
<1> QED BY <1>1, <1>2, ServerGoto, WorkersAreThreads

LEMMA ServerInvNext == ServerInv /\ [ServerNext]_serverVars => ServerInv'
<1> SUFFICES ASSUME ServerInv, [ServerNext]_serverVars PROVE ServerInv'
  OBVIOUS
<1>0. ServerPc /\ OpsInv /\ CmdSent
  BY DEF ServerInv
<1>1. CASE UNCHANGED <<pc, count, stockVars>>
  <2>1. ServerPc' /\ CmdSent'
    BY <1>0, <1>1 DEF ServerPc, CmdSent, stockVars
  <2>2. OpsInv'
    BY <1>0, <1>1, <2>1, OthersMove
  <2> QED BY <2>1, <2>2 DEF ServerInv
<1>2. CASE ThreadingStep
  BY <1>2, ThreadingStepInv
<1>3. ASSUME NEW w \in Workers, ServiceStep(w) PROVE ServerInv'
  <2>1. CASE OpStep(w)
    <3>1. cmd' = cmd /\ ServerPc'
      BY <1>0, <2>1, OpMoves
    <3>2. OpsInv'
      BY <1>0, <2>1, ShowInv, ModInv DEF OpStep
    <3> QED BY <1>0, <3>1, <3>2 DEF ServerInv, CmdSent
  <2> QED BY <1>3, <2>1, TalkInv DEF ServiceStep
<1>4. CASE ClientReset \/ Exited \/ UNCHANGED serverVars
  <2>1. UNCHANGED <<pc, count, stockVars>>
    BY <1>4 DEF ClientReset, Exited, serverVars, vars
  <2> QED BY <1>1, <2>1
<1> QED BY <1>2, <1>3, <1>4 DEF ServerNext

LEMMA ServerAlways == ServerSpec => []ServerInv
BY ServerInvInit, ServerInvNext, PTL DEF ServerSpec

(***************************************************************************)
(* The counters of threading.h are exact and no sell or buy is lost in the *)
(* whole server, whatever its clients send, exit included: synchronising,  *)
(* closing and failing never leave a worker inside a counter or a lock.    *)
(***************************************************************************)
THEOREM ServerCounts == ServerSpec => [](CountersExact /\ NoLostUpdate)
<1>1. ServerInv => CountersExact /\ NoLostUpdate
  BY OpsInvExact DEF ServerInv, OpsInv
<1> QED BY <1>1, ServerAlways, PTL

-----------------------------------------------------------------------------
(***************************************************************************)
(* Refinement.  Outside of service() a step of the server is the same step *)
(* of Threading.                                                           *)
(***************************************************************************)
LEMMA SameCardinality ==
    /\ Abstract!Cardinality(Workers) = Cardinality(Workers)
    /\ Proved!Cardinality(Workers) = Cardinality(Workers)
    /\ Proved!IsFiniteSet(Workers)
BY ProcessAssumption DEF Abstract!Cardinality, Proved!Cardinality, Cardinality,
                         Proved!IsFiniteSet, IsFiniteSet

LEMMA OutsideService ==
    \A l \in MainLabels \cup WorkerLabels : AbsLabel(l) = l
BY DEF MainLabels, WorkerLabels, AbsLabel, serviceLabels, ShowLabels, ModLabels

LEMMA OuterGoto ==
    ASSUME ServerPc, NEW t \in Threads, NEW from \in MainLabels \cup WorkerLabels,
           NEW to \in MainLabels \cup WorkerLabels, Goto(t, from, to)
    PROVE  Abstract!Goto(t, from, to)
BY ServerGoto, OutsideService

LEMMA MainImplements == ServerPc /\ MainStep => Abstract!MainStep
<1> SUFFICES ASSUME ServerPc, MainStep PROVE Abstract!MainStep
  OBVIOUS
<1>0. \A from, to \in MainLabels : Goto(MainThread, from, to) => Abstract!Goto(MainThread, from, to)
  BY OuterGoto, WorkersAreThreads
<1> QED
  BY <1>0 DEF MainStep, Accept, AcceptError, InsertWait, InsertLock, InsertFd, InsertAddr,
        InsertUnlock, InsertPost, SemWait, SemPost, sbuf, conns, sync, MainLabels,
        Abstract!MainStep, Abstract!Accept, Abstract!AcceptError, Abstract!InsertWait,
        Abstract!InsertLock, Abstract!InsertFd, Abstract!InsertAddr, Abstract!InsertUnlock,
        Abstract!InsertPost, Abstract!SemWait, Abstract!SemPost, Abstract!sbuf,
        Abstract!conns, Abstract!sync

LEMMA RemoveImplements ==
    ASSUME ServerPc, NEW w \in Workers, RemoveStep(w) PROVE Abstract!RemoveStep(w)
<1>0. \A from, to \in WorkerLabels : Goto(w, from, to) => Abstract!Goto(w, from, to)
  BY OuterGoto, WorkersAreThreads
<1> QED
  BY <1>0 DEF RemoveStep, RemoveWait, RemoveLock, RemoveFd, RemoveAddr, RemoveUnlock,
        RemovePost, SemWait, SemPost, sbuf, conns, sync, WorkerLabels,
        Abstract!RemoveStep, Abstract!RemoveWait, Abstract!RemoveLock, Abstract!RemoveFd,
        Abstract!RemoveAddr, Abstract!RemoveUnlock, Abstract!RemovePost,
        Abstract!SemWait, Abstract!SemPost, Abstract!sbuf, Abstract!conns, Abstract!sync

LEMMA SyncImplements ==
    ASSUME ServerPc, NEW w \in Workers, SyncStep(w) PROVE Abstract!SyncStep(w)
<1>0. \A from, to \in WorkerLabels : Goto(w, from, to) => Abstract!Goto(w, from, to)
  BY OuterGoto, WorkersAreThreads
<1> QED
  BY <1>0, SameCardinality
     DEF SyncStep, IdleWait, IdlePost, GetValue, SyncLock, Kill, SemWait, SemPost, sbuf, conns,
        sync, NoConn, WorkerLabels, Abstract!SyncStep, Abstract!IdleWait, Abstract!IdlePost,
        Abstract!GetValue, Abstract!SyncLock, Abstract!Kill, Abstract!SemWait,
        Abstract!SemPost, Abstract!sbuf, Abstract!conns, Abstract!sync, Abstract!NoConn

LEMMA HandlerImplements ==
    ASSUME NEW t \in Threads, HandlerStep(t) PROVE Abstract!HandlerStep(t)
<1>0. pc' = pc => AbsPc' = AbsPc
  BY DEF AbsPc
<1> QED
  BY <1>0 DEF HandlerStep, Deliver, HandlerPrint, HandlerWrite, HandlerPost, SemPost, sbuf,
        conns, sync, EmptyText, AbsPc, Abstract!HandlerStep, Abstract!Deliver,
        Abstract!HandlerPrint, Abstract!HandlerWrite, Abstract!HandlerPost, Abstract!SemPost,
        Abstract!sbuf, Abstract!conns, Abstract!sync, Abstract!EmptyText

(* Inside service() Threading sees nothing but counts change. *)
LEMMA InsideService ==
    ASSUME ServerPc, NEW w \in Workers, NEW from \in serviceLabels \cup {"serve"},
           NEW to \in serviceLabels \cup {"serve"}, Goto(w, from, to)
    PROVE  Abstract!Goto(w, "serve", "serve") /\ AbsPc' = AbsPc /\ AbsPc[w] = "serve"
<1>1. AbsLabel(from) = "serve" /\ AbsLabel(to) = "serve"
  BY DEF AbsLabel
<1>2. Abstract!Goto(w, "serve", "serve")
  BY <1>1, ServerGoto, WorkersAreThreads
<1>3. AbsPc[w] = "serve" /\ AbsPc' = [AbsPc EXCEPT ![w] = "serve"]
  BY <1>2 DEF Abstract!Goto, AbsPc
<1>4. AbsPc' = AbsPc
  BY <1>3 DEF AbsPc
<1> QED BY <1>2, <1>3, <1>4

(* The variables of Threading as the server has them. *)
LEMMA AbstractVars ==
    UNCHANGED <<AbsPc, count, socketVars, sock>> => UNCHANGED Abstract!vars
BY DEF Abstract!vars, AbsPc, socketVars, sbuf, sync

(* The store of modify() is the one step of a command that changes a count. *)
LEMMA OpImplements ==
    ASSUME ServerInv, NEW w \in Workers, OpStep(w), UNCHANGED <<socketVars, sock, ownVars>>
    PROVE  Abstract!ServiceModify(w) \/ UNCHANGED Abstract!vars
<1>0. ServerPc /\ OpsInv
  BY DEF ServerInv
<1>1. Abstract!Goto(w, "serve", "serve") /\ AbsPc' = AbsPc
  BY <1>0, OpMoves, InsideService
<1>2. CASE ModStore(w)
  <2>1. /\ pc[w] = "mod_store"
        /\ count' = [count EXCEPT ![cmd[w].id] = Moved(tmp[w], cmd[w])]
    BY <1>2 DEF ModStore, Goto
  <2>2. cmd[w].id \in Ids /\ cmd[w] \in Lines
    BY <1>0, <2>1 DEF OpsInv, InOwnCommand, WorkersRun
  <2>3. tmp[w] = count[cmd[w].id] /\ count[cmd[w].id] \in Int32
    BY <1>0, <2>1, <2>2 DEF OpsInv, Locks, NodeLocks, Guarded, AtNode, NodesTyped
  <2>4. Moved(tmp[w], cmd[w]) \in Counts
    BY <2>2, <2>3, MovedInt32, ThreadServerAssumption
  <2> QED
    BY <1>1, <2>1, <2>2, <2>4 DEF Abstract!ServiceModify, socketVars, sbuf, sync,
       Abstract!sbuf, Abstract!conns, Abstract!sync
<1>3. CASE ~ ModStore(w)
  <2>1. count' = count
    BY <1>3 DEF OpStep, ShowStep, ModStep, ShowSpin, ShowEnter, ShowPrint, ShowPrinted,
       ShowLeave, ModEnter, ModSpin, ModCheck, ModLoad, ModLeave
  <2> QED BY <1>1, <2>1, AbstractVars
<1> QED BY <1>2, <1>3

LEMMA ServiceImplements ==
    ASSUME "exit" \notin ClientOps, ServerInv, NEW w \in Workers, ServiceStep(w)
    PROVE  Abstract!WorkerStep(w) \/ UNCHANGED Abstract!vars
<1>0. ServerPc /\ CmdSent
  BY DEF ServerInv
<1>1. CASE ReadLine(w) \/ ReadError(w)
  <2>1. PICK c \in Parsed : Parse(w, c)
    BY <1>1 DEF ReadLine, ReadError, Leftover
  <2>2. /\ UNCHANGED <<count, socketVars, sock>>
        /\ \E to \in serviceLabels : Goto(w, "serve", to)
    BY <2>1 DEF Parse, serviceLabels
  <2> QED BY <1>0, <2>2, InsideService, AbstractVars
<1>2. CASE ReadEOF(w)
  <2>1. ServiceClose(w)
    BY <1>2 DEF ReadEOF
  <2>2. Abstract!Goto(w, "serve", "idle_post")
    BY <1>0, <2>1, OuterGoto, WorkersAreThreads DEF ServiceClose, WorkerLabels
  <2>3. Abstract!ServiceClose(w)
    BY <2>1, <2>2 DEF ServiceClose, Abstract!ServiceClose, sbuf, sync, Abstract!sbuf,
       Abstract!sync
  <2> QED BY <2>3 DEF Abstract!WorkerStep
<1>3. CASE ExitClient(w)
  BY <1>0, <1>3 DEF ExitClient, CmdSent
<1>4. CASE Reply(w) \/ ReplyFails(w)
  <2>1. UNCHANGED <<count, socketVars, sock>> /\ Goto(w, "reply", "serve")
    BY <1>4 DEF Reply, ReplyFails
  <2>2. "reply" \in serviceLabels
    BY DEF serviceLabels
  <2> QED BY <1>0, <2>1, <2>2, InsideService, AbstractVars
<1>5. CASE OpStep(w) /\ UNCHANGED <<socketVars, sock, ownVars>>
  BY <1>5, OpImplements DEF Abstract!WorkerStep
<1> QED BY <1>1, <1>2, <1>3, <1>4, <1>5 DEF ServiceStep

LEMMA ServerStep ==
    ASSUME "exit" \notin ClientOps, ServerInv, [ServerNext]_serverVars
    PROVE  [Abstract!Next]_(Abstract!vars)
<1>0. ServerPc
  BY DEF ServerInv
<1>1. CASE ThreadingStep
  <2>1. CASE MainStep
    BY <1>0, <2>1, MainImplements DEF Abstract!Next
  <2>2. ASSUME NEW w \in Workers, RemoveStep(w) \/ SyncStep(w) PROVE Abstract!Next
    BY <1>0, <2>2, RemoveImplements, SyncImplements DEF Abstract!Next, Abstract!WorkerStep
  <2>3. ASSUME NEW t \in Threads, HandlerStep(t) PROVE Abstract!Next
    BY <2>3, HandlerImplements DEF Abstract!Next, Abstract!Threads, Threads
  <2> QED BY <1>1, <2>1, <2>2, <2>3 DEF ThreadingStep
<1>2. ASSUME NEW w \in Workers, ServiceStep(w) PROVE [Abstract!Next]_(Abstract!vars)
  BY <1>2, ServiceImplements DEF Abstract!Next
<1>3. CASE ClientReset \/ Exited \/ UNCHANGED serverVars
  <2>1. UNCHANGED vars
    BY <1>3 DEF ClientReset, Exited, serverVars
  <2>2. UNCHANGED Abstract!vars
    BY <2>1 DEF vars, Abstract!vars
  <2> QED BY <2>2
<1> QED BY <1>1, <1>2, <1>3 DEF ServerNext

LEMMA ServerInitAbstract == ServerInit => Abstract!Init
<1> SUFFICES ASSUME ServerInit PROVE Abstract!Init
  OBVIOUS
<1>1. pc = [t \in Threads |-> IF t = MainThread THEN "accept" ELSE "rem_wait"]
  BY DEF ServerInit, Init
<1>2. AbsPc = [t \in Threads |-> IF t = MainThread THEN "accept" ELSE "rem_wait"]
  BY <1>1 DEF AbsPc, serviceLabels, ShowLabels, ModLabels
<1> QED BY <1>2, SameCardinality
  DEF ServerInit, Init, Abstract!Init, AbsPc, Abstract!Threads, Threads, NoConn,
      Abstract!NoConn, EmptyText, Abstract!EmptyText

(***************************************************************************)
(* service(), execute(), show() and modify() implement the service that    *)
(* Threading takes for granted, for any number of workers, descriptors and *)
(* stocks: while no client sends exit they only change counts, and close   *)
(* the descriptor they were given once, as the last thing they do.         *)
(***************************************************************************)
THEOREM ServerImplements ==
    ASSUME "exit" \notin ClientOps PROVE ServerSpec => ImplementsThreading
<1>1. ServerInv /\ [ServerNext]_serverVars => [Abstract!Next]_(Abstract!vars)
  BY ServerStep
<1> QED BY <1>1, ServerInitAbstract, ServerAlways, PTL
  DEF ServerSpec, ImplementsThreading, Abstract!Spec

-----------------------------------------------------------------------------
(***************************************************************************)
(* What is proved of Threading holds of the server.  Abstract and Proved   *)
(* are the same module under the same substitution.                        *)
(***************************************************************************)
LEMMA SameInit == Abstract!Init => Proved!Init
BY SameCardinality
   DEF Abstract!Init, Proved!Init, AbsPc, Abstract!Threads, Proved!Threads, Abstract!NoConn,
       Proved!NoConn, Abstract!EmptyText, Proved!EmptyText

LEMMA SameNext == [Abstract!Next]_(Abstract!vars) => [Proved!Next]_(Proved!vars)
<1>1. \A t, from, to : Abstract!Goto(t, from, to) => Proved!Goto(t, from, to)
  BY DEF Abstract!Goto, Proved!Goto, AbsPc
<1>2. Abstract!MainStep => Proved!MainStep
  BY <1>1
     DEF Abstract!MainStep, Abstract!Accept, Abstract!AcceptError, Abstract!InsertWait,
         Abstract!InsertLock, Abstract!InsertFd, Abstract!InsertAddr, Abstract!InsertUnlock,
         Abstract!InsertPost, Abstract!SemWait, Abstract!SemPost, Abstract!sbuf, Abstract!conns,
         Abstract!sync, Proved!MainStep, Proved!Accept, Proved!AcceptError, Proved!InsertWait,
         Proved!InsertLock, Proved!InsertFd, Proved!InsertAddr, Proved!InsertUnlock,
         Proved!InsertPost, Proved!SemWait, Proved!SemPost, Proved!sbuf, Proved!conns,
         Proved!sync
<1>3. ASSUME NEW w \in Workers, Abstract!WorkerStep(w) PROVE Proved!WorkerStep(w)
  BY <1>1, <1>3, SameCardinality
     DEF Abstract!WorkerStep, Abstract!RemoveStep, Abstract!SyncStep, Abstract!RemoveWait,
         Abstract!RemoveLock, Abstract!RemoveFd, Abstract!RemoveAddr, Abstract!RemoveUnlock,
         Abstract!RemovePost, Abstract!IdleWait, Abstract!IdlePost, Abstract!GetValue,
         Abstract!SyncLock, Abstract!Kill, Abstract!ServiceModify, Abstract!ServiceClose,
         Abstract!SemWait, Abstract!SemPost, Abstract!sbuf, Abstract!conns, Abstract!sync,
         Abstract!NoConn, Proved!WorkerStep, Proved!RemoveStep, Proved!SyncStep,
         Proved!RemoveWait, Proved!RemoveLock, Proved!RemoveFd, Proved!RemoveAddr,
         Proved!RemoveUnlock, Proved!RemovePost, Proved!IdleWait, Proved!IdlePost,
         Proved!GetValue, Proved!SyncLock, Proved!Kill, Proved!ServiceModify,
         Proved!ServiceClose, Proved!SemWait, Proved!SemPost, Proved!sbuf, Proved!conns,
         Proved!sync, Proved!NoConn
<1>4. ASSUME NEW t \in Threads, Abstract!HandlerStep(t) PROVE Proved!HandlerStep(t)
  BY <1>4
     DEF AbsPc, Abstract!HandlerStep, Abstract!Deliver, Abstract!HandlerPrint,
         Abstract!HandlerWrite, Abstract!HandlerPost, Abstract!SemPost, Abstract!sbuf,
         Abstract!conns, Abstract!EmptyText, Proved!HandlerStep, Proved!Deliver,
         Proved!HandlerPrint, Proved!HandlerWrite, Proved!HandlerPost, Proved!SemPost,
         Proved!sbuf, Proved!conns, Proved!EmptyText
<1>5. Abstract!Next => Proved!Next
  BY <1>2, <1>3, <1>4 DEF Abstract!Next, Proved!Next, Abstract!Threads, Proved!Threads, Threads
<1>6. Abstract!vars = Proved!vars /\ (UNCHANGED Abstract!vars => UNCHANGED Proved!vars)
  BY DEF Abstract!vars, Proved!vars, AbsPc
<1> QED BY <1>5, <1>6

LEMMA ServerIsThreading ==
    ASSUME "exit" \notin ClientOps PROVE ServerSpec => Proved!Spec
<1>1. ServerInit => Proved!Init
  BY ServerInitAbstract, SameInit
<1>2. ServerInv /\ [ServerNext]_serverVars => [Proved!Next]_(Proved!vars)
  BY ServerStep, SameNext
<1> QED BY <1>1, <1>2, ServerAlways, PTL DEF ServerSpec, Proved!Spec

(***************************************************************************)
(* The synchronisation of the whole server, while no client sends exit:    *)
(* sbuf.mutex, which SIGSYNC carries to the handler, is in one place;      *)
(* connections wait whole in the buffer, and each is served by one worker; *)
(* and the stock file has every change once the server is quiet.           *)
(***************************************************************************)
THEOREM ServerSync ==
    ASSUME "exit" \notin ClientOps
    PROVE  ServerSpec => [](/\ Abstract!MutexHandOff /\ Abstract!QuiescentPersisted
                            /\ Abstract!WaitingIntact /\ Abstract!ServedByOne)
<1>1. Proved!Spec => [](/\ Proved!MutexHandOff /\ Proved!QuiescentPersisted
                        /\ Proved!WaitingIntact /\ Proved!ServedByOne)
  BY Proved!MutexSafe, Proved!Persisted, Proved!WaitingSafe, Proved!ServedSafe,
     SameCardinality, ProcessAssumption, ThreadingAssumption, PTL
<1>2. Proved!MutexHandOff => Abstract!MutexHandOff
  BY DEF Abstract!MutexHandOff, Proved!MutexHandOff, Abstract!Holds, Proved!Holds, AbsPc,
         Abstract!HoldLabels, Proved!HoldLabels, Abstract!InHandler, Proved!InHandler,
         Abstract!Threads, Proved!Threads
<1>3. Proved!QuiescentPersisted => Abstract!QuiescentPersisted
  BY DEF Abstract!QuiescentPersisted, Proved!QuiescentPersisted, Abstract!Active,
         Proved!Active, AbsPc, Abstract!ActiveLabels, Proved!ActiveLabels,
         Abstract!InHandler, Proved!InHandler, Abstract!Threads, Proved!Threads
<1>4. Proved!WaitingIntact => Abstract!WaitingIntact
  BY DEF Abstract!WaitingIntact, Proved!WaitingIntact, Abstract!Removed, Proved!Removed,
         Abstract!Inserted, Proved!Inserted, AbsPc
<1>5. Proved!ServedByOne => Abstract!ServedByOne
  BY DEF Abstract!ServedByOne, Proved!ServedByOne, Abstract!Taken, Proved!Taken, AbsPc
<1> QED BY <1>1, <1>2, <1>3, <1>4, <1>5, ServerIsThreading, PTL

(***************************************************************************)
(* The descriptor Rio_writen() gets in service() is the connection that    *)
(* asked, while no client sends exit: accept() cannot have given its       *)
(* number to another client, because only the worker itself closes it.     *)
(***************************************************************************)
THEOREM AnswersOwn ==
    ASSUME "exit" \notin ClientOps PROVE ServerSpec => AnswersOwnClient
<1>1. ASSUME ServerPc, Abstract!ServedByOne
      PROVE  \A w \in Workers : pc[w] = "reply" => Peer(w) = wc[w].clientaddr
  <2>1. \A w \in Workers : pc[w] = "reply" => AbsPc[w] = "serve"
    BY WorkersAreThreads DEF AbsPc, serviceLabels
  <2> QED BY <1>1, <2>1 DEF Abstract!ServedByOne, Abstract!Taken, AbsPc, Peer
<1>2. ServerInv /\ Abstract!ServedByOne =>
      [\A w \in Workers : pc[w] = "reply" /\ pc'[w] = "serve" /\ up' =>
                             Peer(w) = wc[w].clientaddr]_serverVars
  BY <1>1 DEF ServerInv
<1> QED BY <1>2, ServerAlways, ServerSync, PTL DEF AnswersOwnClient

=============================================================================
