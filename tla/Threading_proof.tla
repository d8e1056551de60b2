-------------------------- MODULE Threading_proof --------------------------
(***************************************************************************)
(* Proofs about Threading, for every number of workers, slots, descriptors *)
(* and connections: first the synchronisation, then the buffer sbuf.       *)
(***************************************************************************)
EXTENDS Threading, TLAPS, FiniteSetTheorems, SequenceTheorems

(* The slot a counter is reduced to is a slot of the buffer. *)
LEMMA ModRange ==
    \A n \in Nat \ {0}, k \in Nat : k % n \in 0 .. n - 1
OBVIOUS

LEMMA WorkersCardinality == Cardinality(Workers) \in Nat
BY FS_CardinalityType, ProcessAssumption

LEMMA MainIsThread ==
    MainThread \in Threads /\ Workers \subseteq Threads /\ MainThread \notin Workers
BY ProcessAssumption DEF Threads

-----------------------------------------------------------------------------
(***************************************************************************)
(* Type correctness.                                                       *)
(***************************************************************************)
LEMMA TypeInit == Init => TypeOK
<1> SUFFICES ASSUME Init PROVE TypeOK
  OBVIOUS
<1> USE MainIsThread, ThreadingAssumption DEF Init
<1>1. buf \in [0 .. Slots - 1 -> Conn] /\ wc \in [Workers -> Conn]
  BY DEF Conn, NoConn, ConnNos
<1>2. printed \in [Threads -> Texts]
  <2>1. EmptyText \in [{} -> Counts]
    BY DEF EmptyText
  <2>2. EmptyText \in Texts
    BY <2>1 DEF Texts
  <2> QED BY <2>2
<1>3. pc \in [Threads -> MainLabels \cup WorkerLabels]
  BY DEF MainLabels, WorkerLabels
<1>4. pc[MainThread] \in MainLabels /\ \A w \in Workers : pc[w] \in WorkerLabels
  BY DEF MainLabels, WorkerLabels
<1>5. hpc \in [Threads -> HandlerLabels]
  BY DEF HandlerLabels
<1>6. empty_slots \in Nat /\ idle_threads \in Nat /\ clientaddr \in ConnNos
  BY WorkersCardinality DEF ConnNos
<1>7. sock \in [Fds -> ConnNos]
  BY DEF ConnNos
<1> QED BY <1>1, <1>2, <1>3, <1>4, <1>5, <1>6, <1>7 DEF TypeOK

LEMMA TypeNext == TypeOK /\ [Next]_vars => TypeOK'
<1> SUFFICES ASSUME TypeOK, [Next]_vars PROVE TypeOK'
  OBVIOUS
<1> USE MainIsThread, ThreadingAssumption DEF TypeOK
<1>m. \A from, to : Goto(MainThread, from, to) /\ to \in MainLabels =>
        /\ pc' \in [Threads -> MainLabels \cup WorkerLabels]
        /\ pc'[MainThread] \in MainLabels
        /\ \A w \in Workers : pc'[w] \in WorkerLabels
  BY DEF Goto
<1>w. \A w \in Workers : \A from, to : Goto(w, from, to) /\ to \in WorkerLabels =>
        /\ pc' \in [Threads -> MainLabels \cup WorkerLabels]
        /\ pc'[MainThread] \in MainLabels
        /\ \A u \in Workers : pc'[u] \in WorkerLabels
  BY DEF Goto
<1> DEFINE Slot(k) == k % Slots
<1>s. \A k \in Nat : Slot(k) \in 0 .. Slots - 1
  BY ModRange
<1> HIDE DEF Slot
<1>1. CASE Accept
  <2>1. clientaddr' \in ConnNos
    BY <1>1 DEF Accept, ConnNos
  <2>2. sock' \in [Fds -> ConnNos] /\ connfd' \in Fds
    BY <1>1, <2>1 DEF Accept
  <2> QED BY <1>1, <1>m, <2>1, <2>2 DEF Accept, sbuf, MainLabels
<1>2. CASE AcceptError
  BY <1>2, <1>m DEF AcceptError, sbuf, MainLabels
<1>3. CASE InsertWait
  BY <1>3, <1>m DEF InsertWait, SemWait, conns, sync, MainLabels
<1>4. CASE InsertLock
  BY <1>4, <1>m DEF InsertLock, SemWait, conns, sync, MainLabels
<1>5. CASE InsertFd
  <2>1. buf' \in [0 .. Slots - 1 -> Conn]
    BY <1>5 DEF InsertFd, Conn
  <2> QED BY <1>5, <1>m, <2>1 DEF InsertFd, conns, sync, MainLabels
<1>6. CASE InsertAddr
  <2>1. buf' \in [0 .. Slots - 1 -> Conn]
    BY <1>6 DEF InsertAddr, Conn
  <2> QED BY <1>6, <1>m, <2>1 DEF InsertAddr, conns, sync, MainLabels
<1>7. CASE InsertUnlock
  BY <1>7, <1>m DEF InsertUnlock, SemPost, conns, sync, MainLabels
<1>8. CASE InsertPost
  BY <1>8, <1>m DEF InsertPost, SemPost, conns, sync, MainLabels
<1>9. ASSUME NEW w \in Workers, WorkerStep(w) PROVE TypeOK'
  <2>1. CASE RemoveWait(w)
    BY <2>1, <1>w DEF RemoveWait, SemWait, conns, sync, WorkerLabels
  <2>2. CASE RemoveLock(w)
    BY <2>2, <1>w DEF RemoveLock, SemWait, conns, sync, WorkerLabels
  <2>3. CASE RemoveFd(w)
    <3>0. front + 1 \in Nat
      OBVIOUS
    <3>1. buf[(front + 1) % Slots] \in Conn
      BY <3>0, <1>s DEF Slot
    <3>2. wc' \in [Workers -> Conn]
      BY <2>3, <3>1 DEF RemoveFd, Conn
    <3> QED BY <2>3, <1>w, <3>2 DEF RemoveFd, conns, sync, WorkerLabels
  <2>4. CASE RemoveAddr(w)
    <3>1. buf[front % Slots] \in Conn
      BY <1>s DEF Slot
    <3>2. wc' \in [Workers -> Conn]
      BY <2>4, <3>1 DEF RemoveAddr, Conn
    <3> QED BY <2>4, <1>w, <3>2 DEF RemoveAddr, sbuf, conns, sync, WorkerLabels
  <2>5. CASE RemoveUnlock(w)
    BY <2>5, <1>w DEF RemoveUnlock, SemPost, conns, sync, WorkerLabels
  <2>6. CASE RemovePost(w)
    BY <2>6, <1>w DEF RemovePost, SemPost, conns, sync, WorkerLabels
  <2>7. CASE IdleWait(w)
    BY <2>7, <1>w DEF IdleWait, SemWait, sbuf, conns, sync, WorkerLabels
  <2>8. CASE ServiceModify(w)
    BY <2>8, <1>w DEF ServiceModify, sbuf, conns, sync, WorkerLabels
  <2>9. CASE ServiceClose(w)
    <3>1. sock' \in [Fds -> ConnNos]
      <4>1. 0 \in ConnNos
        BY DEF ConnNos
      <4> QED BY <2>9, <4>1 DEF ServiceClose
    <3> QED BY <2>9, <1>w, <3>1 DEF ServiceClose, sbuf, sync, WorkerLabels
  <2>10. CASE IdlePost(w)
    BY <2>10, <1>w DEF IdlePost, SemPost, sbuf, conns, sync, WorkerLabels
  <2>n. NoConn \in Conn
    BY DEF NoConn, Conn, ConnNos
  <2>11. CASE GetValue(w)
    <3>1. CASE Goto(w, "getvalue", "sync_lock") /\ UNCHANGED wc
      BY <2>11, <3>1, <1>w DEF GetValue, sbuf, conns, sync, WorkerLabels
    <3>2. CASE Goto(w, "getvalue", "rem_wait") /\ wc' = [wc EXCEPT ![w] = NoConn]
      <4>1. wc' \in [Workers -> Conn]
        BY <3>2, <2>n
      <4> QED BY <2>11, <3>2, <4>1, <1>w DEF GetValue, sbuf, conns, sync, WorkerLabels
    <3> QED BY <2>11, <3>1, <3>2 DEF GetValue
  <2>12. CASE SyncLock(w)
    BY <2>12, <1>w DEF SyncLock, SemWait, conns, sync, WorkerLabels
  <2>13. CASE Kill(w)
    BY <2>13, <1>w, <2>n DEF Kill, sbuf, conns, WorkerLabels
  <2> QED BY <1>9, <2>1, <2>2, <2>3, <2>4, <2>5, <2>6, <2>7, <2>8, <2>9,
             <2>10, <2>11, <2>12, <2>13 DEF WorkerStep, RemoveStep, SyncStep
<1>10. ASSUME NEW t \in Threads, HandlerStep(t) PROVE TypeOK'
  <2>1. CASE Deliver(t)
    BY <2>1 DEF Deliver, sbuf, conns, HandlerLabels
  <2>2. CASE HandlerPrint(t)
    <3>1. PICK i \in Ids \ DOMAIN printed[t] :
            printed' = [printed EXCEPT ![t] =
                [j \in DOMAIN printed[t] \cup {i} |->
                    IF j = i THEN count[i] ELSE printed[t][j]]]
      BY <2>2 DEF HandlerPrint
    <3>2. PICK S \in SUBSET Ids : printed[t] \in [S -> Counts]
      BY DEF Texts
    <3> DEFINE text == [j \in DOMAIN printed[t] \cup {i} |->
                           IF j = i THEN count[i] ELSE printed[t][j]]
    <3>3. text \in [S \cup {i} -> Counts]
      BY <3>2
    <3>4. S \cup {i} \in SUBSET Ids
      OBVIOUS
    <3>5. text \in Texts
      BY <3>3, <3>4 DEF Texts
    <3> HIDE DEF text
    <3>6. printed' \in [Threads -> Texts]
      BY <3>1, <3>5 DEF text
    <3> QED BY <2>2, <3>6 DEF HandlerPrint, sbuf, conns
  <2>3. CASE HandlerWrite(t)
    <3>1. printed[t] \in [Ids -> Counts]
      BY <2>3 DEF HandlerWrite, Texts
    <3> QED BY <2>3, <3>1 DEF HandlerWrite, sbuf, conns, HandlerLabels
  <2>4. CASE HandlerPost(t)
    <3>1. EmptyText \in [{} -> Counts]
      BY DEF EmptyText
    <3>2. EmptyText \in Texts
      BY <3>1 DEF Texts
    <3> QED BY <2>4, <3>2 DEF HandlerPost, SemPost, conns, HandlerLabels
  <2> QED BY <1>10, <2>1, <2>2, <2>3, <2>4 DEF HandlerStep
<1>11. CASE UNCHANGED vars
  BY <1>11 DEF vars
<1> QED BY <1>1, <1>2, <1>3, <1>4, <1>5, <1>6, <1>7, <1>8, <1>9, <1>10, <1>11
        DEF Next, MainStep

(***************************************************************************)
(* Every variable of threading.c stays in its type; in particular no       *)
(* semaphore goes below 0 and every index into the buffer is a slot of it. *)
(***************************************************************************)
THEOREM TypeCorrect == Spec => []TypeOK
BY TypeInit, TypeNext, PTL DEF Spec

-----------------------------------------------------------------------------
(***************************************************************************)
(* sbuf.mutex: a step of a thread leaves the permission where it is, takes *)
(* it out of the semaphore, or puts it back.                               *)
(***************************************************************************)
LEMMA GotoHolds ==
    ASSUME TypeOK, NEW t \in Threads, NEW from, NEW to, Goto(t, from, to)
    PROVE  /\ hpc[t] = "none"
           /\ Holds(t) <=> from \in HoldLabels
           /\ Holds(t)' <=> to \in HoldLabels
           /\ \A u \in Threads : u # t => (Holds(u)' <=> Holds(u))
BY DEF TypeOK, Goto, Holds

LEMMA MutexSilent ==
    ASSUME TypeOK, MutexHandOff, NEW t \in Threads, NEW from, NEW to,
           Goto(t, from, to), from \in HoldLabels <=> to \in HoldLabels,
           UNCHANGED <<mutex, hpc, sigpending>>
    PROVE  MutexHandOff'
<1>1. \A u \in Threads : (Holds(u)' <=> Holds(u)) /\ (InHandler(u)' <=> InHandler(u))
  BY GotoHolds DEF InHandler
<1> QED BY <1>1 DEF MutexHandOff

LEMMA MutexAcquire ==
    ASSUME TypeOK, MutexHandOff, NEW t \in Threads, NEW from, NEW to,
           Goto(t, from, to), from \notin HoldLabels, to \in HoldLabels,
           SemWait(mutex), UNCHANGED <<hpc, sigpending>>
    PROVE  MutexHandOff'
<1>1. \A u \in Threads : (Holds(u)' <=> u = t \/ Holds(u)) /\ (InHandler(u)' <=> InHandler(u))
  BY GotoHolds DEF InHandler
<1>2. mutex = 1 /\ mutex' = 0
  BY DEF SemWait, MutexHandOff
<1> QED BY <1>1, <1>2 DEF MutexHandOff

LEMMA MutexRelease ==
    ASSUME TypeOK, MutexHandOff, NEW t \in Threads, NEW from, NEW to,
           Goto(t, from, to), from \in HoldLabels, to \notin HoldLabels,
           SemPost(mutex), UNCHANGED <<hpc, sigpending>>
    PROVE  MutexHandOff'
<1>1. /\ Holds(t)
      /\ \A u \in Threads : (Holds(u)' <=> u # t /\ Holds(u)) /\ (InHandler(u)' <=> InHandler(u))
  BY GotoHolds DEF InHandler
<1>2. mutex = 0 /\ mutex' = 1
  BY <1>1 DEF SemPost, MutexHandOff
<1> QED BY <1>1, <1>2 DEF MutexHandOff

LEMMA MutexInit == Init => MutexHandOff
BY DEF Init, MutexHandOff, Holds, HoldLabels, InHandler

LEMMA MutexNext == TypeOK /\ MutexHandOff /\ [Next]_vars => MutexHandOff'
<1> SUFFICES ASSUME TypeOK, MutexHandOff, [Next]_vars PROVE MutexHandOff'
  OBVIOUS
<1> USE MainIsThread
<1>1. CASE Accept
  BY <1>1, MutexSilent DEF Accept, sbuf, HoldLabels
<1>2. CASE AcceptError
  BY <1>2, MutexSilent DEF AcceptError, sbuf, HoldLabels
<1>3. CASE InsertWait
  BY <1>3, MutexSilent DEF InsertWait, sync, HoldLabels
<1>4. CASE InsertLock
  BY <1>4, MutexAcquire DEF InsertLock, sync, HoldLabels
<1>5. CASE InsertFd
  BY <1>5, MutexSilent DEF InsertFd, sync, HoldLabels
<1>6. CASE InsertAddr
  BY <1>6, MutexSilent DEF InsertAddr, sync, HoldLabels
<1>7. CASE InsertUnlock
  BY <1>7, MutexRelease DEF InsertUnlock, sync, HoldLabels
<1>8. CASE InsertPost
  BY <1>8, MutexSilent DEF InsertPost, sync, HoldLabels
<1>9. ASSUME NEW w \in Workers, WorkerStep(w) PROVE MutexHandOff'
  <2>1. CASE RemoveWait(w)
    BY <2>1, MutexSilent DEF RemoveWait, sync, HoldLabels
  <2>2. CASE RemoveLock(w)
    BY <2>2, MutexAcquire DEF RemoveLock, sync, HoldLabels
  <2>3. CASE RemoveFd(w)
    BY <2>3, MutexSilent DEF RemoveFd, sync, HoldLabels
  <2>4. CASE RemoveAddr(w)
    BY <2>4, MutexSilent DEF RemoveAddr, sbuf, sync, HoldLabels
  <2>5. CASE RemoveUnlock(w)
    BY <2>5, MutexRelease DEF RemoveUnlock, sync, HoldLabels
  <2>6. CASE RemovePost(w)
    BY <2>6, MutexSilent DEF RemovePost, sync, HoldLabels
  <2>7. CASE IdleWait(w)
    BY <2>7, MutexSilent DEF IdleWait, sbuf, sync, HoldLabels
  <2>8. CASE ServiceModify(w)
    BY <2>8, MutexSilent DEF ServiceModify, sbuf, sync, HoldLabels
  <2>9. CASE ServiceClose(w)
    BY <2>9, MutexSilent DEF ServiceClose, sbuf, sync, HoldLabels
  <2>10. CASE IdlePost(w)
    BY <2>10, MutexSilent DEF IdlePost, sbuf, sync, HoldLabels
  <2>11. CASE GetValue(w)
    <3>1. CASE Goto(w, "getvalue", "sync_lock")
      BY <2>11, <3>1, MutexSilent DEF GetValue, sbuf, sync, HoldLabels
    <3>2. CASE Goto(w, "getvalue", "rem_wait")
      BY <2>11, <3>2, MutexSilent DEF GetValue, sbuf, sync, HoldLabels
    <3> QED BY <2>11, <3>1, <3>2 DEF GetValue
  <2>12. CASE SyncLock(w)
    BY <2>12, MutexAcquire DEF SyncLock, sync, HoldLabels
  <2>13. CASE Kill(w)
    (* The permission moves from the worker to the pending signal. *)
    <3>1. /\ Holds(w)
          /\ \A u \in Threads : /\ Holds(u)' <=> u # w /\ Holds(u)
                                /\ InHandler(u)' <=> InHandler(u)
      BY <2>13, GotoHolds DEF Kill, HoldLabels, InHandler
    <3>2. mutex' = mutex /\ sigpending'
      BY <2>13 DEF Kill, sbuf
    <3> QED BY <3>1, <3>2 DEF MutexHandOff
  <2> QED BY <1>9, <2>1, <2>2, <2>3, <2>4, <2>5, <2>6, <2>7, <2>8, <2>9,
             <2>10, <2>11, <2>12, <2>13 DEF WorkerStep, RemoveStep, SyncStep
<1>10. ASSUME NEW t \in Threads, HandlerStep(t) PROVE MutexHandOff'
  <2>1. CASE Deliver(t)
    (* ... from the signal to the handler ... *)
    <3>1. \A u \in Threads : /\ Holds(u)' <=> Holds(u)
                             /\ InHandler(u)' <=> u = t \/ InHandler(u)
      BY <2>1 DEF Deliver, Holds, InHandler, TypeOK
    <3>2. mutex' = mutex /\ sigpending /\ ~ sigpending'
      BY <2>1 DEF Deliver, sbuf
    <3> QED BY <3>1, <3>2 DEF MutexHandOff
  <2>2. CASE HandlerPrint(t)
    BY <2>2 DEF HandlerPrint, sbuf, MutexHandOff, Holds, InHandler
  <2>3. CASE HandlerWrite(t)
    <3>1. \A u \in Threads : /\ Holds(u)' <=> Holds(u)
                             /\ InHandler(u)' <=> InHandler(u)
      BY <2>3 DEF HandlerWrite, Holds, InHandler, TypeOK
    <3>2. mutex' = mutex /\ sigpending' = sigpending
      BY <2>3 DEF HandlerWrite, sbuf
    <3> QED BY <3>1, <3>2 DEF MutexHandOff
  <2>4. CASE HandlerPost(t)
    (* ... and from the handler back into the semaphore. *)
    <3>1. /\ InHandler(t)
          /\ \A u \in Threads : /\ Holds(u)' <=> Holds(u)
                                /\ InHandler(u)' <=> u # t /\ InHandler(u)
      BY <2>4 DEF HandlerPost, Holds, InHandler, TypeOK
    <3>2. mutex = 0 /\ mutex' = 1 /\ sigpending' = sigpending
      BY <2>4, <3>1 DEF HandlerPost, SemPost, MutexHandOff
    <3> QED BY <3>1, <3>2 DEF MutexHandOff
  <2> QED BY <1>10, <2>1, <2>2, <2>3, <2>4 DEF HandlerStep
<1>11. CASE UNCHANGED vars
  BY <1>11 DEF vars, MutexHandOff, Holds, InHandler
<1> QED BY <1>1, <1>2, <1>3, <1>4, <1>5, <1>6, <1>7, <1>8, <1>9, <1>10, <1>11
        DEF Next, MainStep

(***************************************************************************)
(* sbuf.mutex is held in one place at a time, although the handler posts   *)
(* what a worker waited for: insertions, removals and writes of the stock  *)
(* file exclude each other, and no SIGSYNC is merged with another.         *)
(***************************************************************************)
THEOREM MutexSafe == Spec => []MutexHandOff
<1>1. Init => TypeOK /\ MutexHandOff
  BY TypeInit, MutexInit
<1>2. TypeOK /\ MutexHandOff /\ [Next]_vars => (TypeOK /\ MutexHandOff)'
  BY TypeNext, MutexNext
<1> QED BY <1>1, <1>2, PTL DEF Spec

-----------------------------------------------------------------------------
(***************************************************************************)
(* idle_threads counts the workers that are not inside service().          *)
(***************************************************************************)
LEMMA InServiceFinite ==
    /\ IsFiniteSet(InService)
    /\ Cardinality(InService) \in Nat
    /\ InService = {} <=> Cardinality(InService) = 0
<1>1. InService \subseteq Workers
  BY DEF InService
<1> QED BY <1>1, ProcessAssumption, FS_Subset, FS_CardinalityType, FS_EmptySet

LEMMA IdleSilent ==
    ASSUME TypeOK, IdleExact, NEW t \in Threads, NEW from, NEW to,
           Goto(t, from, to), from \in BusyLabels <=> to \in BusyLabels,
           UNCHANGED idle_threads
    PROVE  IdleExact'
<1>1. InService' = InService
  BY MainIsThread DEF TypeOK, Goto, InService
<1> QED BY <1>1 DEF IdleExact

LEMMA IdleInit == Init => IdleExact
<1> SUFFICES ASSUME Init PROVE IdleExact
  OBVIOUS
<1>1. InService = {}
  BY ProcessAssumption DEF Init, InService, BusyLabels, Threads
<1> QED BY <1>1, FS_EmptySet, WorkersCardinality DEF Init, IdleExact

LEMMA IdleNext == TypeOK /\ IdleExact /\ [Next]_vars => IdleExact'
<1> SUFFICES ASSUME TypeOK, IdleExact, [Next]_vars PROVE IdleExact'
  OBVIOUS
<1> USE MainIsThread
<1>1. ASSUME MainStep PROVE IdleExact'
  <2>1. \E from \in MainLabels, to \in MainLabels :
            Goto(MainThread, from, to) /\ UNCHANGED idle_threads
    BY <1>1 DEF MainStep, Accept, AcceptError, InsertWait, InsertLock, InsertFd,
                InsertAddr, InsertUnlock, InsertPost, MainLabels
  <2>2. \A l \in MainLabels : l \notin BusyLabels
    BY DEF MainLabels, BusyLabels
  <2> QED BY <2>1, <2>2, IdleSilent
<1>2. ASSUME NEW w \in Workers, WorkerStep(w) PROVE IdleExact'
  <2>1. CASE RemoveStep(w)
    <3>1. \E from, to \in {"rem_wait", "rem_lock", "rem_fd", "rem_addr",
                           "rem_unlock", "rem_post", "idle_wait"} :
              Goto(w, from, to) /\ UNCHANGED idle_threads
      BY <2>1 DEF RemoveStep, RemoveWait, RemoveLock, RemoveFd, RemoveAddr,
                  RemoveUnlock, RemovePost
    <3> QED BY <3>1, IdleSilent DEF BusyLabels
  <2>2. CASE IdleWait(w)
    <3>1. w \notin InService /\ InService' = InService \cup {w}
      BY <2>2 DEF IdleWait, Goto, TypeOK, InService, BusyLabels
    <3>2. Cardinality(InService') = Cardinality(InService) + 1
      BY <3>1, InServiceFinite, FS_AddElement
    <3> QED BY <2>2, <3>2, InServiceFinite, WorkersCardinality
            DEF IdleWait, SemWait, IdleExact
  <2>3. CASE ServiceModify(w)
    BY <2>3, IdleSilent DEF ServiceModify
  <2>4. CASE ServiceClose(w)
    BY <2>4, IdleSilent DEF ServiceClose, BusyLabels
  <2>5. CASE IdlePost(w)
    <3>1. w \in InService /\ InService' = InService \ {w}
      BY <2>5 DEF IdlePost, Goto, TypeOK, InService, BusyLabels
    <3>2. Cardinality(InService') = Cardinality(InService) - 1
      BY <3>1, InServiceFinite, FS_RemoveElement
    <3> QED BY <2>5, <3>2, InServiceFinite, WorkersCardinality
            DEF IdlePost, SemPost, IdleExact
  <2>6. CASE GetValue(w) \/ SyncLock(w) \/ Kill(w)
    <3>1. \E from, to \in {"getvalue", "sync_lock", "kill", "rem_wait"} :
              Goto(w, from, to) /\ UNCHANGED idle_threads
      BY <2>6 DEF GetValue, SyncLock, Kill
    <3> QED BY <3>1, IdleSilent DEF BusyLabels
  <2> QED BY <1>2, <2>1, <2>2, <2>3, <2>4, <2>5, <2>6 DEF WorkerStep, SyncStep
<1>3. ASSUME NEW t \in Threads, HandlerStep(t) PROVE IdleExact'
  BY <1>3 DEF HandlerStep, Deliver, HandlerPrint, HandlerWrite, HandlerPost,
              IdleExact, InService
<1>4. CASE UNCHANGED vars
  BY <1>4 DEF vars, IdleExact, InService
<1> QED BY <1>1, <1>2, <1>3, <1>4 DEF Next

-----------------------------------------------------------------------------
(***************************************************************************)
(* The stock file.  A worker stops being active in two places: in kill(),  *)
(* which leaves a signal pending, and when sem_getvalue() told it that     *)
(* somebody is still inside service(), who is then active.                 *)
(***************************************************************************)
SyncIInv == TypeOK /\ MutexHandOff /\ SyncInv

LEMMA SyncInit == Init => SyncInv
<1> SUFFICES ASSUME Init PROVE SyncInv
  OBVIOUS
<1>1. IdleExact
  BY IdleInit
<1>2. TextsEmpty
  BY DEF Init, TextsEmpty
<1>3. \A t \in Threads : hpc[t] # "print"
  BY DEF Init
<1>4. WillSync
  BY <1>3 DEF Init, WillSync
<1> QED BY <1>1, <1>2, <1>4 DEF SyncInv

LEMMA TextsNext == TypeOK /\ TextsEmpty /\ [Next]_vars => TextsEmpty'
<1> SUFFICES ASSUME TypeOK, TextsEmpty, [Next]_vars PROVE TextsEmpty'
  OBVIOUS
<1>1. CASE UNCHANGED <<hpc, printed>>
  BY <1>1 DEF TextsEmpty
<1>2. ASSUME NEW t \in Threads, HandlerStep(t) PROVE TextsEmpty'
  <2>1. CASE Deliver(t)
    BY <2>1 DEF Deliver, TypeOK, TextsEmpty
  <2>2. CASE HandlerPrint(t)
    <3>1. \A u \in Threads : hpc'[u] = "none" => u # t /\ printed'[u] = printed[u]
      BY <2>2 DEF HandlerPrint, TypeOK
    <3> QED BY <2>2, <3>1 DEF HandlerPrint, TextsEmpty
  <2>3. CASE HandlerWrite(t)
    BY <2>3 DEF HandlerWrite, TypeOK, TextsEmpty
  <2>4. CASE HandlerPost(t)
    BY <2>4 DEF HandlerPost, TypeOK, TextsEmpty
  <2> QED BY <1>2, <2>1, <2>2, <2>3, <2>4 DEF HandlerStep
<1>3. CASE MainStep
  BY <1>1, <1>3 DEF MainStep, Accept, AcceptError, InsertWait, InsertLock,
       InsertFd, InsertAddr, InsertUnlock, InsertPost, sync
<1>4. ASSUME NEW w \in Workers, WorkerStep(w) PROVE TextsEmpty'
  BY <1>1, <1>4 DEF WorkerStep, RemoveStep, SyncStep, RemoveWait, RemoveLock,
       RemoveFd, RemoveAddr, RemoveUnlock, RemovePost, IdleWait, ServiceModify,
       ServiceClose, IdlePost, GetValue, SyncLock, Kill, sync
<1>5. CASE UNCHANGED vars
  BY <1>1, <1>5 DEF vars
<1> QED BY <1>2, <1>3, <1>4, <1>5 DEF Next

(* A step that deactivates nobody and leaves memory and file alone. *)
LEMMA WillSyncSilent ==
    ASSUME WillSync, UNCHANGED <<count, file, hpc, printed, sigpending>>,
           \A w \in Workers : Active(w) => Active(w)'
    PROVE  WillSync'
BY DEF WillSync, Fresh

(* A step after which somebody is active. *)
LEMMA WillSyncActive ==
    ASSUME NEW w \in Workers, Active(w)' PROVE WillSync'
BY DEF WillSync

LEMMA WillSyncWorker ==
    ASSUME SyncIInv, NEW w \in Workers, WorkerStep(w)
    PROVE  WillSync'
<1> USE MainIsThread
<1>0. TypeOK /\ MutexHandOff /\ IdleExact /\ WillSync
  BY DEF SyncIInv, SyncInv
<1>g. \A from, to : Goto(w, from, to) =>
        /\ pc[w] = from /\ pc'[w] = to
        /\ \A u \in Workers : u # w => pc'[u] = pc[u]
  BY <1>0 DEF Goto, TypeOK
<1>1. CASE RemoveStep(w)
  <2>1. \A u \in Workers : Active(u) => Active(u)'
    <3>1. \E from, to \in {"rem_wait", "rem_lock", "rem_fd", "rem_addr",
                           "rem_unlock", "rem_post", "idle_wait"} :
              Goto(w, from, to)
      BY <1>1 DEF RemoveStep, RemoveWait, RemoveLock, RemoveFd, RemoveAddr,
                  RemoveUnlock, RemovePost
    <3> QED BY <3>1, <1>g DEF Active, ActiveLabels
  <2>2. UNCHANGED <<count, file, hpc, printed, sigpending>>
    BY <1>1 DEF RemoveStep, RemoveWait, RemoveLock, RemoveFd, RemoveAddr,
                RemoveUnlock, RemovePost, sync
  <2> QED BY <1>0, <2>1, <2>2, WillSyncSilent
<1>2. CASE IdleWait(w) \/ ServiceModify(w) \/ ServiceClose(w) \/ IdlePost(w)
           \/ SyncLock(w)
  <2>1. \E from, to \in ActiveLabels \cup {"idle_wait"} :
            Goto(w, from, to) /\ to \in ActiveLabels
    BY <1>2 DEF IdleWait, ServiceModify, ServiceClose, IdlePost, SyncLock,
                ActiveLabels
  <2>2. Active(w)'
    BY <2>1, <1>g DEF Active
  <2> QED BY <2>2, WillSyncActive
<1>3. CASE GetValue(w)
  <2>1. CASE Goto(w, "getvalue", "sync_lock")
    BY <2>1, <1>g, WillSyncActive DEF Active, ActiveLabels
  <2>2. CASE Goto(w, "getvalue", "rem_wait") /\ idle_threads # Cardinality(Workers)
    <3>1. InService # {}
      BY <1>0, <2>2, InServiceFinite, WorkersCardinality DEF IdleExact
    <3>2. PICK u \in Workers : pc[u] \in BusyLabels
      BY <3>1 DEF InService
    <3>3. Active(u)'
      BY <2>2, <3>2, <1>g DEF Active, ActiveLabels, BusyLabels
    <3> QED BY <3>3, WillSyncActive
  <2> QED BY <1>3, <2>1, <2>2 DEF GetValue
<1>4. CASE Kill(w)
  <2>1. Holds(w)
    BY <1>4 DEF Kill, Goto, Holds, HoldLabels
  <2>2. \A t \in Threads : hpc[t] = "none"
    BY <1>0, <2>1 DEF MutexHandOff, InHandler
  <2>3. sigpending' /\ \A t \in Threads : hpc'[t] # "print"
    BY <1>4, <2>2 DEF Kill
  <2> QED BY <2>3 DEF WillSync
<1> QED BY <1>1, <1>2, <1>3, <1>4 DEF WorkerStep, SyncStep

LEMMA WillSyncHandler ==
    ASSUME SyncIInv, NEW t \in Threads, HandlerStep(t)
    PROVE  WillSync'
<1>0. TypeOK /\ MutexHandOff /\ TextsEmpty /\ WillSync
  BY DEF SyncIInv, SyncInv
<1>1. pc' = pc /\ count' = count
  BY DEF HandlerStep, Deliver, HandlerPrint, HandlerWrite, HandlerPost
<1>2. CASE \E w \in Workers : Active(w)
  BY <1>1, <1>2 DEF WillSync, Active
<1>3. CASE \A w \in Workers : ~ Active(w)
  <2>0. /\ sigpending \/ file = count \/ \E u \in Threads : hpc[u] = "print"
        /\ \A u \in Threads : hpc[u] = "print" => Fresh(u)
    BY <1>0, <1>3 DEF WillSync
  <2>1. CASE Deliver(t)
    <3>1. hpc'[t] = "print" /\ printed' = printed
      BY <1>0, <2>1 DEF Deliver, TypeOK
    <3>2. printed[t] = EmptyText
      BY <1>0, <2>1 DEF Deliver, TextsEmpty
    <3>3. \A u \in Threads : hpc'[u] = "print" => u = t
      BY <1>0, <2>1 DEF Deliver, TypeOK, MutexHandOff, InHandler
    <3>4. Fresh(t)'
      BY <3>1, <3>2 DEF Fresh, EmptyText
    <3> QED BY <3>1, <3>3, <3>4 DEF WillSync
  <2>2. CASE HandlerPrint(t)
    <3>1. PICK i \in Ids \ DOMAIN printed[t] :
            printed' = [printed EXCEPT ![t] =
                [j \in DOMAIN printed[t] \cup {i} |->
                    IF j = i THEN count[i] ELSE printed[t][j]]]
      BY <2>2 DEF HandlerPrint
    <3>2. hpc[t] = "print" /\ hpc' = hpc /\ Fresh(t)
      BY <2>0, <2>2 DEF HandlerPrint
    <3>3. printed'[t] = [j \in DOMAIN printed[t] \cup {i} |->
                            IF j = i THEN count[i] ELSE printed[t][j]]
      BY <1>0, <3>1 DEF TypeOK
    <3>4. Fresh(t)'
      BY <1>1, <3>2, <3>3 DEF Fresh
    <3>5. \A u \in Threads : hpc'[u] = "print" => u = t
      BY <1>0, <3>2 DEF MutexHandOff, InHandler
    <3> QED BY <3>2, <3>4, <3>5 DEF WillSync
  <2>3. CASE HandlerWrite(t)
    <3>1. hpc[t] = "print" /\ Fresh(t)
      BY <2>0, <2>3 DEF HandlerWrite
    <3>2. printed[t] \in [Ids -> Counts]
      BY <1>0, <2>3 DEF HandlerWrite, TypeOK, Texts
    <3>3. printed[t] = count
      BY <1>0, <3>1, <3>2 DEF Fresh, TypeOK
    <3>4. file' = count'
      BY <1>1, <2>3, <3>3 DEF HandlerWrite
    <3>5. \A u \in Threads : hpc'[u] # "print"
      BY <1>0, <2>3, <3>1 DEF HandlerWrite, TypeOK, MutexHandOff, InHandler
    <3> QED BY <3>4, <3>5 DEF WillSync
  <2>4. CASE HandlerPost(t)
    <3>1. InHandler(t) /\ hpc[t] = "post"
      BY <2>4 DEF HandlerPost, InHandler
    <3>2. ~ sigpending /\ \A u \in Threads : hpc[u] # "print"
      BY <1>0, <3>1 DEF MutexHandOff, InHandler
    <3>3. file' = count'
      BY <1>1, <2>0, <2>4, <3>2 DEF HandlerPost
    <3>4. \A u \in Threads : hpc'[u] # "print"
      BY <1>0, <2>4, <3>2 DEF HandlerPost, TypeOK
    <3> QED BY <3>3, <3>4 DEF WillSync
  <2> QED BY <2>1, <2>2, <2>3, <2>4 DEF HandlerStep
<1> QED BY <1>2, <1>3

LEMMA SyncNext == SyncIInv /\ [Next]_vars => SyncIInv'
<1> SUFFICES ASSUME SyncIInv, [Next]_vars PROVE SyncIInv'
  OBVIOUS
<1>0. TypeOK /\ MutexHandOff /\ IdleExact /\ TextsEmpty /\ WillSync
  BY DEF SyncIInv, SyncInv
<1>1. TypeOK' /\ MutexHandOff' /\ IdleExact' /\ TextsEmpty'
  BY <1>0, TypeNext, MutexNext, IdleNext, TextsNext
<1>2. WillSync'
  <2>1. CASE MainStep
    <3>1. UNCHANGED <<count, file, hpc, printed, sigpending>>
      BY <2>1 DEF MainStep, Accept, AcceptError, InsertWait, InsertLock, InsertFd,
                  InsertAddr, InsertUnlock, InsertPost, sync
    <3>2. \E from, to : Goto(MainThread, from, to)
      BY <2>1 DEF MainStep, Accept, AcceptError, InsertWait, InsertLock, InsertFd,
                  InsertAddr, InsertUnlock, InsertPost
    <3>3. \A w \in Workers : pc'[w] = pc[w]
      BY <1>0, <3>2, MainIsThread DEF Goto, TypeOK
    <3> QED BY <1>0, <3>1, <3>3, WillSyncSilent DEF Active
  <2>2. CASE \E w \in Workers : WorkerStep(w)
    BY <2>2, WillSyncWorker
  <2>3. CASE \E t \in Threads : HandlerStep(t)
    BY <2>3, WillSyncHandler
  <2>4. CASE UNCHANGED vars
    BY <1>0, <2>4, WillSyncSilent DEF vars, Active
  <2> QED BY <2>1, <2>2, <2>3, <2>4 DEF Next
<1> QED BY <1>1, <1>2 DEF SyncIInv, SyncInv

(***************************************************************************)
(* Whenever the thread based server is quiescent, the stock file has every *)
(* change: the test on idle_threads after sem_post never lets the last     *)
(* worker leave without a synchronisation that sees the final counts.      *)
(***************************************************************************)
THEOREM Persisted == Spec => []QuiescentPersisted
<1>1. Init => SyncIInv
  BY TypeInit, MutexInit, SyncInit DEF SyncIInv
<1>2. SyncIInv => QuiescentPersisted
  BY DEF SyncIInv, SyncInv, WillSync, QuiescentPersisted, InHandler
<1> QED BY <1>1, <1>2, SyncNext, PTL DEF Spec

-----------------------------------------------------------------------------
(***************************************************************************)
(* The bounded buffer sbuf: no connection is overwritten, torn or handed   *)
(* out twice, and sbuf is the queue ConnQueue.                             *)
(***************************************************************************)

(***************************************************************************)
(* The inductive invariant.  Between its two semaphores every insertion    *)
(* and every removal has a step that moves rear or front; the counts below *)
(* say on which side of that step the threads are.                         *)
(***************************************************************************)
(* main() has waited for an empty slot and not moved rear yet. *)
Reserved == IF pc[MainThread] \in {"ins_lock", "ins_fd"} THEN 1 ELSE 0

(* main() has moved rear and not posted items yet. *)
Unposted == IF pc[MainThread] \in {"ins_addr", "ins_unlock", "ins_post"} THEN 1 ELSE 0

ClaimLabels == {"rem_lock", "rem_fd"}
EmptyLabels == {"rem_addr", "rem_unlock", "rem_post"}

(* The workers that have waited for items and not moved front yet. *)
Claiming == {w \in Workers : pc[w] \in ClaimLabels}

(* The workers that have moved front and not posted empty_slots yet. *)
Emptying == {w \in Workers : pc[w] \in EmptyLabels}

RingCounts ==
    /\ items + Cardinality(Claiming) + Unposted = rear - front
    /\ empty_slots + Reserved + Cardinality(Emptying) + (rear - front) = Slots

(* What main() has accepted and not put into the buffer yet. *)
BringLabels == {"ins_wait", "ins_lock", "ins_fd"}

MainHas ==
    /\ clientaddr = IF pc[MainThread] \in BringLabels THEN rear + 1 ELSE rear
    /\ pc[MainThread] \in BringLabels \cup {"ins_addr"} =>
        connfd \in Fds /\ sock[connfd] = clientaddr
    /\ pc[MainThread] = "ins_addr" => buf[rear % Slots].connfd = connfd

(* From the removal on a worker has a descriptor, until it forgets it. *)
HeldLabels == {"rem_unlock", "rem_post", "idle_wait", "serve", "idle_post", "getvalue",
               "sync_lock", "kill"}

WorkersHave ==
    /\ \A w \in Workers : pc[w] = "rem_addr" =>
        front > 0 /\ wc[w].connfd = buf[front % Slots].connfd
    /\ \A w \in Workers : pc[w] \in HeldLabels => wc[w].connfd \in Fds
    /\ \A w \in Workers : Taken(w) => wc[w].clientaddr \in 1 .. Removed
    /\ \A w, u \in Workers : Taken(w) /\ Taken(u) /\ w # u =>
        wc[w].clientaddr # wc[u].clientaddr

ConnInv == MainHas /\ WorkersHave /\ WaitingIntact /\ ServedByOne

RingInv == TypeOK /\ MutexHandOff /\ RingCounts /\ ConnInv

-----------------------------------------------------------------------------
(***************************************************************************)
(* Arithmetic: the numbers of fewer than n consecutive connections have    *)
(* slots of their own.                                                     *)
(***************************************************************************)
LEMMA DivMod ==
    \A n \in Nat \ {0}, k \in Nat : k = n * (k \div n) + (k % n)
OBVIOUS

LEMMA NoMultiple ==
    ASSUME NEW n \in Nat \ {0}, NEW p \in Int, NEW q \in Int, NEW d \in Int,
           n * p + d = n * q, d > 0, d < n
    PROVE  FALSE
<1>1. CASE q <= p
  <2>1. n * q <= n * p
    BY <1>1
  <2> QED BY <2>1
<1>2. CASE q >= p + 1
  <2>1. n * q >= n * (p + 1)
    BY <1>2
  <2>2. n * (p + 1) = n * p + n
    OBVIOUS
  <2> QED BY <2>1, <2>2
<1> QED BY <1>1, <1>2

LEMMA SlotsApart ==
    ASSUME NEW n \in Nat \ {0}, NEW j \in Nat, NEW k \in Nat, j < k, k - j < n
    PROVE  j % n # k % n
<1> SUFFICES ASSUME j % n = k % n PROVE FALSE
  OBVIOUS
<1>1. j = n * (j \div n) + (j % n) /\ k = n * (k \div n) + (k % n)
  BY DivMod
<1>2. j \div n \in Int /\ k \div n \in Int /\ j % n \in Int
  BY ModRange
<1> DEFINE d == k - j
<1>3. n * (j \div n) + d = n * (k \div n)
  BY <1>1, <1>2
<1>4. d \in Int /\ d > 0 /\ d < n
  OBVIOUS
<1> HIDE DEF d
<1> QED BY <1>2, <1>3, <1>4, NoMultiple

-----------------------------------------------------------------------------
(***************************************************************************)
(* What a step of main() or of a worker does to the program counters.      *)
(***************************************************************************)
LEMMA GotoMain ==
    ASSUME TypeOK, NEW from, NEW to, Goto(MainThread, from, to)
    PROVE  /\ pc[MainThread] = from /\ pc'[MainThread] = to
           /\ \A w \in Workers : pc'[w] = pc[w]
BY MainIsThread DEF TypeOK, Goto

LEMMA GotoWorker ==
    ASSUME TypeOK, NEW w \in Workers, NEW from, NEW to, Goto(w, from, to)
    PROVE  /\ pc[w] = from /\ pc'[w] = to
           /\ pc'[MainThread] = pc[MainThread]
           /\ \A u \in Workers : u # w => pc'[u] = pc[u]
BY MainIsThread DEF TypeOK, Goto

LEMMA CountStep ==
    ASSUME TypeOK, NEW w \in Workers, NEW from, NEW to, Goto(w, from, to), NEW L
    PROVE  Cardinality({u \in Workers : pc'[u] \in L})
             = Cardinality({u \in Workers : pc[u] \in L})
               + (IF to \in L THEN 1 ELSE 0) - (IF from \in L THEN 1 ELSE 0)
<1> DEFINE S == {u \in Workers : pc[u] \in L}
           T == {u \in Workers : pc'[u] \in L}
<1>1. pc[w] = from /\ pc'[w] = to /\ \A u \in Workers : u # w => pc'[u] = pc[u]
  BY GotoWorker
<1>2. IsFiniteSet(S) /\ Cardinality(S) \in Nat
  <2>1. S \subseteq Workers
    OBVIOUS
  <2> QED BY <2>1, ProcessAssumption, FS_Subset, FS_CardinalityType
<1>3. CASE to \in L /\ from \notin L
  <2>1. w \notin S /\ T = S \cup {w}
    BY <1>1, <1>3
  <2>2. Cardinality(T) = Cardinality(S) + 1
    BY <1>2, <2>1, FS_AddElement
  <2> QED BY <1>2, <1>3, <2>2
<1>4. CASE to \notin L /\ from \in L
  <2>1. w \in S /\ T = S \ {w}
    BY <1>1, <1>4
  <2>2. Cardinality(T) = Cardinality(S) - 1
    BY <1>2, <2>1, FS_RemoveElement
  <2> QED BY <1>2, <1>4, <2>2
<1>5. CASE to \in L <=> from \in L
  <2>1. T = S
    BY <1>1, <1>5
  <2>2. Cardinality(T) = Cardinality(S)
    BY <2>1
  <2> QED BY <1>2, <1>5, <2>2
<1> QED BY <1>3, <1>4, <1>5

LEMMA CountsAreNat ==
    /\ Cardinality(Claiming) \in Nat /\ Cardinality(Emptying) \in Nat
    /\ \A w \in Claiming : Cardinality(Claiming) > 0
    /\ \A w \in Emptying : Cardinality(Emptying) > 0
<1>1. Claiming \subseteq Workers /\ Emptying \subseteq Workers
  BY DEF Claiming, Emptying
<1>2. IsFiniteSet(Claiming) /\ IsFiniteSet(Emptying)
  BY <1>1, ProcessAssumption, FS_Subset
<1> QED BY <1>2, FS_CardinalityType, FS_EmptySet

-----------------------------------------------------------------------------
(***************************************************************************)
(* The semaphores count what is between front and rear.                    *)
(***************************************************************************)
LEMMA CountsInit == Init => RingCounts
<1> SUFFICES ASSUME Init PROVE RingCounts
  OBVIOUS
<1>1. Claiming = {} /\ Emptying = {}
  BY MainIsThread DEF Init, Claiming, Emptying, ClaimLabels, EmptyLabels
<1>2. Reserved = 0 /\ Unposted = 0
  BY MainIsThread DEF Init, Reserved, Unposted
<1> QED BY <1>1, <1>2, FS_EmptySet, ThreadingAssumption DEF Init, RingCounts

LEMMA CountsMain == TypeOK /\ RingCounts /\ MainStep => RingCounts'
<1> SUFFICES ASSUME TypeOK, RingCounts, MainStep PROVE RingCounts'
  OBVIOUS
<1> USE CountsAreNat
<1>1. \A from, to : Goto(MainThread, from, to) =>
        /\ Cardinality(Claiming') = Cardinality(Claiming)
        /\ Cardinality(Emptying') = Cardinality(Emptying)
        /\ pc[MainThread] = from /\ pc'[MainThread] = to
  BY GotoMain DEF Claiming, Emptying
<1>t. front \in Nat /\ rear \in Nat /\ items \in Nat /\ empty_slots \in Nat
  BY DEF TypeOK
<1>2. CASE Accept \/ AcceptError
  <2>1. UNCHANGED <<front, rear, items, empty_slots>>
    BY <1>2 DEF Accept, AcceptError, sbuf
  <2> QED BY <1>1, <1>t, <1>2, <2>1 DEF Accept, AcceptError, RingCounts, Reserved, Unposted
<1>3. CASE InsertWait
  BY <1>1, <1>t, <1>3 DEF InsertWait, SemWait, RingCounts, Reserved, Unposted
<1>4. CASE InsertLock
  BY <1>1, <1>t, <1>4 DEF InsertLock, RingCounts, Reserved, Unposted
<1>5. CASE InsertFd
  <2>1. UNCHANGED <<front, items, empty_slots>> /\ rear' = rear + 1
    BY <1>5 DEF InsertFd
  <2>2. Goto(MainThread, "ins_fd", "ins_addr")
    BY <1>5 DEF InsertFd
  <2> QED BY <1>1, <1>t, <2>1, <2>2 DEF RingCounts, Reserved, Unposted
<1>6. CASE InsertAddr
  <2>1. UNCHANGED <<front, rear, items, empty_slots>>
    BY <1>6 DEF InsertAddr
  <2>2. Goto(MainThread, "ins_addr", "ins_unlock")
    BY <1>6 DEF InsertAddr
  <2> QED BY <1>1, <1>t, <2>1, <2>2 DEF RingCounts, Reserved, Unposted
<1>7. CASE InsertUnlock
  BY <1>1, <1>t, <1>7 DEF InsertUnlock, RingCounts, Reserved, Unposted
<1>8. CASE InsertPost
  BY <1>1, <1>t, <1>8 DEF InsertPost, SemPost, RingCounts, Reserved, Unposted
<1> QED BY <1>2, <1>3, <1>4, <1>5, <1>6, <1>7, <1>8 DEF MainStep

LEMMA CountsWorker ==
    ASSUME TypeOK, RingCounts, NEW w \in Workers, WorkerStep(w)
    PROVE  RingCounts'
<1> USE CountsAreNat
<1>1. \A from, to : Goto(w, from, to) =>
        /\ Cardinality(Claiming') = Cardinality(Claiming)
             + (IF to \in ClaimLabels THEN 1 ELSE 0) - (IF from \in ClaimLabels THEN 1 ELSE 0)
        /\ Cardinality(Emptying') = Cardinality(Emptying)
             + (IF to \in EmptyLabels THEN 1 ELSE 0) - (IF from \in EmptyLabels THEN 1 ELSE 0)
        /\ Reserved' = Reserved /\ Unposted' = Unposted
  BY CountStep, GotoWorker DEF Claiming, Emptying, Reserved, Unposted
<1>t. /\ Reserved \in Nat /\ Unposted \in Nat
      /\ front \in Nat /\ rear \in Nat /\ items \in Nat /\ empty_slots \in Nat
  BY DEF Reserved, Unposted, TypeOK
<1>2. CASE RemoveWait(w)
  <2>1. /\ Cardinality(Claiming') = Cardinality(Claiming) + 1
        /\ Cardinality(Emptying') = Cardinality(Emptying)
        /\ Reserved' = Reserved /\ Unposted' = Unposted
    BY <1>1, <1>2 DEF RemoveWait, ClaimLabels, EmptyLabels
  <2> QED BY <1>t, <1>2, <2>1 DEF RemoveWait, SemWait, RingCounts
<1>3. CASE RemoveFd(w)
  <2>1. /\ Cardinality(Claiming') = Cardinality(Claiming) - 1
        /\ Cardinality(Emptying') = Cardinality(Emptying) + 1
        /\ Reserved' = Reserved /\ Unposted' = Unposted
    BY <1>1, <1>3 DEF RemoveFd, ClaimLabels, EmptyLabels
  <2>2. UNCHANGED <<rear, items, empty_slots>> /\ front' = front + 1
    BY <1>3 DEF RemoveFd
  <2> QED BY <1>t, <2>1, <2>2 DEF RingCounts
<1>4. CASE RemovePost(w)
  <2>1. /\ Cardinality(Claiming') = Cardinality(Claiming)
        /\ Cardinality(Emptying') = Cardinality(Emptying) - 1
        /\ Reserved' = Reserved /\ Unposted' = Unposted
    BY <1>1, <1>4 DEF RemovePost, ClaimLabels, EmptyLabels
  <2> QED BY <1>t, <1>4, <2>1 DEF RemovePost, SemPost, RingCounts
<1>5. CASE \/ RemoveLock(w) \/ RemoveAddr(w) \/ RemoveUnlock(w)
           \/ SyncStep(w) \/ ServiceModify(w) \/ ServiceClose(w)
  <2>1. UNCHANGED <<front, rear, items, empty_slots>>
    BY <1>5 DEF RemoveLock, RemoveAddr, RemoveUnlock, SyncStep, IdleWait, IdlePost,
                GetValue, SyncLock, Kill, ServiceModify, ServiceClose, sbuf
  <2>2. \E from, to : /\ Goto(w, from, to)
                      /\ from \in ClaimLabels <=> to \in ClaimLabels
                      /\ from \in EmptyLabels <=> to \in EmptyLabels
    BY <1>5 DEF RemoveLock, RemoveAddr, RemoveUnlock, SyncStep, IdleWait, IdlePost,
                GetValue, SyncLock, Kill, ServiceModify, ServiceClose, ClaimLabels,
                EmptyLabels
  <2>3. /\ Cardinality(Claiming') = Cardinality(Claiming)
        /\ Cardinality(Emptying') = Cardinality(Emptying)
        /\ Reserved' = Reserved /\ Unposted' = Unposted
    BY <1>1, <2>2
  <2> QED BY <1>t, <2>1, <2>3 DEF RingCounts
<1> QED BY <1>2, <1>3, <1>4, <1>5 DEF WorkerStep, RemoveStep

LEMMA CountsNext == TypeOK /\ RingCounts /\ [Next]_vars => RingCounts'
<1> SUFFICES ASSUME TypeOK, RingCounts, [Next]_vars PROVE RingCounts'
  OBVIOUS
<1>1. CASE UNCHANGED <<pc, sbuf>>
  BY <1>1 DEF sbuf, RingCounts, Claiming, Emptying, Reserved, Unposted
<1>2. ASSUME NEW t \in Threads, HandlerStep(t) PROVE RingCounts'
  <2>1. UNCHANGED <<pc, front, rear, items, empty_slots>>
    BY <1>2 DEF HandlerStep, Deliver, HandlerPrint, HandlerWrite, HandlerPost, sbuf
  <2> QED BY <2>1 DEF RingCounts, Claiming, Emptying, Reserved, Unposted
<1>3. CASE UNCHANGED vars
  BY <1>1, <1>3 DEF vars, sbuf
<1> QED BY <1>2, <1>3, CountsMain, CountsWorker DEF Next

-----------------------------------------------------------------------------
(***************************************************************************)
(* What the counts and the mutex give to the steps that touch the ring.    *)
(***************************************************************************)
LEMMA RingBounds ==
    ASSUME TypeOK, RingCounts
    PROVE  /\ front <= rear /\ rear - front <= Slots
           /\ pc[MainThread] \in {"ins_lock", "ins_fd"} => rear - front < Slots
           /\ pc[MainThread] = "ins_addr" => front < rear
           /\ \A w \in Workers : pc[w] \in ClaimLabels => front < rear
           /\ \A w \in Workers : pc[w] \in EmptyLabels => rear - front < Slots
<1>1. /\ front \in Nat /\ rear \in Nat /\ items \in Nat /\ empty_slots \in Nat
      /\ Cardinality(Claiming) \in Nat /\ Cardinality(Emptying) \in Nat
      /\ Slots \in Nat
  BY CountsAreNat, ThreadingAssumption DEF TypeOK
<1>2. \A w \in Workers : pc[w] \in ClaimLabels => Cardinality(Claiming) > 0
  BY CountsAreNat DEF Claiming
<1>3. \A w \in Workers : pc[w] \in EmptyLabels => Cardinality(Emptying) > 0
  BY CountsAreNat DEF Emptying
<1> QED BY <1>1, <1>2, <1>3 DEF RingCounts, Reserved, Unposted

LEMMA OneInside ==
    ASSUME MutexHandOff, NEW t \in Threads, NEW u \in Threads,
           pc[t] \in HoldLabels, pc[u] \in HoldLabels
    PROVE  t = u
BY DEF MutexHandOff, Holds

(* The ends of the queue while nobody is in the middle of a removal. *)
LEMMA RemovedIs ==
    /\ (\A w \in Workers : pc[w] # "rem_addr") => Removed = front
    /\ \A w \in Workers : pc[w] = "rem_addr" => Removed = front - 1
BY DEF Removed

LEMMA EndsAreNat ==
    ASSUME TypeOK, RingCounts, ConnInv
    PROVE  /\ Removed \in Nat /\ Inserted \in Nat
           /\ Inserted <= rear /\ Removed <= front /\ front <= Removed + 1
<1>1. front \in Nat /\ rear \in Nat
  BY DEF TypeOK
<1>2. pc[MainThread] = "ins_addr" => rear > 0
  BY <1>1, RingBounds
<1>3. \A w \in Workers : pc[w] = "rem_addr" => front > 0
  BY DEF ConnInv, WorkersHave
<1> QED BY <1>1, <1>2, <1>3 DEF Removed, Inserted

LEMMA ConnInit == Init => ConnInv
<1> SUFFICES ASSUME Init PROVE ConnInv
  OBVIOUS
<1>1. \A w \in Workers : pc[w] = "rem_wait"
  BY MainIsThread DEF Init
<1>2. pc[MainThread] = "accept" /\ front = 0 /\ rear = 0 /\ clientaddr = 0
  BY MainIsThread DEF Init
<1>3. Removed = 0 /\ Inserted = 0
  BY <1>1, <1>2 DEF Removed, Inserted
<1>4. MainHas
  BY <1>2 DEF MainHas, BringLabels
<1>5. WorkersHave /\ ServedByOne
  BY <1>1 DEF WorkersHave, ServedByOne, Taken, HeldLabels
<1>6. WaitingIntact
  BY <1>3 DEF WaitingIntact
<1> QED BY <1>4, <1>5, <1>6 DEF ConnInv

(* A step of main() that only moves on, or that forgets the last descriptor. *)
LEMMA MainSilent ==
    ASSUME TypeOK, ConnInv, NEW from, NEW to, Goto(MainThread, from, to),
           from # "ins_addr", to # "ins_addr",
           from \in BringLabels <=> to \in BringLabels,
           UNCHANGED <<buf, front, rear, clientaddr, sock, wc>>,
           to \in BringLabels => connfd' = connfd
    PROVE  ConnInv'
<1>1. /\ pc[MainThread] = from /\ pc'[MainThread] = to
      /\ \A w \in Workers : pc'[w] = pc[w]
  BY GotoMain
<1>2. Inserted' = Inserted /\ Removed' = Removed
  BY <1>1 DEF Inserted, Removed
<1>3. MainHas'
  BY <1>1 DEF ConnInv, MainHas
<1>4. WorkersHave' /\ ServedByOne'
  BY <1>1, <1>2 DEF ConnInv, WorkersHave, ServedByOne, Taken
<1>5. WaitingIntact'
  BY <1>2 DEF ConnInv, WaitingIntact
<1> QED BY <1>3, <1>4, <1>5 DEF ConnInv

(* A step of a worker that only moves on, or that forgets its connection. *)
TakenLabels == {"rem_unlock", "rem_post", "idle_wait", "serve"}

LEMMA WorkerSilent ==
    ASSUME TypeOK, ConnInv, NEW w \in Workers, NEW from, NEW to, Goto(w, from, to),
           from # "rem_addr", to # "rem_addr",
           to \in TakenLabels => from \in TakenLabels,
           to \in HeldLabels => from \in HeldLabels,
           UNCHANGED <<buf, front, rear, connfd, clientaddr, sock>>,
           \/ wc' = wc
           \/ to = "rem_wait" /\ wc' = [wc EXCEPT ![w] = NoConn]
    PROVE  ConnInv'
<1>1. /\ pc[w] = from /\ pc'[w] = to /\ pc'[MainThread] = pc[MainThread]
      /\ \A u \in Workers : u # w => pc'[u] = pc[u]
  BY GotoWorker
<1>2. Inserted' = Inserted /\ Removed' = Removed
  BY <1>1 DEF Inserted, Removed
<1>3. MainHas'
  BY <1>1 DEF ConnInv, MainHas
<1>4. \A u \in Workers : Taken(u)' => Taken(u) /\ wc'[u] = wc[u]
  BY <1>1 DEF TypeOK, Taken, TakenLabels
<1>5. \A u \in Workers : pc'[u] \in HeldLabels => pc[u] \in HeldLabels /\ wc'[u] = wc[u]
  BY <1>1 DEF TypeOK, HeldLabels
<1>6. \A u \in Workers : pc'[u] = "rem_addr" => pc[u] = "rem_addr" /\ wc'[u] = wc[u]
  BY <1>1 DEF TypeOK
<1>7. WorkersHave' /\ ServedByOne'
  BY <1>2, <1>4, <1>5, <1>6 DEF ConnInv, WorkersHave, ServedByOne
<1>8. WaitingIntact'
  BY <1>2 DEF ConnInv, WaitingIntact
<1> QED BY <1>3, <1>7, <1>8 DEF ConnInv

(***************************************************************************)
(* The steps that touch a connection.  accept() returns a descriptor that  *)
(* is closed, so it belongs to nobody.                                     *)
(***************************************************************************)
LEMMA AcceptConn == RingInv /\ Accept => ConnInv'
<1> SUFFICES ASSUME RingInv, Accept PROVE ConnInv'
  OBVIOUS
<1>0. TypeOK /\ RingCounts /\ ConnInv
  BY DEF RingInv
<1>1. PICK fd \in Fds : sock[fd] = 0 /\ connfd' = fd /\ sock' = [sock EXCEPT ![fd] = clientaddr + 1]
  BY DEF Accept
<1>2. /\ pc[MainThread] = "accept" /\ pc'[MainThread] = "ins_wait"
      /\ \A w \in Workers : pc'[w] = pc[w]
  BY <1>0, GotoMain DEF Accept
<1>3. UNCHANGED <<buf, front, rear, wc>> /\ clientaddr' = clientaddr + 1
  BY DEF Accept, sbuf
<1>4. Inserted' = Inserted /\ Removed' = Removed
  BY <1>2, <1>3 DEF Inserted, Removed
<1>5. sock \in [Fds -> ConnNos] /\ \A f \in Fds : f # fd => sock'[f] = sock[f]
  BY <1>0, <1>1 DEF TypeOK
<1>6. MainHas'
  <2>1. sock'[fd] = clientaddr'
    BY <1>1, <1>3, <1>5
  <2>2. clientaddr = rear
    BY <1>0, <1>2 DEF ConnInv, MainHas, BringLabels
  <2> QED BY <1>1, <1>2, <1>3, <2>1, <2>2 DEF MainHas, BringLabels
<1>7. \A w \in Workers : Taken(w) =>
        wc[w].connfd \in Fds /\ wc[w].connfd # fd /\ sock[wc[w].connfd] = wc[w].clientaddr
  BY <1>0, <1>1 DEF ConnInv, WorkersHave, ServedByOne
<1>8. WorkersHave' /\ ServedByOne'
  BY <1>0, <1>2, <1>3, <1>4, <1>5, <1>7 DEF ConnInv, WorkersHave, ServedByOne, Taken
<1>9. WaitingIntact'
  <2> SUFFICES ASSUME NEW k \in Removed + 1 .. Inserted
               PROVE  /\ buf[k % Slots].clientaddr = k
                      /\ buf[k % Slots].connfd \in Fds
                      /\ sock'[buf[k % Slots].connfd] = k
    BY <1>3, <1>4 DEF WaitingIntact
  <2>1. /\ buf[k % Slots].clientaddr = k
        /\ buf[k % Slots].connfd \in Fds
        /\ sock[buf[k % Slots].connfd] = k
    BY <1>0 DEF ConnInv, WaitingIntact
  <2>2. k > 0
    BY <1>0, EndsAreNat
  <2> QED BY <1>1, <1>5, <2>1, <2>2
<1> QED BY <1>6, <1>8, <1>9 DEF ConnInv

(* The slot behind rear is not one of a waiting connection. *)
LEMMA InsertFdConn ==
    ASSUME RingInv, InsertFd
    PROVE  /\ ConnInv' /\ Removed' = Removed /\ Inserted' = Inserted
           /\ \A k \in Removed + 1 .. Inserted : buf'[k % Slots] = buf[k % Slots]
<1> USE ThreadingAssumption
<1>0. TypeOK /\ MutexHandOff /\ RingCounts /\ ConnInv
  BY DEF RingInv
<1>1. /\ pc[MainThread] = "ins_fd" /\ pc'[MainThread] = "ins_addr"
      /\ \A w \in Workers : pc'[w] = pc[w]
  BY <1>0, GotoMain DEF InsertFd
<1>2. UNCHANGED <<front, connfd, clientaddr, sock, wc>> /\ rear' = rear + 1
  BY DEF InsertFd, conns
<1>3. \A w \in Workers : pc[w] # "rem_addr"
  BY <1>0, <1>1, MainIsThread, OneInside DEF HoldLabels
<1>4. Removed = front /\ Removed' = front /\ Inserted = rear /\ Inserted' = rear
  <2>1. front \in Nat /\ rear \in Nat
    BY <1>0 DEF TypeOK
  <2> QED BY <1>1, <1>2, <1>3, <2>1 DEF Removed, Inserted
<1>5. front \in Nat /\ rear \in Nat /\ rear - front < Slots /\ front <= rear
  BY <1>0, <1>1, RingBounds DEF TypeOK
<1>6. /\ (rear + 1) % Slots \in 0 .. Slots - 1
      /\ buf'[(rear + 1) % Slots].connfd = connfd
      /\ \A i \in 0 .. Slots - 1 : i # (rear + 1) % Slots => buf'[i] = buf[i]
  <2>1. (rear + 1) % Slots \in 0 .. Slots - 1
    BY <1>5, ModRange
  <2>2. buf \in [0 .. Slots - 1 -> Conn]
    BY <1>0 DEF TypeOK
  <2>3. buf' = [buf EXCEPT ![(rear + 1) % Slots].connfd = connfd]
    BY DEF InsertFd
  <2> DEFINE at == (rear + 1) % Slots
  <2> HIDE DEF at
  <2>4. at \in 0 .. Slots - 1 /\ buf' = [buf EXCEPT ![at].connfd = connfd]
    BY <2>1, <2>3 DEF at
  <2>5. buf'[at].connfd = connfd /\ \A i \in 0 .. Slots - 1 : i # at => buf'[i] = buf[i]
    BY <2>2, <2>4 DEF Conn
  <2> QED BY <2>1, <2>5 DEF at
<1>7. MainHas'
  BY <1>0, <1>1, <1>2, <1>6 DEF ConnInv, MainHas, BringLabels
<1>8. WorkersHave' /\ ServedByOne'
  BY <1>0, <1>1, <1>2, <1>3, <1>4 DEF ConnInv, WorkersHave, ServedByOne, Taken
<1>9. \A k \in Removed + 1 .. Inserted : buf'[k % Slots] = buf[k % Slots]
  <2> SUFFICES ASSUME NEW k \in front + 1 .. rear
               PROVE  buf'[k % Slots] = buf[k % Slots]
    BY <1>4
  <2>1. k \in Nat /\ rear + 1 \in Nat /\ k < rear + 1 /\ (rear + 1) - k < Slots
    BY <1>5
  <2>2. k % Slots # (rear + 1) % Slots /\ k % Slots \in 0 .. Slots - 1
    BY <2>1, SlotsApart, ModRange
  <2> QED BY <1>6, <2>2
<1>10. WaitingIntact'
  BY <1>0, <1>2, <1>4, <1>9 DEF ConnInv, WaitingIntact
<1> QED BY <1>4, <1>7, <1>8, <1>9, <1>10 DEF ConnInv

(* The connection is complete, and waits from now on. *)
LEMMA InsertAddrConn ==
    ASSUME RingInv, InsertAddr
    PROVE  /\ ConnInv' /\ connfd \in Fds
           /\ Removed' = Removed /\ Inserted' = Inserted + 1 /\ Inserted - Removed < Slots
           /\ buf'[Inserted' % Slots] = [connfd |-> connfd, clientaddr |-> Inserted']
           /\ \A k \in Removed + 1 .. Inserted : buf'[k % Slots] = buf[k % Slots]
<1> USE ThreadingAssumption
<1>0. TypeOK /\ MutexHandOff /\ RingCounts /\ ConnInv
  BY DEF RingInv
<1>1. /\ pc[MainThread] = "ins_addr" /\ pc'[MainThread] = "ins_unlock"
      /\ \A w \in Workers : pc'[w] = pc[w]
  BY <1>0, GotoMain DEF InsertAddr
<1>2. UNCHANGED <<front, rear, connfd, clientaddr, sock, wc>>
  BY DEF InsertAddr, conns
<1>3. \A w \in Workers : pc[w] # "rem_addr"
  BY <1>0, <1>1, MainIsThread, OneInside DEF HoldLabels
<1>4. front \in Nat /\ rear \in Nat /\ rear - front <= Slots /\ front < rear
  BY <1>0, <1>1, RingBounds DEF TypeOK
<1>5. Removed = front /\ Removed' = front /\ Inserted = rear - 1 /\ Inserted' = rear
  BY <1>1, <1>2, <1>3, <1>4 DEF Removed, Inserted
<1>6. /\ clientaddr = rear /\ connfd \in Fds /\ sock[connfd] = rear
      /\ buf[rear % Slots].connfd = connfd
  BY <1>0, <1>1 DEF ConnInv, MainHas, BringLabels
<1>7. /\ rear % Slots \in 0 .. Slots - 1
      /\ buf'[rear % Slots] = [connfd |-> connfd, clientaddr |-> rear]
      /\ \A i \in 0 .. Slots - 1 : i # rear % Slots => buf'[i] = buf[i]
  <2>1. rear % Slots \in 0 .. Slots - 1
    BY <1>4, ModRange
  <2>2. buf \in [0 .. Slots - 1 -> Conn]
    BY <1>0 DEF TypeOK
  <2>3. buf' = [buf EXCEPT ![rear % Slots].clientaddr = clientaddr]
    BY DEF InsertAddr
  <2> DEFINE at == rear % Slots
  <2> HIDE DEF at
  <2>4. /\ at \in 0 .. Slots - 1 /\ buf' = [buf EXCEPT ![at].clientaddr = rear]
        /\ buf[at].connfd = connfd
    BY <1>6, <2>1, <2>3 DEF at
  <2>5. \A i \in 0 .. Slots - 1 : i # at => buf'[i] = buf[i]
    BY <2>2, <2>4
  <2>6. buf'[at] = [connfd |-> connfd, clientaddr |-> rear]
    BY <2>2, <2>4 DEF Conn
  <2> QED BY <2>1, <2>5, <2>6 DEF at
<1>8. MainHas'
  BY <1>1, <1>2, <1>6 DEF MainHas, BringLabels
<1>9. WorkersHave' /\ ServedByOne'
  BY <1>0, <1>1, <1>2, <1>3, <1>5 DEF ConnInv, WorkersHave, ServedByOne, Taken
<1>10. \A k \in Removed + 1 .. Inserted : buf'[k % Slots] = buf[k % Slots]
  <2> SUFFICES ASSUME NEW k \in front + 1 .. rear - 1
               PROVE  buf'[k % Slots] = buf[k % Slots]
    BY <1>5
  <2>1. k \in Nat /\ k < rear /\ rear - k < Slots
    BY <1>4
  <2>2. k % Slots # rear % Slots /\ k % Slots \in 0 .. Slots - 1
    BY <1>4, <2>1, SlotsApart, ModRange
  <2> QED BY <1>7, <2>2
<1>11. WaitingIntact'
  <2> SUFFICES ASSUME NEW k \in front + 1 .. rear
               PROVE  /\ buf'[k % Slots].clientaddr = k
                      /\ buf'[k % Slots].connfd \in Fds
                      /\ sock[buf'[k % Slots].connfd] = k
    BY <1>2, <1>5 DEF WaitingIntact
  <2>1. CASE k = rear
    BY <1>6, <1>7, <2>1
  <2>2. CASE k < rear
    <3>1. k \in Removed + 1 .. Inserted
      BY <1>4, <1>5, <2>2
    <3> QED BY <1>0, <1>10, <3>1 DEF ConnInv, WaitingIntact
  <2> QED BY <1>4, <2>1, <2>2
<1>12. Inserted' = Inserted + 1 /\ Inserted - Removed < Slots
  BY <1>4, <1>5
<1> QED BY <1>5, <1>6, <1>7, <1>8, <1>9, <1>10, <1>11, <1>12 DEF ConnInv

(* The worker that moves front has the next slot for itself. *)
LEMMA RemoveFdConn ==
    ASSUME RingInv, NEW w \in Workers, RemoveFd(w)
    PROVE  ConnInv' /\ Removed' = Removed /\ Inserted' = Inserted
<1>0. TypeOK /\ MutexHandOff /\ RingCounts /\ ConnInv
  BY DEF RingInv
<1>1. /\ pc[w] = "rem_fd" /\ pc'[w] = "rem_addr" /\ pc'[MainThread] = pc[MainThread]
      /\ \A u \in Workers : u # w => pc'[u] = pc[u]
  BY <1>0, GotoWorker DEF RemoveFd
<1>2. UNCHANGED <<buf, rear, connfd, clientaddr, sock>> /\ front' = front + 1
  BY DEF RemoveFd, conns
<1>3. pc[MainThread] # "ins_addr" /\ \A u \in Workers : pc[u] # "rem_addr"
  BY <1>0, <1>1, MainIsThread, OneInside DEF HoldLabels
<1>4. front \in Nat
  BY <1>0 DEF TypeOK
<1>5. Removed = front /\ Removed' = front /\ Inserted = rear /\ Inserted' = rear
  BY <1>1, <1>2, <1>3, <1>4 DEF Removed, Inserted
<1>6. /\ wc'[w].connfd = buf[(front + 1) % Slots].connfd
      /\ \A u \in Workers : u # w => wc'[u] = wc[u]
  BY <1>0 DEF RemoveFd, TypeOK, Conn
<1>7. MainHas'
  BY <1>0, <1>1, <1>2 DEF ConnInv, MainHas
<1>8. \A u \in Workers : pc'[u] \in HeldLabels \cup TakenLabels => u # w /\ pc'[u] = pc[u] /\ wc'[u] = wc[u]
  BY <1>1, <1>6 DEF HeldLabels, TakenLabels
<1>9. \A u \in Workers : pc'[u] = "rem_addr" => u = w
  BY <1>1, <1>3
<1>10. WorkersHave'
  <2>1. front' > 0 /\ wc'[w].connfd = buf'[front' % Slots].connfd
    BY <1>2, <1>4, <1>6
  <2> QED BY <1>0, <1>5, <1>8, <1>9, <2>1 DEF ConnInv, WorkersHave, Taken, TakenLabels
<1>11. ServedByOne'
  BY <1>0, <1>2, <1>8 DEF ConnInv, ServedByOne, Taken, TakenLabels
<1>12. WaitingIntact'
  BY <1>0, <1>2, <1>5 DEF ConnInv, WaitingIntact
<1> QED BY <1>5, <1>7, <1>10, <1>11, <1>12 DEF ConnInv

(* The connection leaves the buffer and belongs to the worker alone. *)
LEMMA RemoveAddrConn ==
    ASSUME RingInv, NEW w \in Workers, RemoveAddr(w)
    PROVE  /\ ConnInv' /\ Inserted' = Inserted
           /\ Removed' = Removed + 1 /\ front = Removed + 1 /\ Removed < Inserted
           /\ wc'[w] = buf[(Removed + 1) % Slots]
           /\ \A u \in Workers : u # w => wc'[u] = wc[u]
<1>0. TypeOK /\ MutexHandOff /\ RingCounts /\ ConnInv
  BY DEF RingInv
<1>1. /\ pc[w] = "rem_addr" /\ pc'[w] = "rem_unlock" /\ pc'[MainThread] = pc[MainThread]
      /\ \A u \in Workers : u # w => pc'[u] = pc[u]
  BY <1>0, GotoWorker DEF RemoveAddr
<1>2. UNCHANGED <<buf, front, rear, connfd, clientaddr, sock>>
  BY DEF RemoveAddr, conns, sbuf
<1>3. /\ pc[MainThread] # "ins_addr"
      /\ \A u \in Workers : u # w => pc[u] # "rem_addr"
  BY <1>0, <1>1, MainIsThread, OneInside DEF HoldLabels
<1>4. front \in Nat /\ rear \in Nat /\ front <= rear /\ front > 0
  BY <1>0, <1>1, RingBounds DEF TypeOK, ConnInv, WorkersHave
<1>5. /\ Removed = front - 1 /\ Removed' = front /\ Inserted = rear /\ Inserted' = rear
      /\ front = Removed + 1
  BY <1>1, <1>2, <1>3, <1>4 DEF Removed, Inserted
<1>6. /\ buf[front % Slots].clientaddr = front /\ buf[front % Slots].connfd \in Fds
      /\ sock[buf[front % Slots].connfd] = front
  <2>1. front \in Removed + 1 .. Inserted
    BY <1>4, <1>5
  <2> QED BY <1>0, <2>1 DEF ConnInv, WaitingIntact
<1>7. /\ wc'[w] = buf[front % Slots]
      /\ \A u \in Workers : u # w => wc'[u] = wc[u]
  <2>1. wc[w].connfd = buf[front % Slots].connfd
    BY <1>0, <1>1 DEF ConnInv, WorkersHave
  <2>2. wc \in [Workers -> Conn] /\ buf[front % Slots] \in Conn
    BY <1>0, <1>4, ModRange, ThreadingAssumption DEF TypeOK
  <2>3. wc' = [wc EXCEPT ![w].clientaddr = buf[front % Slots].clientaddr]
    BY DEF RemoveAddr
  <2> DEFINE c == buf[front % Slots]
  <2> HIDE DEF c
  <2>4. wc' = [wc EXCEPT ![w].clientaddr = c.clientaddr] /\ wc[w].connfd = c.connfd /\ c \in Conn
    BY <2>1, <2>2, <2>3 DEF c
  <2>5. wc'[w] = c /\ \A u \in Workers : u # w => wc'[u] = wc[u]
    BY <2>2, <2>4 DEF Conn
  <2> QED BY <2>5 DEF c
<1>8. MainHas'
  BY <1>0, <1>1, <1>2 DEF ConnInv, MainHas
<1>9. \A u \in Workers : u # w /\ pc'[u] \in HeldLabels \cup TakenLabels => pc'[u] = pc[u] /\ wc'[u] = wc[u]
  BY <1>1, <1>7
<1>10. \A u \in Workers : u # w /\ Taken(u) =>
        /\ wc[u].clientaddr \in 1 .. front - 1 /\ wc[u].connfd \in Fds
        /\ sock[wc[u].connfd] = wc[u].clientaddr
  BY <1>0, <1>5 DEF ConnInv, WorkersHave, ServedByOne
<1>11. wc'[w].clientaddr = front /\ wc'[w].connfd \in Fds /\ sock[wc'[w].connfd] = front
  BY <1>6, <1>7
<1>12. WorkersHave'
  <2>1. \A u \in Workers : pc'[u] # "rem_addr"
    BY <1>1, <1>3
  <2>2. \A u \in Workers : pc'[u] \in HeldLabels => wc'[u].connfd \in Fds
    BY <1>0, <1>9, <1>11 DEF ConnInv, WorkersHave
  <2>3. \A u \in Workers : Taken(u)' => wc'[u].clientaddr \in 1 .. front
    BY <1>4, <1>9, <1>10, <1>11 DEF Taken, TakenLabels
  <2>4. \A u, v \in Workers : Taken(u)' /\ Taken(v)' /\ u # v =>
          wc'[u].clientaddr # wc'[v].clientaddr
    BY <1>0, <1>4, <1>9, <1>10, <1>11 DEF ConnInv, WorkersHave, Taken, TakenLabels
  <2> QED BY <1>5, <2>1, <2>2, <2>3, <2>4 DEF WorkersHave
<1>13. ServedByOne'
  <2>1. \A u \in Workers : Taken(u)' =>
          wc'[u].connfd \in Fds /\ sock'[wc'[u].connfd] = wc'[u].clientaddr
    BY <1>2, <1>9, <1>10, <1>11 DEF Taken, TakenLabels
  <2>2. \A u, v \in Workers : Taken(u)' /\ Taken(v)' /\ u # v => wc'[u].connfd # wc'[v].connfd
    BY <1>12, <2>1 DEF WorkersHave
  <2> QED BY <2>1, <2>2 DEF ServedByOne
<1>14. WaitingIntact'
  <2>1. \A k \in front + 1 .. rear : k \in Removed + 1 .. Inserted
    BY <1>4, <1>5
  <2> QED BY <1>0, <1>2, <1>5, <2>1 DEF ConnInv, WaitingIntact
<1> QED BY <1>4, <1>5, <1>7, <1>8, <1>12, <1>13, <1>14 DEF ConnInv

(* socket_close() ends one connection: the one of the worker itself. *)
LEMMA ServiceCloseConn ==
    ASSUME RingInv, NEW w \in Workers, ServiceClose(w)
    PROVE  ConnInv'
<1>0. TypeOK /\ MutexHandOff /\ RingCounts /\ ConnInv
  BY DEF RingInv
<1>1. /\ pc[w] = "serve" /\ pc'[w] = "idle_post" /\ pc'[MainThread] = pc[MainThread]
      /\ \A u \in Workers : u # w => pc'[u] = pc[u]
  BY <1>0, GotoWorker DEF ServiceClose
<1>2. UNCHANGED <<buf, front, rear, connfd, clientaddr, wc>>
  BY DEF ServiceClose, sbuf
<1>3. Inserted' = Inserted /\ Removed' = Removed
  BY <1>1, <1>2 DEF Inserted, Removed
<1> DEFINE fd == wc[w].connfd
<1>4. /\ fd \in Fds /\ sock[fd] = wc[w].clientaddr
      /\ wc[w].clientaddr \in 1 .. Removed
  BY <1>0, <1>1 DEF ConnInv, WorkersHave, ServedByOne, Taken
<1>5. \A f \in Fds : f # fd => sock'[f] = sock[f]
  BY <1>0, <1>4 DEF ServiceClose, TypeOK
<1>6. /\ Removed \in Nat /\ Inserted \in Nat /\ Inserted <= rear
      /\ rear \in Nat /\ front \in Nat /\ front <= rear /\ Removed <= front
  BY <1>0, EndsAreNat, RingBounds DEF TypeOK
<1> HIDE DEF fd
<1>7. MainHas'
  <2>1. pc[MainThread] \in BringLabels \cup {"ins_addr"} => connfd # fd
    <3>1. CASE pc[MainThread] \in BringLabels
      <4>1. connfd \in Fds /\ sock[connfd] = rear + 1
        BY <1>0, <3>1 DEF ConnInv, MainHas
      <4> QED BY <1>4, <1>6, <4>1
    <3>2. CASE pc[MainThread] = "ins_addr"
      <4>1. connfd \in Fds /\ sock[connfd] = rear
        BY <1>0, <3>2 DEF ConnInv, MainHas, BringLabels
      <4>2. front < rear
        BY <1>0, <3>2, RingBounds
      <4> QED BY <1>4, <1>6, <4>1, <4>2
    <3> QED BY <3>1, <3>2
  <2> QED BY <1>0, <1>1, <1>2, <1>5, <2>1 DEF ConnInv, MainHas
<1>8. \A u \in Workers : Taken(u)' => Taken(u) /\ u # w
  BY <1>1 DEF Taken
<1>9. \A u \in Workers : Taken(u) /\ u # w => wc[u].connfd # fd
  BY <1>0, <1>1 DEF ConnInv, ServedByOne, Taken, fd
<1>10. WorkersHave'
  <2>1. \A u \in Workers : pc'[u] = "rem_addr" => pc[u] = "rem_addr"
    BY <1>1
  <2>2. \A u \in Workers : pc'[u] \in HeldLabels => pc[u] \in HeldLabels
    BY <1>1 DEF HeldLabels
  <2> QED BY <1>0, <1>2, <1>3, <1>8, <2>1, <2>2 DEF ConnInv, WorkersHave
<1>11. ServedByOne'
  BY <1>0, <1>2, <1>5, <1>8, <1>9 DEF ConnInv, ServedByOne
<1>12. WaitingIntact'
  <2> SUFFICES ASSUME NEW k \in Removed + 1 .. Inserted
               PROVE  /\ buf[k % Slots].clientaddr = k /\ buf[k % Slots].connfd \in Fds
                      /\ sock'[buf[k % Slots].connfd] = k
    BY <1>2, <1>3 DEF WaitingIntact
  <2>1. /\ buf[k % Slots].clientaddr = k /\ buf[k % Slots].connfd \in Fds
        /\ sock[buf[k % Slots].connfd] = k
    BY <1>0 DEF ConnInv, WaitingIntact
  <2>2. sock[fd] # k
    BY <1>4, <1>6
  <2> QED BY <1>5, <2>1, <2>2
<1> QED BY <1>7, <1>10, <1>11, <1>12 DEF ConnInv

(***************************************************************************)
(* The other steps leave ring, sockets and connections alone.              *)
(***************************************************************************)
MainMoves ==
    AcceptError \/ InsertWait \/ InsertLock \/ InsertUnlock \/ InsertPost

WorkerMoves(w) ==
    \/ RemoveWait(w) \/ RemoveLock(w) \/ RemoveUnlock(w) \/ RemovePost(w)
    \/ SyncStep(w) \/ ServiceModify(w)

LEMMA MainMovesConn == TypeOK /\ ConnInv /\ MainMoves => ConnInv'
<1> SUFFICES ASSUME TypeOK, ConnInv, MainMoves PROVE ConnInv'
  OBVIOUS
<1>1. UNCHANGED <<buf, front, rear, clientaddr, sock, wc>>
  BY DEF MainMoves, AcceptError, InsertWait, InsertLock, InsertUnlock, InsertPost, sbuf, conns
<1>2. CASE AcceptError
  <2>1. Goto(MainThread, "accept", "accept")
    BY <1>2 DEF AcceptError
  <2> QED BY <1>1, <2>1, MainSilent DEF BringLabels
<1>3. CASE InsertWait
  <2>1. Goto(MainThread, "ins_wait", "ins_lock") /\ connfd' = connfd
    BY <1>3 DEF InsertWait, conns
  <2> QED BY <1>1, <2>1, MainSilent DEF BringLabels
<1>4. CASE InsertLock
  <2>1. Goto(MainThread, "ins_lock", "ins_fd") /\ connfd' = connfd
    BY <1>4 DEF InsertLock, conns
  <2> QED BY <1>1, <2>1, MainSilent DEF BringLabels
<1>5. CASE InsertUnlock
  <2>1. Goto(MainThread, "ins_unlock", "ins_post")
    BY <1>5 DEF InsertUnlock
  <2> QED BY <1>1, <2>1, MainSilent DEF BringLabels
<1>6. CASE InsertPost
  <2>1. Goto(MainThread, "ins_post", "accept")
    BY <1>6 DEF InsertPost
  <2> QED BY <1>1, <2>1, MainSilent DEF BringLabels
<1> QED BY <1>2, <1>3, <1>4, <1>5, <1>6 DEF MainMoves

LEMMA WorkerMovesConn ==
    ASSUME TypeOK, ConnInv, NEW w \in Workers, WorkerMoves(w)
    PROVE  ConnInv'
<1>1. UNCHANGED <<buf, front, rear, connfd, clientaddr, sock>>
  BY DEF WorkerMoves, RemoveWait, RemoveLock, RemoveUnlock, RemovePost, SyncStep,
         IdleWait, IdlePost, GetValue, SyncLock, Kill, ServiceModify, sbuf, conns
<1>2. CASE RemoveWait(w) \/ RemoveLock(w)
  <2>1. wc' = wc /\ (Goto(w, "rem_wait", "rem_lock") \/ Goto(w, "rem_lock", "rem_fd"))
    BY <1>2 DEF RemoveWait, RemoveLock
  <2> QED BY <1>1, <2>1, WorkerSilent DEF HeldLabels, TakenLabels
<1>3. CASE RemoveUnlock(w) \/ RemovePost(w)
  <2>1. wc' = wc /\ (Goto(w, "rem_unlock", "rem_post") \/ Goto(w, "rem_post", "idle_wait"))
    BY <1>3 DEF RemoveUnlock, RemovePost
  <2> QED BY <1>1, <2>1, WorkerSilent DEF HeldLabels, TakenLabels
<1>4. CASE IdleWait(w) \/ ServiceModify(w)
  <2>1. wc' = wc /\ (Goto(w, "idle_wait", "serve") \/ Goto(w, "serve", "serve"))
    BY <1>4 DEF IdleWait, ServiceModify
  <2> QED BY <1>1, <2>1, WorkerSilent DEF HeldLabels, TakenLabels
<1>5. CASE IdlePost(w) \/ SyncLock(w)
  <2>1. wc' = wc /\ (Goto(w, "idle_post", "getvalue") \/ Goto(w, "sync_lock", "kill"))
    BY <1>5 DEF IdlePost, SyncLock
  <2> QED BY <1>1, <2>1, WorkerSilent DEF HeldLabels, TakenLabels
<1>6. CASE GetValue(w)
  <2>1. \/ wc' = wc /\ Goto(w, "getvalue", "sync_lock")
        \/ wc' = [wc EXCEPT ![w] = NoConn] /\ Goto(w, "getvalue", "rem_wait")
    BY <1>6 DEF GetValue
  <2> QED BY <1>1, <2>1, WorkerSilent DEF HeldLabels, TakenLabels
<1>7. CASE Kill(w)
  <2>1. wc' = [wc EXCEPT ![w] = NoConn] /\ Goto(w, "kill", "rem_wait")
    BY <1>7 DEF Kill
  <2> QED BY <1>1, <2>1, WorkerSilent DEF HeldLabels, TakenLabels
<1> QED BY <1>2, <1>3, <1>4, <1>5, <1>6, <1>7 DEF WorkerMoves, SyncStep

RingVars == <<pc, buf, front, rear, connfd, clientaddr, sock, wc>>

LEMMA HandlerLeaves ==
    (\E t \in Threads : HandlerStep(t)) \/ UNCHANGED vars => UNCHANGED RingVars
BY DEF HandlerStep, Deliver, HandlerPrint, HandlerWrite, HandlerPost, RingVars, sbuf, conns,
       vars

LEMMA ConnNext == RingInv /\ [Next]_vars => ConnInv'
<1> SUFFICES ASSUME RingInv, [Next]_vars PROVE ConnInv'
  OBVIOUS
<1>0. TypeOK /\ ConnInv
  BY DEF RingInv
<1>1. CASE MainStep
  BY <1>0, <1>1, AcceptConn, InsertFdConn, InsertAddrConn, MainMovesConn DEF MainStep, MainMoves
<1>2. ASSUME NEW w \in Workers, WorkerStep(w) PROVE ConnInv'
  BY <1>0, <1>2, RemoveFdConn, RemoveAddrConn, ServiceCloseConn, WorkerMovesConn
     DEF WorkerStep, RemoveStep, WorkerMoves
<1>3. CASE UNCHANGED RingVars
  <2>1. Inserted' = Inserted /\ Removed' = Removed
    BY <1>3 DEF RingVars, Inserted, Removed
  <2> QED BY <1>0, <1>3, <2>1 DEF RingVars, ConnInv, MainHas, WorkersHave, WaitingIntact,
                                  ServedByOne, Taken
<1> QED BY <1>1, <1>2, <1>3, HandlerLeaves DEF Next

LEMMA RingInit == Init => RingInv
BY TypeInit, MutexInit, CountsInit, ConnInit DEF RingInv

LEMMA RingNext == RingInv /\ [Next]_vars => RingInv'
BY TypeNext, MutexNext, CountsNext, ConnNext DEF RingInv

LEMMA RingAlways == Spec => []RingInv
BY RingInit, RingNext, PTL DEF Spec

(***************************************************************************)
(* sbuf_insert never writes onto a connection that waits, and nobody       *)
(* closes the descriptor of one: front, rear and the two counting          *)
(* semaphores of threading.c keep the ring apart for every size of it.     *)
(***************************************************************************)
THEOREM WaitingSafe == Spec => []WaitingIntact
<1>1. RingInv => WaitingIntact
  BY DEF RingInv, ConnInv
<1> QED BY <1>1, RingAlways, PTL

(***************************************************************************)
(* A descriptor that sbuf_remove returned is the worker's own until the    *)
(* worker closes it: no interleaving hands a connection to two workers,    *)
(* although the kernel reuses descriptors.                                 *)
(***************************************************************************)
THEOREM ServedSafe == Spec => []ServedByOne
<1>1. RingInv => ServedByOne
  BY DEF RingInv, ConnInv
<1> QED BY <1>1, RingAlways, PTL

-----------------------------------------------------------------------------
(***************************************************************************)
(* Refinement.  What ConnQueue sees of a state of Threading: the queue     *)
(* changes when a connection is complete in the buffer (InsertAddr) or     *)
(* complete with a worker (RemoveAddr); everything else stutters, but for  *)
(* the end of the loop body, where the worker forgets its connection.      *)
(***************************************************************************)
Waiting == [i \in 1 .. Inserted - Removed |-> buf[(Removed + i) % Slots]]

BeforeLabels == {"rem_wait", "rem_lock", "rem_fd", "rem_addr"}

Holding == [w \in Workers |-> IF pc[w] \in BeforeLabels THEN NoConn ELSE wc[w]]

(* The queue of waiting connections does not change if its slots do not. *)
LEMMA WaitingSame ==
    ASSUME Inserted \in Nat, Removed \in Nat, Inserted' = Inserted, Removed' = Removed,
           \A k \in Removed + 1 .. Inserted : buf'[k % Slots] = buf[k % Slots]
    PROVE  Waiting' = Waiting
<1>1. \A i \in 1 .. Inserted - Removed : buf'[(Removed + i) % Slots] = buf[(Removed + i) % Slots]
  <2> TAKE i \in 1 .. Inserted - Removed
  <2>1. Removed + i \in Removed + 1 .. Inserted
    OBVIOUS
  <2> QED BY <2>1
<1> QED BY <1>1 DEF Waiting

LEMMA HoldingSame ==
    ASSUME \A w \in Workers : \/ pc[w] \in BeforeLabels /\ pc'[w] \in BeforeLabels
                              \/ /\ pc[w] \notin BeforeLabels /\ pc'[w] \notin BeforeLabels
                                 /\ wc'[w] = wc[w]
    PROVE  Holding' = Holding
BY DEF Holding

LEMMA WaitingIsSeq ==
    ASSUME TypeOK, Inserted \in Nat, Removed \in Nat, Removed <= Inserted
    PROVE  Waiting \in Seq(Conn) /\ Len(Waiting) = Inserted - Removed
<1>1. \A i \in 1 .. Inserted - Removed : buf[(Removed + i) % Slots] \in Conn
  <2> TAKE i \in 1 .. Inserted - Removed
  <2>1. (Removed + i) % Slots \in 0 .. Slots - 1
    BY ModRange, ThreadingAssumption
  <2> QED BY <2>1 DEF TypeOK
<1>2. Waiting \in [1 .. Inserted - Removed -> Conn] /\ Inserted - Removed \in Nat
  BY <1>1 DEF Waiting
<1>3. Waiting \in Seq(Conn)
  BY <1>2
<1> QED BY <1>2, <1>3

LEMMA QueueInit == Init => Queue!Init
<1> SUFFICES ASSUME Init PROVE Queue!Init
  OBVIOUS
<1>1. \A w \in Workers : pc[w] = "rem_wait"
  BY MainIsThread DEF Init
<1>2. pc[MainThread] = "accept" /\ front = 0 /\ rear = 0
  BY MainIsThread DEF Init
<1>3. Removed = 0 /\ Inserted = 0
  BY <1>1, <1>2 DEF Removed, Inserted
<1> QED BY <1>1, <1>3 DEF Queue!Init, Queue!Nothing, NoConn

LEMMA PutStep ==
    ASSUME RingInv, InsertAddr
    PROVE  \E fd \in Fds : Queue!Put(fd)
<1>0. TypeOK /\ RingCounts /\ ConnInv
  BY DEF RingInv
<1>1. /\ connfd \in Fds /\ Removed' = Removed /\ Inserted' = Inserted + 1
      /\ Inserted - Removed < Slots
      /\ buf'[Inserted' % Slots] = [connfd |-> connfd, clientaddr |-> Inserted']
      /\ \A k \in Removed + 1 .. Inserted : buf'[k % Slots] = buf[k % Slots]
  BY InsertAddrConn
<1>2. pc[MainThread] = "ins_addr" /\ \A w \in Workers : pc'[w] = pc[w]
  BY <1>0, GotoMain DEF InsertAddr
<1>3. wc' = wc
  BY DEF InsertAddr
<1>4. Inserted \in Nat /\ Removed \in Nat /\ Removed <= Inserted
  <2>1. front < rear /\ rear \in Nat /\ front \in Nat
    BY <1>0, <1>2, RingBounds DEF TypeOK
  <2>2. Inserted = rear - 1 /\ Removed \in Nat /\ Removed <= front
    BY <1>0, <1>2, EndsAreNat DEF Inserted
  <2> QED BY <2>1, <2>2
<1>5. Holding' = Holding
  BY <1>2, <1>3, HoldingSame
<1>6. Waiting \in Seq(Conn) /\ Len(Waiting) = Inserted - Removed
  BY <1>0, <1>4, WaitingIsSeq
<1> DEFINE c == [connfd |-> connfd, clientaddr |-> Inserted + 1]
           m == Inserted - Removed
<1>7. Waiting' = Append(Waiting, c)
  <2>1. Append(Waiting, c) = [i \in 1 .. m + 1 |-> IF i = m + 1 THEN c ELSE Waiting[i]]
    BY <1>4, <1>6
  <2>2. Waiting' = [i \in 1 .. m + 1 |-> buf'[(Removed + i) % Slots]]
    <3>1. Inserted' - Removed' = m + 1
      BY <1>1, <1>4
    <3> QED BY <1>1, <3>1 DEF Waiting
  <2>3. ASSUME NEW i \in 1 .. m + 1
        PROVE  buf'[(Removed + i) % Slots] = IF i = m + 1 THEN c ELSE Waiting[i]
    <3>1. CASE i = m + 1
      <4>1. Removed + i = Inserted + 1
        BY <1>4, <3>1
      <4> QED BY <1>1, <3>1, <4>1
    <3>2. CASE i # m + 1
      <4>1. Removed + i \in Removed + 1 .. Inserted /\ i \in 1 .. m
        BY <1>4, <3>2
      <4> QED BY <1>1, <3>2, <4>1 DEF Waiting
    <3> QED BY <3>1, <3>2
  <2> QED BY <2>1, <2>2, <2>3
<1>8. Queue!Put(connfd)
  BY <1>1, <1>4, <1>5, <1>6, <1>7 DEF Queue!Put, Waiting, Holding, BeforeLabels
<1> QED BY <1>1, <1>8 DEF Queue!Put

LEMMA TakeStep ==
    ASSUME RingInv, NEW w \in Workers, RemoveAddr(w)
    PROVE  Queue!Take(w)
<1>0. TypeOK /\ RingCounts /\ ConnInv
  BY DEF RingInv
<1>1. /\ Inserted' = Inserted /\ Removed' = Removed + 1 /\ Removed < Inserted
      /\ wc'[w] = buf[(Removed + 1) % Slots]
      /\ \A u \in Workers : u # w => wc'[u] = wc[u]
  BY RemoveAddrConn
<1>2. /\ pc[w] = "rem_addr" /\ pc'[w] = "rem_unlock"
      /\ \A u \in Workers : u # w => pc'[u] = pc[u]
  BY <1>0, GotoWorker DEF RemoveAddr
<1>3. buf' = buf
  BY DEF RemoveAddr, sbuf
<1>4. Inserted \in Nat /\ Removed \in Nat
  BY <1>0, EndsAreNat
<1>5. Waiting \in Seq(Conn) /\ Len(Waiting) = Inserted - Removed /\ Waiting # <<>>
  BY <1>0, <1>1, <1>4, WaitingIsSeq
<1> DEFINE m == Inserted - Removed
<1>6. Head(Waiting) = wc'[w]
  BY <1>1, <1>4, <1>5 DEF Waiting
<1>7. Waiting' = Tail(Waiting)
  <2>1. Tail(Waiting) = [i \in 1 .. m - 1 |-> Waiting[i + 1]]
    <3>1. /\ Tail(Waiting) \in Seq(Conn) /\ Len(Tail(Waiting)) = m - 1
          /\ \A i \in 1 .. Len(Tail(Waiting)) : Tail(Waiting)[i] = Waiting[i + 1]
      BY <1>5, HeadTailProperties
    <3>2. Tail(Waiting) \in [1 .. m - 1 -> Conn]
      BY <3>1, LenProperties
    <3> QED BY <3>1, <3>2
  <2>2. Waiting' = [i \in 1 .. m - 1 |-> buf[(Removed + 1 + i) % Slots]]
    <3>1. Inserted' - Removed' = m - 1
      BY <1>1, <1>4
    <3> QED BY <1>1, <1>3, <3>1 DEF Waiting
  <2>3. ASSUME NEW i \in 1 .. m - 1
        PROVE  buf[(Removed + 1 + i) % Slots] = Waiting[i + 1]
    <3>1. i + 1 \in 1 .. m /\ Removed + (i + 1) = Removed + 1 + i
      BY <1>4
    <3> QED BY <3>1 DEF Waiting
  <2> QED BY <2>1, <2>2, <2>3
<1>8. Holding[w] = NoConn /\ Holding' = [Holding EXCEPT ![w] = wc'[w]]
  BY <1>1, <1>2 DEF Holding, BeforeLabels
<1> QED BY <1>1, <1>5, <1>6, <1>7, <1>8
        DEF Queue!Take, Queue!Nothing, NoConn, Waiting, Holding, BeforeLabels

(* The end of the loop body of network_worker, with or without a kill(). *)
LEMMA FinishStep ==
    ASSUME RingInv, NEW w \in Workers, NEW from \in {"getvalue", "kill"},
           Goto(w, from, "rem_wait"), wc' = [wc EXCEPT ![w] = NoConn],
           UNCHANGED <<buf, front, rear>>
    PROVE  Queue!Finish(w)
<1>0. TypeOK /\ RingCounts /\ ConnInv
  BY DEF RingInv
<1>1. /\ pc[w] = from /\ pc'[w] = "rem_wait" /\ pc'[MainThread] = pc[MainThread]
      /\ \A u \in Workers : u # w => pc'[u] = pc[u]
  BY <1>0, GotoWorker
<1>2. wc'[w] = NoConn /\ \A u \in Workers : u # w => wc'[u] = wc[u]
  BY <1>0 DEF TypeOK
<1>3. Inserted' = Inserted /\ Removed' = Removed
  BY <1>1 DEF Inserted, Removed
<1>4. Waiting' = Waiting
  BY <1>3 DEF Waiting
<1>5. Holding[w] = wc[w] /\ Holding' = [Holding EXCEPT ![w] = NoConn]
  BY <1>1, <1>2 DEF Holding, BeforeLabels
<1>6. wc[w].connfd \in Fds
  BY <1>0, <1>1 DEF ConnInv, WorkersHave, HeldLabels
<1>7. Holding[w] # NoConn
  BY <1>5, <1>6, ThreadingAssumption DEF NoConn
<1> QED BY <1>3, <1>4, <1>5, <1>7
        DEF Queue!Finish, Queue!Nothing, NoConn, Waiting, Holding, BeforeLabels

(* A worker that neither takes nor forgets a connection. *)
LEMMA WorkerStutters ==
    ASSUME RingInv, NEW w \in Workers, NEW from, NEW to, Goto(w, from, to),
           from # "rem_addr", to # "rem_addr", from \in BeforeLabels <=> to \in BeforeLabels,
           UNCHANGED <<buf, front, rear, wc>>
    PROVE  UNCHANGED <<Waiting, Inserted, Holding>>
<1>1. /\ pc[w] = from /\ pc'[w] = to /\ pc'[MainThread] = pc[MainThread]
      /\ \A u \in Workers : u # w => pc'[u] = pc[u]
  BY GotoWorker DEF RingInv
<1>2. Inserted' = Inserted /\ Removed' = Removed
  BY <1>1 DEF Inserted, Removed
<1>3. Holding' = Holding
  BY <1>1, HoldingSame
<1> QED BY <1>2, <1>3 DEF Waiting

QueueStep ==
    \/ \E fd \in Fds : Queue!Put(fd)
    \/ \E w \in Workers : Queue!Take(w) \/ Queue!Finish(w)
    \/ UNCHANGED <<Waiting, Inserted, Holding>>

LEMMA QueueMain == RingInv /\ MainStep => QueueStep
<1> SUFFICES ASSUME RingInv, MainStep PROVE QueueStep
  OBVIOUS
<1>0. TypeOK /\ RingCounts /\ ConnInv
  BY DEF RingInv
<1>1. CASE InsertAddr
  BY <1>1, PutStep DEF QueueStep
<1>2. CASE InsertFd
  <2>1. /\ Removed' = Removed /\ Inserted' = Inserted
        /\ \A k \in Removed + 1 .. Inserted : buf'[k % Slots] = buf[k % Slots]
    BY <1>2, InsertFdConn
  <2>2. Waiting' = Waiting
    BY <1>0, <2>1, EndsAreNat, WaitingSame
  <2>3. wc' = wc /\ \A w \in Workers : pc'[w] = pc[w]
    BY <1>0, <1>2, GotoMain DEF InsertFd
  <2>4. Holding' = Holding
    BY <2>3, HoldingSame
  <2> QED BY <2>1, <2>2, <2>4 DEF QueueStep
<1>3. CASE Accept \/ MainMoves
  <2>1. UNCHANGED <<buf, front, rear, wc>>
    BY <1>3 DEF Accept, MainMoves, AcceptError, InsertWait, InsertLock, InsertUnlock,
                InsertPost, sbuf
  <2>2. \E from, to : Goto(MainThread, from, to) /\ from # "ins_addr" /\ to # "ins_addr"
    BY <1>3 DEF Accept, MainMoves, AcceptError, InsertWait, InsertLock, InsertUnlock,
                InsertPost
  <2>3. /\ pc[MainThread] # "ins_addr" /\ pc'[MainThread] # "ins_addr"
        /\ \A w \in Workers : pc'[w] = pc[w]
    BY <1>0, <2>2, GotoMain
  <2>4. Inserted' = Inserted /\ Removed' = Removed
    BY <2>1, <2>3 DEF Inserted, Removed
  <2>5. Waiting' = Waiting /\ Holding' = Holding
    BY <2>1, <2>3, <2>4, HoldingSame DEF Waiting
  <2> QED BY <2>4, <2>5 DEF QueueStep
<1> QED BY <1>1, <1>2, <1>3 DEF MainStep, MainMoves

LEMMA QueueWorker ==
    ASSUME RingInv, NEW w \in Workers, WorkerStep(w)
    PROVE  QueueStep
<1>1. CASE RemoveAddr(w)
  BY <1>1, TakeStep DEF QueueStep
<1>2. CASE RemoveFd(w)
  <2>1. Removed' = Removed /\ Inserted' = Inserted
    BY <1>2, RemoveFdConn
  <2>2. /\ pc[w] = "rem_fd" /\ pc'[w] = "rem_addr" /\ buf' = buf
        /\ \A u \in Workers : u # w => pc'[u] = pc[u] /\ wc'[u] = wc[u]
    BY <1>2, GotoWorker DEF RingInv, RemoveFd, TypeOK
  <2>3. Waiting' = Waiting /\ Holding' = Holding
    BY <2>1, <2>2, HoldingSame DEF Waiting, BeforeLabels
  <2> QED BY <2>1, <2>3 DEF QueueStep
<1>3. CASE GetValue(w)
  <2>1. UNCHANGED <<buf, front, rear>>
    BY <1>3 DEF GetValue, sbuf
  <2>2. CASE Goto(w, "getvalue", "sync_lock") /\ wc' = wc
    BY <2>1, <2>2, WorkerStutters DEF QueueStep, BeforeLabels
  <2>3. CASE Goto(w, "getvalue", "rem_wait") /\ wc' = [wc EXCEPT ![w] = NoConn]
    BY <2>1, <2>3, FinishStep DEF QueueStep
  <2> QED BY <1>3, <2>2, <2>3 DEF GetValue
<1>4. CASE Kill(w)
  BY <1>4, FinishStep DEF Kill, QueueStep, sbuf
<1>5. CASE \/ RemoveWait(w) \/ RemoveLock(w) \/ RemoveUnlock(w) \/ RemovePost(w)
           \/ IdleWait(w) \/ IdlePost(w) \/ SyncLock(w) \/ ServiceModify(w) \/ ServiceClose(w)
  <2>1. UNCHANGED <<buf, front, rear, wc>>
    BY <1>5 DEF RemoveWait, RemoveLock, RemoveUnlock, RemovePost, IdleWait, IdlePost,
                SyncLock, ServiceModify, ServiceClose, sbuf
  <2>2. \E from, to : /\ Goto(w, from, to) /\ from # "rem_addr" /\ to # "rem_addr"
                      /\ from \in BeforeLabels <=> to \in BeforeLabels
    BY <1>5 DEF RemoveWait, RemoveLock, RemoveUnlock, RemovePost, IdleWait, IdlePost,
                SyncLock, ServiceModify, ServiceClose, BeforeLabels
  <2> QED BY <2>1, <2>2, WorkerStutters DEF QueueStep
<1> QED BY <1>1, <1>2, <1>3, <1>4, <1>5 DEF WorkerStep, RemoveStep, SyncStep

LEMMA QueueNext == RingInv /\ [Next]_vars => QueueStep
<1> SUFFICES ASSUME RingInv, [Next]_vars PROVE QueueStep
  OBVIOUS
<1>1. CASE UNCHANGED RingVars
  BY <1>1 DEF RingVars, QueueStep, Waiting, Holding, Inserted, Removed
<1> QED BY <1>1, QueueMain, QueueWorker, HandlerLeaves DEF Next

(***************************************************************************)
(* The bounded buffer of threading.c implements ConnQueue: each insertion  *)
(* and each removal, though spread over several statements and             *)
(* interleaved with the others, appears at one instant, in order of        *)
(* acceptance, with descriptor and address together.                       *)
(***************************************************************************)
THEOREM SbufIsQueue == Spec => IsQueue
<1>1. QueueStep => [Queue!Next]_<<Waiting, Inserted, Holding>>
  BY DEF QueueStep, Queue!Next
<1>2. RingInv /\ [Next]_vars => [Queue!Next]_<<Waiting, Inserted, Holding>>
  BY <1>1, QueueNext
<1> QED BY <1>2, QueueInit, RingAlways, PTL
        DEF Spec, IsQueue, Queue!Spec, Waiting, Holding, BeforeLabels

=============================================================================
