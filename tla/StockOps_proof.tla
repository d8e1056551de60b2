--------------------------- MODULE StockOps_proof ---------------------------
(***************************************************************************)
(* Proofs about the commands of the thread based server, for every number  *)
(* of workers, every stock tree and every width of int: the counters       *)
(* reader_n and writer_n are exact, and no sell or buy is lost.            *)
(***************************************************************************)
EXTENDS StockOps, FiniteSetTheorems, TLAPS

(* The arithmetic of modify(): what the build computes for an int is an int. *)
LEMMA WrapInt32 == \A x \in Int : Wrap(x) \in Int32
<1> SUFFICES ASSUME NEW x \in Int PROVE Wrap(x) \in Int32
  OBVIOUS
<1> DEFINE b == 2 * (IntMax + 1)
           r == (x + IntMax + 1) % b
<1>1. b \in Nat \ {0} /\ IntMax \in Nat /\ b = 2 * (IntMax + 1)
  BY StockCommandsAssumption
<1>2. Wrap(x) = r - (IntMax + 1)
  BY DEF Wrap
<1>3. r \in 0 .. b - 1
  <2> HIDE DEF b
  <2> QED BY <1>1
<1> HIDE DEF b, r
<1> QED BY <1>1, <1>2, <1>3 DEF Int32

(* What a sell or a buy makes of a number. *)
LEMMA MovedInt32 ==
    ASSUME NEW k \in Int32, NEW c \in Lines PROVE Moved(k, c) \in Int32
<1>1. Amounts \subseteq Int32 /\ Int32 \subseteq Int
  BY StockCommandsAssumption DEF Int32
<1>2. c.n \in Int /\ k \in Int
  <2>1. \A op : NoArgs(op).n = 0
    BY DEF NoArgs
  <2>2. CASE c \in IntInt
    <3>1. c.n \in Amounts
      BY <2>2 DEF IntInt
    <3> QED BY <1>1, <3>1
  <2>3. CASE c \notin IntInt
    <3>1. \E op : c = NoArgs(op)
      BY <2>3 DEF Lines, Commands, Show
    <3>2. c.n = 0
      BY <2>1, <3>1
    <3> QED BY <1>1, <3>2
  <2> QED BY <2>2, <2>3
<1>3. Delta(c) \in Int
  <2>1. -c.n \in Int
    BY <1>2
  <2>2. Wrap(-c.n) \in Int
    BY <1>1, <2>1, WrapInt32
  <2> QED BY <1>2, <2>2 DEF Delta
<1> QED BY <1>2, <1>3, WrapInt32 DEF Moved

(***************************************************************************)
(* What a semaphore m that starts with 1 gives to the workers C that have  *)
(* waited for it and not posted it yet: there is at most one, and what it  *)
(* loaded into tm is still the value v of the variable that m guards.      *)
(***************************************************************************)
Guarded(m, v, tm, C) ==
    /\ m \in {0, 1}
    /\ m = 1 <=> C = {}
    /\ \A u, w \in C : u = w
    /\ \A w \in C : tm[w] = v

(* The workers between the load and the store of a counter, or of node i. *)
AtReader == {w \in Workers : pc[w] \in {"show_entered", "show_left"}}
AtWriter == {w \in Workers : pc[w] \in {"mod_entered", "mod_left"}}
AtNode(i) == {w \in Workers : pc[w] = "mod_store" /\ cmd[w].id = i}

ReadLabels == {"show_print", "show_leave", "show_left"}
WriteLabels == {"mod_spin", "mod_check", "mod_wait", "mod_store", "mod_leave", "mod_left"}

Readers == {w \in Workers : pc[w] \in ReadLabels}
Writers == {w \in Workers : pc[w] \in WriteLabels}

(***************************************************************************)
(* The inductive invariant.  Nothing is assumed of the labels outside      *)
(* show() and modify(), so that it can be used of any server around them.  *)
(***************************************************************************)
WorkersRun ==
    /\ pc = [t \in DOMAIN pc |-> pc[t]] /\ Workers \subseteq DOMAIN pc
    /\ cmd \in [Workers -> Lines]
    /\ tmp \in [Workers -> Int32 \cup 0 .. Cardinality(Workers)]

(* A worker is in the code of its own command, with a stock that exists. *)
InOwnCommand ==
    \A w \in Workers :
        /\ pc[w] \in ShowLabels => cmd[w].op = "show"
        /\ pc[w] \in ModLabels => cmd[w].op \in {"sell", "buy"}
        /\ pc[w] \in {"mod_wait", "mod_store"} => cmd[w].id \in Ids

ReaderLock == Guarded(reader_n_mutex, reader_n, tmp, AtReader)
WriterLock == Guarded(writer_n_mutex, writer_n, tmp, AtWriter)
NodeLocks == \A i \in Ids : Guarded(modify_mutex[i], count[i], tmp, AtNode(i))

Locks == ReaderLock /\ WriterLock /\ NodeLocks

ExactCounts ==
    /\ reader_n = Cardinality(Readers)
    /\ writer_n = Cardinality(Writers)

NodesTyped ==
    /\ count \in [Ids -> Int32] /\ ledger \in [Ids -> Int32]
    /\ modify_mutex \in [Ids -> {0, 1}]
    /\ st \in [Workers -> {"SUCCESS", "ERROR", "NOTENOUGHERR"}]
    /\ result \in [Workers -> SUBSET Ids]

OpsInv ==
    WorkersRun /\ InOwnCommand /\ Locks /\ ExactCounts /\ NodesTyped /\ NoLostUpdate

-----------------------------------------------------------------------------
(***************************************************************************)
(* Guarded under the three things a step can do.                           *)
(***************************************************************************)
LEMMA GuardEnter ==
    ASSUME NEW m, NEW v, NEW tm, NEW tm1, NEW C, NEW w,
           Guarded(m, v, tm, C), m > 0, tm1[w] = v
    PROVE  Guarded(m - 1, v, tm1, C \cup {w})
BY DEF Guarded

LEMMA GuardLeave ==
    ASSUME NEW m, NEW v, NEW v1, NEW tm, NEW tm1, NEW C, NEW w \in C,
           Guarded(m, v, tm, C)
    PROVE  m = 0 /\ tm[w] = v /\ Guarded(m + 1, v1, tm1, C \ {w})
BY DEF Guarded

LEMMA GuardKeep ==
    ASSUME NEW m, NEW v, NEW tm, NEW tm1, NEW C, Guarded(m, v, tm, C),
           \A u \in C : tm1[u] = tm[u]
    PROVE  Guarded(m, v, tm1, C)
BY DEF Guarded

(***************************************************************************)
(* What a step of worker w does to the program counters, and to the number *)
(* of workers at a set L of labels.                                        *)
(***************************************************************************)
LEMMA OpGoto ==
    ASSUME WorkersRun, NEW w \in Workers, NEW from, NEW to, Goto(w, from, to)
    PROVE  /\ pc[w] = from /\ pc'[w] = to
           /\ \A u \in Workers : u # w => pc'[u] = pc[u]
           /\ pc' = [t \in DOMAIN pc' |-> pc'[t]] /\ Workers \subseteq DOMAIN pc'
BY DEF WorkersRun, Goto

LEMMA SubsetsFinite ==
    ASSUME NEW S, S \subseteq Workers
    PROVE  /\ IsFiniteSet(S) /\ Cardinality(S) \in Nat
           /\ Cardinality(S) <= Cardinality(Workers) /\ Cardinality(Workers) \in Nat
BY ProcessAssumption, FS_Subset, FS_CardinalityType

LEMMA OpCount ==
    ASSUME NEW w \in Workers, NEW L, \A u \in Workers : u # w => pc'[u] = pc[u]
    PROVE  Cardinality({u \in Workers : pc'[u] \in L})
             = Cardinality({u \in Workers : pc[u] \in L})
               + (IF pc'[w] \in L THEN 1 ELSE 0) - (IF pc[w] \in L THEN 1 ELSE 0)
<1> DEFINE S == {u \in Workers : pc[u] \in L}
           T == {u \in Workers : pc'[u] \in L}
<1>1. IsFiniteSet(S) /\ Cardinality(S) \in Nat
  <2>1. S \subseteq Workers
    OBVIOUS
  <2> QED BY <2>1, SubsetsFinite
<1>2. CASE pc'[w] \in L /\ pc[w] \notin L
  <2>1. w \notin S /\ T = S \cup {w}
    BY <1>2
  <2>2. Cardinality(T) = Cardinality(S) + 1
    BY <1>1, <2>1, FS_AddElement
  <2> QED BY <1>1, <1>2, <2>2
<1>3. CASE pc'[w] \notin L /\ pc[w] \in L
  <2>1. w \in S /\ T = S \ {w}
    BY <1>3
  <2>2. Cardinality(T) = Cardinality(S) - 1
    BY <1>1, <2>1, FS_RemoveElement
  <2> QED BY <1>1, <1>3, <2>2
<1>4. CASE pc'[w] \in L <=> pc[w] \in L
  <2>1. T = S
    BY <1>4
  <2>2. Cardinality(T) = Cardinality(S)
    BY <2>1
  <2> QED BY <1>1, <1>4, <2>2
<1> QED BY <1>2, <1>3, <1>4

LEMMA CountsTyped ==
    /\ Cardinality(Readers) \in Nat /\ Cardinality(Writers) \in Nat
    /\ Cardinality(Readers) <= Cardinality(Workers)
    /\ Cardinality(Writers) <= Cardinality(Workers)
    /\ Cardinality(Workers) \in Nat
<1>1. Readers \subseteq Workers /\ Writers \subseteq Workers
  BY DEF Readers, Writers
<1> QED BY <1>1, SubsetsFinite

-----------------------------------------------------------------------------
(***************************************************************************)
(* A step of worker w that has nothing to do with a lock or a counter      *)
(* leaves it as it is.                                                     *)
(***************************************************************************)
(* Worker w goes from one label to another, and only its own locals change. *)
Moves(w, from, to) ==
    /\ Goto(w, from, to)
    /\ \A u \in Workers : u # w => tmp'[u] = tmp[u] /\ cmd'[u] = cmd[u]

ReaderCrit == {"show_entered", "show_left"}
WriterCrit == {"mod_entered", "mod_left"}

LEMMA ReaderKeep ==
    ASSUME WorkersRun, ReaderLock, NEW w \in Workers, NEW from, NEW to, Moves(w, from, to),
           from \notin ReaderCrit, to \notin ReaderCrit,
           UNCHANGED <<reader_n, reader_n_mutex>>
    PROVE  ReaderLock'
<1>1. AtReader' = AtReader /\ w \notin AtReader
  BY OpGoto DEF Moves, AtReader, ReaderCrit
<1> QED BY <1>1, GuardKeep DEF ReaderLock, Moves, AtReader

LEMMA WriterKeep ==
    ASSUME WorkersRun, WriterLock, NEW w \in Workers, NEW from, NEW to, Moves(w, from, to),
           from \notin WriterCrit, to \notin WriterCrit,
           UNCHANGED <<writer_n, writer_n_mutex>>
    PROVE  WriterLock'
<1>1. AtWriter' = AtWriter /\ w \notin AtWriter
  BY OpGoto DEF Moves, AtWriter, WriterCrit
<1> QED BY <1>1, GuardKeep DEF WriterLock, Moves, AtWriter

LEMMA NodesKeep ==
    ASSUME WorkersRun, NodeLocks, NEW w \in Workers, NEW from, NEW to, Moves(w, from, to),
           from # "mod_store", to # "mod_store", UNCHANGED <<count, modify_mutex>>
    PROVE  NodeLocks'
<1> SUFFICES ASSUME NEW i \in Ids
             PROVE  Guarded(modify_mutex[i], count[i], tmp', AtNode(i)')
  BY DEF NodeLocks
<1>1. AtNode(i)' = AtNode(i) /\ w \notin AtNode(i)
  BY OpGoto DEF Moves, AtNode
<1>2. Guarded(modify_mutex[i], count[i], tmp, AtNode(i))
  BY DEF NodeLocks
<1>3. \A u \in AtNode(i) : tmp'[u] = tmp[u]
  BY <1>1 DEF Moves, AtNode
<1> QED BY <1>1, <1>2, <1>3, GuardKeep

LEMMA CountsKeep ==
    ASSUME WorkersRun, ExactCounts, NEW w \in Workers, NEW from, NEW to, Moves(w, from, to),
           from \in ReadLabels <=> to \in ReadLabels,
           from \in WriteLabels <=> to \in WriteLabels,
           UNCHANGED <<reader_n, writer_n>>
    PROVE  ExactCounts'
<1>1. Readers' = Readers /\ Writers' = Writers
  BY OpGoto DEF Moves, Readers, Writers
<1> QED BY <1>1 DEF ExactCounts

(* The local variables of the commands keep their types. *)
LEMMA RunKeeps ==
    ASSUME WorkersRun, NEW w \in Workers, NEW from, NEW to, Goto(w, from, to),
           cmd' \in [Workers -> Lines],
           tmp' \in [Workers -> Int32 \cup 0 .. Cardinality(Workers)]
    PROVE  WorkersRun'
BY OpGoto DEF WorkersRun

(* A worker with an unchanged command goes on in the code of that command. *)
LEMMA OwnKeep ==
    ASSUME WorkersRun, InOwnCommand, NEW w \in Workers, NEW from, NEW to,
           Goto(w, from, to), cmd' = cmd,
           to \in ShowLabels => cmd[w].op = "show",
           to \in ModLabels => cmd[w].op \in {"sell", "buy"},
           to \in {"mod_wait", "mod_store"} => cmd[w].id \in Ids
    PROVE  InOwnCommand'
BY OpGoto DEF InOwnCommand

-----------------------------------------------------------------------------
(***************************************************************************)
(* show()                                                                  *)
(***************************************************************************)
LEMMA ShowLoad ==
    ASSUME OpsInv, NEW w \in Workers,
           NEW from \in {"show_enter", "show_leave"}, NEW to \in ReaderCrit,
           from \in ReadLabels <=> to \in ReadLabels,
           LockLoad(w, from, to, reader_n_mutex, reader_n), UNCHANGED reader_n,
           UNCHANGED <<count, writer_n, writer_n_mutex, modify_mutex, cmd, st, result, ledger>>
    PROVE  OpsInv'
<1>0. WorkersRun /\ InOwnCommand /\ ReaderLock /\ WriterLock /\ NodeLocks /\ ExactCounts
      /\ NodesTyped /\ NoLostUpdate
  BY DEF OpsInv, Locks
<1>1. /\ Goto(w, from, to) /\ reader_n_mutex > 0 /\ reader_n_mutex' = reader_n_mutex - 1
      /\ tmp' = [tmp EXCEPT ![w] = reader_n]
  BY DEF LockLoad, SemWait
<1>2. /\ pc[w] = from /\ pc'[w] = to
      /\ \A u \in Workers : u # w => pc'[u] = pc[u]
  BY <1>0, <1>1, OpGoto
<1>3. tmp'[w] = reader_n /\ \A u \in Workers : u # w => tmp'[u] = tmp[u]
  BY <1>0, <1>1 DEF WorkersRun
<1>4. Moves(w, from, to)
  BY <1>1, <1>3 DEF Moves
<1>5. ReaderLock'
  <2>1. AtReader' = AtReader \cup {w}
    BY <1>2 DEF AtReader, ReaderCrit
  <2> QED BY <1>0, <1>1, <1>3, <2>1, GuardEnter DEF ReaderLock
<1>6. WriterLock' /\ NodeLocks'
  BY <1>0, <1>4, WriterKeep, NodesKeep DEF ReaderCrit, WriterCrit
<1>7. ExactCounts'
  BY <1>0, <1>4, CountsKeep DEF ReaderCrit, WriteLabels
<1>8. WorkersRun'
  <2>1. reader_n \in 0 .. Cardinality(Workers)
    BY <1>0, CountsTyped DEF ExactCounts
  <2>2. tmp' \in [Workers -> Int32 \cup 0 .. Cardinality(Workers)]
    BY <1>0, <1>1, <2>1 DEF WorkersRun
  <2> QED BY <1>0, <1>1, <2>2, RunKeeps DEF WorkersRun
<1>9. InOwnCommand'
  <2>1. cmd[w].op = "show"
    BY <1>0, <1>2 DEF InOwnCommand, ShowLabels
  <2> QED BY <1>0, <1>1, <2>1, OwnKeep DEF ReaderCrit, ShowLabels, ModLabels
<1>10. NodesTyped' /\ NoLostUpdate'
  BY <1>0 DEF NodesTyped, NoLostUpdate
<1> QED BY <1>5, <1>6, <1>7, <1>8, <1>9, <1>10 DEF OpsInv, Locks

LEMMA ShowStore ==
    ASSUME OpsInv, NEW w \in Workers, NEW from \in ReaderCrit, NEW to \in {"show_print", "reply"},
           NEW d \in {1, -1}, from = "show_entered" <=> d = 1, to = "show_print" <=> d = 1,
           StoreUnlock(w, from, to, reader_n_mutex, reader_n, d),
           UNCHANGED <<count, writer_n, writer_n_mutex, modify_mutex, cmd, st, result, ledger>>
    PROVE  OpsInv'
<1>0. WorkersRun /\ InOwnCommand /\ ReaderLock /\ WriterLock /\ NodeLocks /\ ExactCounts
      /\ NodesTyped /\ NoLostUpdate
  BY DEF OpsInv, Locks
<1>1. /\ Goto(w, from, to) /\ reader_n_mutex' = reader_n_mutex + 1
      /\ reader_n' = tmp[w] + d /\ tmp' = [tmp EXCEPT ![w] = 0]
  BY DEF StoreUnlock, SemPost
<1>2. /\ pc[w] = from /\ pc'[w] = to
      /\ \A u \in Workers : u # w => pc'[u] = pc[u]
  BY <1>0, <1>1, OpGoto
<1>3. tmp'[w] = 0 /\ \A u \in Workers : u # w => tmp'[u] = tmp[u]
  BY <1>0, <1>1 DEF WorkersRun
<1>4. Moves(w, from, to)
  BY <1>1, <1>3 DEF Moves
<1>5. ReaderLock' /\ reader_n' = reader_n + d
  <2>1. w \in AtReader /\ AtReader' = AtReader \ {w}
    BY <1>2 DEF AtReader, ReaderCrit
  <2>2. tmp[w] = reader_n /\ ReaderLock'
    BY <1>0, <1>1, <2>1, GuardLeave DEF ReaderLock
  <2> QED BY <1>1, <2>2
<1>6. WriterLock' /\ NodeLocks'
  BY <1>0, <1>4, WriterKeep, NodesKeep DEF ReaderCrit, WriterCrit
<1>7. ExactCounts'
  <2>1. Cardinality(Readers') = Cardinality(Readers) + (IF to \in ReadLabels THEN 1 ELSE 0)
                                  - (IF from \in ReadLabels THEN 1 ELSE 0)
    BY <1>2, OpCount DEF Readers
  <2>2. Cardinality(Readers') = Cardinality(Readers) + d
    <3>1. CASE d = 1
      <4>1. to \in ReadLabels /\ from \notin ReadLabels
        BY <3>1 DEF ReadLabels
      <4> QED BY <2>1, <3>1, <4>1, CountsTyped
    <3>2. CASE d = -1
      <4>1. to \notin ReadLabels /\ from \in ReadLabels
        BY <3>2 DEF ReadLabels, ReaderCrit
      <4> QED BY <2>1, <3>2, <4>1, CountsTyped
    <3> QED BY <3>1, <3>2
  <2>3. Writers' = Writers
    BY <1>2 DEF Writers, WriteLabels, ReaderCrit
  <2> QED BY <1>0, <1>5, <2>2, <2>3 DEF ExactCounts
<1>8. WorkersRun'
  <2>1. tmp' \in [Workers -> Int32 \cup 0 .. Cardinality(Workers)]
    BY <1>0, <1>1, CountsTyped DEF WorkersRun
  <2> QED BY <1>0, <1>1, <2>1, RunKeeps DEF WorkersRun
<1>9. InOwnCommand'
  <2>1. cmd[w].op = "show"
    BY <1>0, <1>2 DEF InOwnCommand, ShowLabels, ReaderCrit
  <2> QED BY <1>0, <1>1, <2>1, OwnKeep DEF ShowLabels, ModLabels
<1>10. NodesTyped' /\ NoLostUpdate'
  BY <1>0 DEF NodesTyped, NoLostUpdate
<1> QED BY <1>5, <1>6, <1>7, <1>8, <1>9, <1>10 DEF OpsInv, Locks

-----------------------------------------------------------------------------
(***************************************************************************)
(* sell() and buy()                                                        *)
(***************************************************************************)
LEMMA WriterLoad ==
    ASSUME OpsInv, NEW w \in Workers,
           NEW from \in {"exec", "mod_leave"}, NEW to \in WriterCrit,
           from \in WriteLabels <=> to \in WriteLabels, cmd[w].op \in {"sell", "buy"},
           LockLoad(w, from, to, writer_n_mutex, writer_n), UNCHANGED writer_n,
           UNCHANGED <<count, reader_n, reader_n_mutex, modify_mutex, cmd, st, result, ledger>>
    PROVE  OpsInv'
<1>0. WorkersRun /\ InOwnCommand /\ ReaderLock /\ WriterLock /\ NodeLocks /\ ExactCounts
      /\ NodesTyped /\ NoLostUpdate
  BY DEF OpsInv, Locks
<1>1. /\ Goto(w, from, to) /\ writer_n_mutex > 0 /\ writer_n_mutex' = writer_n_mutex - 1
      /\ tmp' = [tmp EXCEPT ![w] = writer_n]
  BY DEF LockLoad, SemWait
<1>2. /\ pc[w] = from /\ pc'[w] = to
      /\ \A u \in Workers : u # w => pc'[u] = pc[u]
  BY <1>0, <1>1, OpGoto
<1>3. tmp'[w] = writer_n /\ \A u \in Workers : u # w => tmp'[u] = tmp[u]
  BY <1>0, <1>1 DEF WorkersRun
<1>4. Moves(w, from, to)
  BY <1>1, <1>3 DEF Moves
<1>5. WriterLock'
  <2>1. AtWriter' = AtWriter \cup {w}
    BY <1>2 DEF AtWriter, WriterCrit
  <2> QED BY <1>0, <1>1, <1>3, <2>1, GuardEnter DEF WriterLock
<1>6. ReaderLock' /\ NodeLocks'
  BY <1>0, <1>4, ReaderKeep, NodesKeep DEF ReaderCrit, WriterCrit
<1>7. ExactCounts'
  BY <1>0, <1>4, CountsKeep DEF WriterCrit, ReadLabels
<1>8. WorkersRun'
  <2>1. writer_n \in 0 .. Cardinality(Workers)
    BY <1>0, CountsTyped DEF ExactCounts
  <2>2. tmp' \in [Workers -> Int32 \cup 0 .. Cardinality(Workers)]
    BY <1>0, <1>1, <2>1 DEF WorkersRun
  <2> QED BY <1>0, <1>1, <2>2, RunKeeps DEF WorkersRun
<1>9. InOwnCommand'
  BY <1>0, <1>1, OwnKeep DEF WriterCrit, ShowLabels, ModLabels
<1>10. NodesTyped' /\ NoLostUpdate'
  BY <1>0 DEF NodesTyped, NoLostUpdate
<1> QED BY <1>5, <1>6, <1>7, <1>8, <1>9, <1>10 DEF OpsInv, Locks

LEMMA WriterStore ==
    ASSUME OpsInv, NEW w \in Workers, NEW from \in WriterCrit, NEW to \in {"mod_spin", "reply"},
           NEW d \in {1, -1}, from = "mod_entered" <=> d = 1, to = "mod_spin" <=> d = 1,
           StoreUnlock(w, from, to, writer_n_mutex, writer_n, d),
           UNCHANGED <<count, reader_n, reader_n_mutex, modify_mutex, cmd, st, result, ledger>>
    PROVE  OpsInv'
<1>0. WorkersRun /\ InOwnCommand /\ ReaderLock /\ WriterLock /\ NodeLocks /\ ExactCounts
      /\ NodesTyped /\ NoLostUpdate
  BY DEF OpsInv, Locks
<1>1. /\ Goto(w, from, to) /\ writer_n_mutex' = writer_n_mutex + 1
      /\ writer_n' = tmp[w] + d /\ tmp' = [tmp EXCEPT ![w] = 0]
  BY DEF StoreUnlock, SemPost
<1>2. /\ pc[w] = from /\ pc'[w] = to
      /\ \A u \in Workers : u # w => pc'[u] = pc[u]
  BY <1>0, <1>1, OpGoto
<1>3. tmp'[w] = 0 /\ \A u \in Workers : u # w => tmp'[u] = tmp[u]
  BY <1>0, <1>1 DEF WorkersRun
<1>4. Moves(w, from, to)
  BY <1>1, <1>3 DEF Moves
<1>5. WriterLock' /\ writer_n' = writer_n + d
  <2>1. w \in AtWriter /\ AtWriter' = AtWriter \ {w}
    BY <1>2 DEF AtWriter, WriterCrit
  <2>2. tmp[w] = writer_n /\ WriterLock'
    BY <1>0, <1>1, <2>1, GuardLeave DEF WriterLock
  <2> QED BY <1>1, <2>2
<1>6. ReaderLock' /\ NodeLocks'
  BY <1>0, <1>4, ReaderKeep, NodesKeep DEF ReaderCrit, WriterCrit
<1>7. ExactCounts'
  <2>1. Cardinality(Writers') = Cardinality(Writers) + (IF to \in WriteLabels THEN 1 ELSE 0)
                                  - (IF from \in WriteLabels THEN 1 ELSE 0)
    BY <1>2, OpCount DEF Writers
  <2>2. Cardinality(Writers') = Cardinality(Writers) + d
    <3>1. CASE d = 1
      <4>1. to \in WriteLabels /\ from \notin WriteLabels
        BY <3>1 DEF WriteLabels
      <4> QED BY <2>1, <3>1, <4>1, CountsTyped
    <3>2. CASE d = -1
      <4>1. to \notin WriteLabels /\ from \in WriteLabels
        BY <3>2 DEF WriteLabels, WriterCrit
      <4> QED BY <2>1, <3>2, <4>1, CountsTyped
    <3> QED BY <3>1, <3>2
  <2>3. Readers' = Readers
    BY <1>2 DEF Readers, ReadLabels, WriterCrit
  <2> QED BY <1>0, <1>5, <2>2, <2>3 DEF ExactCounts
<1>8. WorkersRun'
  <2>1. tmp' \in [Workers -> Int32 \cup 0 .. Cardinality(Workers)]
    BY <1>0, <1>1, CountsTyped DEF WorkersRun
  <2> QED BY <1>0, <1>1, <2>1, RunKeeps DEF WorkersRun
<1>9. InOwnCommand'
  <2>1. cmd[w].op \in {"sell", "buy"}
    BY <1>0, <1>2 DEF InOwnCommand, ModLabels, WriterCrit
  <2> QED BY <1>0, <1>1, <2>1, OwnKeep DEF ShowLabels, ModLabels
<1>10. NodesTyped' /\ NoLostUpdate'
  BY <1>0 DEF NodesTyped, NoLostUpdate
<1> QED BY <1>5, <1>6, <1>7, <1>8, <1>9, <1>10 DEF OpsInv, Locks

(* modify() takes the mutex of the node and loads its count. *)
LEMMA NodeLoad ==
    ASSUME OpsInv, NEW w \in Workers, ModLoad(w)
    PROVE  OpsInv'
<1>0. WorkersRun /\ InOwnCommand /\ ReaderLock /\ WriterLock /\ NodeLocks /\ ExactCounts
      /\ NodesTyped /\ NoLostUpdate
  BY DEF OpsInv, Locks
<1> DEFINE k == cmd[w].id
<1>1. /\ Goto(w, "mod_wait", "mod_store") /\ modify_mutex[k] > 0
      /\ modify_mutex' = [modify_mutex EXCEPT ![k] = @ - 1]
      /\ tmp' = [tmp EXCEPT ![w] = count[k]]
      /\ UNCHANGED <<count, reader_n, writer_n, reader_n_mutex, writer_n_mutex, cmd, st,
                      result, ledger>>
  BY DEF ModLoad
<1>2. /\ pc[w] = "mod_wait" /\ pc'[w] = "mod_store"
      /\ \A u \in Workers : u # w => pc'[u] = pc[u]
  BY <1>0, <1>1, OpGoto
<1>3. k \in Ids /\ cmd[w].op \in {"sell", "buy"}
  BY <1>0, <1>2 DEF InOwnCommand, ModLabels
<1>4. tmp'[w] = count[k] /\ \A u \in Workers : u # w => tmp'[u] = tmp[u]
  BY <1>0, <1>1 DEF WorkersRun
<1>5. Moves(w, "mod_wait", "mod_store")
  BY <1>1, <1>4 DEF Moves
<1>6. ReaderLock' /\ WriterLock'
  BY <1>0, <1>1, <1>5, ReaderKeep, WriterKeep DEF ReaderCrit, WriterCrit
<1>7. NodeLocks'
  <2> SUFFICES ASSUME NEW i \in Ids
               PROVE  Guarded(modify_mutex'[i], count[i], tmp', AtNode(i)')
    BY <1>1 DEF NodeLocks
  <2>0. Guarded(modify_mutex[i], count[i], tmp, AtNode(i))
    BY <1>0 DEF NodeLocks
  <2>1. CASE i = k
    <3>1. AtNode(i)' = AtNode(i) \cup {w} /\ modify_mutex'[i] = modify_mutex[i] - 1
      BY <1>0, <1>1, <1>2, <1>3, <2>1 DEF AtNode, NodesTyped
    <3>2. modify_mutex[i] > 0 /\ tmp'[w] = count[i]
      BY <1>1, <1>4, <2>1
    <3>3. Guarded(modify_mutex[i] - 1, count[i], tmp', AtNode(i) \cup {w})
      BY <2>0, <3>2, GuardEnter
    <3> QED BY <3>1, <3>3
  <2>2. CASE i # k
    <3>1. AtNode(i)' = AtNode(i) /\ w \notin AtNode(i) /\ modify_mutex'[i] = modify_mutex[i]
      BY <1>0, <1>1, <1>2, <2>2 DEF AtNode, NodesTyped
    <3>2. \A u \in AtNode(i) : tmp'[u] = tmp[u]
      BY <1>4, <3>1 DEF AtNode
    <3> QED BY <2>0, <3>1, <3>2, GuardKeep
  <2> QED BY <2>1, <2>2
<1>8. ExactCounts'
  BY <1>0, <1>1, <1>5, CountsKeep DEF ReadLabels, WriteLabels
<1>9. WorkersRun'
  <2>1. tmp' \in [Workers -> Int32 \cup 0 .. Cardinality(Workers)]
    BY <1>0, <1>1, <1>3 DEF WorkersRun, NodesTyped
  <2> QED BY <1>0, <1>1, <2>1, RunKeeps DEF WorkersRun
<1>10. InOwnCommand'
  BY <1>0, <1>1, <1>3, OwnKeep DEF ShowLabels
<1>11. NodesTyped' /\ NoLostUpdate'
  <2>1. modify_mutex[k] = 1
    BY <1>0, <1>1, <1>3 DEF NodesTyped
  <2> QED BY <1>0, <1>1, <1>3, <2>1 DEF NodesTyped, NoLostUpdate
<1> QED BY <1>6, <1>7, <1>8, <1>9, <1>10, <1>11 DEF OpsInv, Locks

(* What it loaded is still the count: the store loses nobody's update. *)
LEMMA NodeStore ==
    ASSUME OpsInv, NEW w \in Workers, ModStore(w)
    PROVE  OpsInv'
<1>0. WorkersRun /\ InOwnCommand /\ ReaderLock /\ WriterLock /\ NodeLocks /\ ExactCounts
      /\ NodesTyped /\ NoLostUpdate
  BY DEF OpsInv, Locks
<1> DEFINE k == cmd[w].id
<1>1. /\ Goto(w, "mod_store", "mod_leave")
      /\ count' = [count EXCEPT ![k] = Moved(tmp[w], cmd[w])]
      /\ ledger' = [ledger EXCEPT ![k] = Moved(@, cmd[w])]
      /\ modify_mutex' = [modify_mutex EXCEPT ![k] = @ + 1]
      /\ tmp' = [tmp EXCEPT ![w] = 0]
      /\ st' = [st EXCEPT ![w] = "SUCCESS"]
      /\ UNCHANGED <<reader_n, writer_n, reader_n_mutex, writer_n_mutex, cmd, result>>
  BY DEF ModStore
<1>2. /\ pc[w] = "mod_store" /\ pc'[w] = "mod_leave"
      /\ \A u \in Workers : u # w => pc'[u] = pc[u]
  BY <1>0, <1>1, OpGoto
<1>3. k \in Ids /\ cmd[w].op \in {"sell", "buy"} /\ cmd[w] \in Lines
  BY <1>0, <1>2 DEF InOwnCommand, ModLabels, WorkersRun
<1>4. \A u \in Workers : u # w => tmp'[u] = tmp[u]
  BY <1>0, <1>1 DEF WorkersRun
<1>5. Moves(w, "mod_store", "mod_leave")
  BY <1>1, <1>4 DEF Moves
<1>6. ReaderLock' /\ WriterLock'
  BY <1>0, <1>1, <1>5, ReaderKeep, WriterKeep DEF ReaderCrit, WriterCrit
<1>7. Guarded(modify_mutex[k], count[k], tmp, AtNode(k)) /\ w \in AtNode(k)
  BY <1>0, <1>2, <1>3 DEF NodeLocks, AtNode
<1>8. tmp[w] = count[k] /\ modify_mutex[k] = 0
  BY <1>7 DEF Guarded
<1>9. NodeLocks'
  <2> SUFFICES ASSUME NEW i \in Ids
               PROVE  Guarded(modify_mutex'[i], count'[i], tmp', AtNode(i)')
    BY DEF NodeLocks
  <2>1. CASE i = k
    <3>1. AtNode(i)' = AtNode(i) \ {w} /\ modify_mutex'[i] = modify_mutex[i] + 1
      BY <1>0, <1>1, <1>2, <1>3, <2>1 DEF AtNode, NodesTyped
    <3> QED BY <1>7, <2>1, <3>1, GuardLeave
  <2>2. CASE i # k
    <3>1. /\ AtNode(i)' = AtNode(i) /\ w \notin AtNode(i)
          /\ modify_mutex'[i] = modify_mutex[i] /\ count'[i] = count[i]
      BY <1>0, <1>1, <1>2, <2>2 DEF AtNode, NodesTyped
    <3>2. \A u \in AtNode(i) : tmp'[u] = tmp[u]
      BY <1>4, <3>1 DEF AtNode
    <3>3. Guarded(modify_mutex[i], count[i], tmp, AtNode(i))
      BY <1>0 DEF NodeLocks
    <3> QED BY <3>1, <3>2, <3>3, GuardKeep
  <2> QED BY <2>1, <2>2
<1>10. ExactCounts'
  BY <1>0, <1>1, <1>5, CountsKeep DEF ReadLabels, WriteLabels
<1>11. WorkersRun'
  <2>1. tmp' \in [Workers -> Int32 \cup 0 .. Cardinality(Workers)]
    BY <1>0, <1>1, CountsTyped DEF WorkersRun
  <2> QED BY <1>0, <1>1, <2>1, RunKeeps DEF WorkersRun
<1>12. InOwnCommand'
  BY <1>0, <1>1, <1>3, OwnKeep DEF ShowLabels
<1>13. NodesTyped' /\ NoLostUpdate'
  <2>1. count \in [Ids -> Int32] /\ ledger = count
    BY <1>0 DEF NodesTyped, NoLostUpdate
  <2>2. Moved(count[k], cmd[w]) \in Int32
    BY <1>3, <2>1, MovedInt32
  <2>3. ledger' = count' /\ count' \in [Ids -> Int32]
    BY <1>1, <1>3, <1>8, <2>1, <2>2
  <2> QED BY <1>0, <1>1, <1>3, <1>8, <2>3 DEF NodesTyped, NoLostUpdate
<1> QED BY <1>6, <1>9, <1>10, <1>11, <1>12, <1>13 DEF OpsInv, Locks

-----------------------------------------------------------------------------
(***************************************************************************)
(* The steps that touch no shared variable.                                *)
(***************************************************************************)
CritLabels == ReaderCrit \cup WriterCrit \cup {"mod_store"}

sharedVars == <<count, reader_n, writer_n, reader_n_mutex, writer_n_mutex, modify_mutex,
                tmp, ledger>>

LEMMA OpSilent ==
    ASSUME OpsInv, NEW w \in Workers, NEW from, NEW to, Goto(w, from, to),
           from \notin CritLabels, to \notin CritLabels,
           from \in ReadLabels <=> to \in ReadLabels,
           from \in WriteLabels <=> to \in WriteLabels,
           UNCHANGED sharedVars, InOwnCommand',
           cmd' \in [Workers -> Lines], \A u \in Workers : u # w => cmd'[u] = cmd[u],
           st' \in [Workers -> {"SUCCESS", "ERROR", "NOTENOUGHERR"}],
           result' \in [Workers -> SUBSET Ids]
    PROVE  OpsInv'
<1>0. WorkersRun /\ InOwnCommand /\ ReaderLock /\ WriterLock /\ NodeLocks /\ ExactCounts
      /\ NodesTyped /\ NoLostUpdate
  BY DEF OpsInv, Locks
<1>1. UNCHANGED <<count, reader_n, writer_n, reader_n_mutex, writer_n_mutex, modify_mutex,
                  tmp, ledger>>
  BY DEF sharedVars
<1>2. Moves(w, from, to)
  BY <1>1 DEF Moves
<1>3. ReaderLock' /\ WriterLock' /\ NodeLocks' /\ ExactCounts'
  BY <1>0, <1>1, <1>2, ReaderKeep, WriterKeep, NodesKeep, CountsKeep DEF CritLabels
<1>4. WorkersRun'
  BY <1>0, <1>1, RunKeeps DEF WorkersRun
<1>5. NodesTyped' /\ NoLostUpdate'
  BY <1>0, <1>1 DEF NodesTyped, NoLostUpdate
<1> QED BY <1>3, <1>4, <1>5 DEF OpsInv, Locks

LEMMA ShowInv ==
    ASSUME OpsInv, NEW w \in Workers, ShowStep(w)
    PROVE  OpsInv'
<1>0. WorkersRun /\ InOwnCommand /\ NodesTyped /\ cmd \in [Workers -> Lines]
      /\ st \in [Workers -> {"SUCCESS", "ERROR", "NOTENOUGHERR"}]
      /\ result \in [Workers -> SUBSET Ids]
  BY DEF OpsInv, WorkersRun, NodesTyped
<1> USE DEF CritLabels, ReaderCrit, WriterCrit, ReadLabels, WriteLabels
<1>1. CASE ShowSpin(w)
  <2>1. Goto(w, "exec", "show_enter") /\ cmd[w].op = "show" /\ UNCHANGED sharedVars
        /\ UNCHANGED <<cmd, st, result>>
    BY <1>1 DEF ShowSpin, stockVars, sharedVars
  <2>2. InOwnCommand'
    BY <1>0, <2>1, OwnKeep DEF ModLabels
  <2> QED BY <1>0, <2>1, <2>2, OpSilent
<1>2. CASE ShowEnter(w)
  <2>1. CASE LockLoad(w, "show_enter", "show_entered", reader_n_mutex, reader_n)
    BY <1>2, <2>1, ShowLoad DEF ShowEnter, LockLoad, Goto, StoreUnlock
  <2>2. CASE StoreUnlock(w, "show_entered", "show_print", reader_n_mutex, reader_n, 1)
    BY <1>2, <2>2, ShowStore DEF ShowEnter
  <2> QED BY <1>2, <2>1, <2>2 DEF ShowEnter
<1>3. CASE ShowPrint(w)
  <2>1. Goto(w, "show_print", "show_print") /\ UNCHANGED sharedVars /\ UNCHANGED <<cmd, st>>
    BY <1>3 DEF ShowPrint, sharedVars
  <2>2. result' \in [Workers -> SUBSET Ids]
    BY <1>0, <1>3 DEF ShowPrint
  <2>3. cmd[w].op = "show"
    BY <1>0, <2>1 DEF InOwnCommand, Goto, ShowLabels
  <2>4. InOwnCommand'
    BY <1>0, <2>1, <2>3, OwnKeep DEF ModLabels
  <2> QED BY <1>0, <2>1, <2>2, <2>4, OpSilent
<1>4. CASE ShowPrinted(w)
  <2>1. Goto(w, "show_print", "show_leave") /\ UNCHANGED sharedVars /\ UNCHANGED <<cmd, result>>
    BY <1>4 DEF ShowPrinted, sharedVars
  <2>2. st' \in [Workers -> {"SUCCESS", "ERROR", "NOTENOUGHERR"}]
    BY <1>0, <1>4 DEF ShowPrinted
  <2>3. cmd[w].op = "show"
    BY <1>0, <2>1 DEF InOwnCommand, Goto, ShowLabels
  <2>4. InOwnCommand'
    BY <1>0, <2>1, <2>3, OwnKeep DEF ModLabels
  <2> QED BY <1>0, <2>1, <2>2, <2>4, OpSilent
<1>5. CASE ShowLeave(w)
  <2>1. CASE LockLoad(w, "show_leave", "show_left", reader_n_mutex, reader_n)
    BY <1>5, <2>1, ShowLoad DEF ShowLeave, LockLoad, Goto, StoreUnlock
  <2>2. CASE StoreUnlock(w, "show_left", "reply", reader_n_mutex, reader_n, -1)
    BY <1>5, <2>2, ShowStore DEF ShowLeave
  <2> QED BY <1>5, <2>1, <2>2 DEF ShowLeave
<1> QED BY <1>1, <1>2, <1>3, <1>4, <1>5 DEF ShowStep

LEMMA ModInv ==
    ASSUME OpsInv, NEW w \in Workers, ModStep(w)
    PROVE  OpsInv'
<1>0. WorkersRun /\ InOwnCommand /\ NodesTyped /\ cmd \in [Workers -> Lines]
      /\ st \in [Workers -> {"SUCCESS", "ERROR", "NOTENOUGHERR"}]
      /\ result \in [Workers -> SUBSET Ids]
  BY DEF OpsInv, WorkersRun, NodesTyped
<1> USE DEF CritLabels, ReaderCrit, WriterCrit, ReadLabels, WriteLabels
<1>1. CASE ModEnter(w)
  <2>1. CASE LockLoad(w, "exec", "mod_entered", writer_n_mutex, writer_n)
    BY <1>1, <2>1, WriterLoad DEF ModEnter, LockLoad, Goto, StoreUnlock
  <2>2. CASE StoreUnlock(w, "mod_entered", "mod_spin", writer_n_mutex, writer_n, 1)
    BY <1>1, <2>2, WriterStore DEF ModEnter
  <2> QED BY <1>1, <2>1, <2>2 DEF ModEnter
<1>2. CASE ModSpin(w)
  <2>1. Goto(w, "mod_spin", "mod_check") /\ UNCHANGED sharedVars /\ UNCHANGED <<cmd, st, result>>
    BY <1>2 DEF ModSpin, stockVars, sharedVars
  <2>2. cmd[w].op \in {"sell", "buy"}
    BY <1>0, <2>1 DEF InOwnCommand, Goto, ModLabels
  <2>3. InOwnCommand'
    BY <1>0, <2>1, <2>2, OwnKeep DEF ShowLabels
  <2> QED BY <1>0, <2>1, <2>3, OpSilent
<1>3. CASE ModCheck(w)
  <2>1. UNCHANGED sharedVars /\ UNCHANGED <<cmd, result>> /\ pc[w] = "mod_check"
    BY <1>3 DEF ModCheck, sharedVars, Goto
  <2>2. st' \in [Workers -> {"SUCCESS", "ERROR", "NOTENOUGHERR"}]
    BY <1>0, <1>3 DEF ModCheck
  <2>3. cmd[w].op \in {"sell", "buy"}
    BY <1>0, <2>1 DEF InOwnCommand, ModLabels
  <2>4. CASE Goto(w, "mod_check", "mod_leave")
    <3>1. InOwnCommand'
      BY <1>0, <2>1, <2>3, <2>4, OwnKeep DEF ShowLabels
    <3> QED BY <1>0, <2>1, <2>2, <2>4, <3>1, OpSilent
  <2>5. CASE Goto(w, "mod_check", "mod_wait") /\ cmd[w].id \in Ids
    <3>1. InOwnCommand'
      BY <1>0, <2>1, <2>3, <2>5, OwnKeep DEF ShowLabels
    <3> QED BY <1>0, <2>1, <2>2, <2>5, <3>1, OpSilent
  <2> QED BY <1>3, <2>4, <2>5 DEF ModCheck
<1>4. CASE ModLeave(w)
  <2>1. CASE LockLoad(w, "mod_leave", "mod_left", writer_n_mutex, writer_n)
    <3>1. cmd[w].op \in {"sell", "buy"}
      BY <1>0, <2>1 DEF InOwnCommand, LockLoad, Goto, ModLabels
    <3> QED BY <1>4, <2>1, <3>1, WriterLoad DEF ModLeave, LockLoad, Goto, StoreUnlock
  <2>2. CASE StoreUnlock(w, "mod_left", "reply", writer_n_mutex, writer_n, -1)
    BY <1>4, <2>2, WriterStore DEF ModLeave
  <2> QED BY <1>4, <2>1, <2>2 DEF ModLeave
<1> QED BY <1>1, <1>2, <1>3, <1>4, NodeLoad, NodeStore DEF ModStep

LEMMA RequestInv ==
    ASSUME OpsInv, NEW w \in Workers, Request(w)
    PROVE  OpsInv'
<1>0. WorkersRun /\ InOwnCommand /\ NodesTyped
  BY DEF OpsInv
<1>1. Goto(w, "reply", "exec") /\ UNCHANGED sharedVars /\ UNCHANGED st
  BY DEF Request, sharedVars
<1>2. pc'[w] = "exec" /\ \A u \in Workers : u # w => pc'[u] = pc[u]
  BY <1>0, <1>1, OpGoto
<1>3. cmd' \in [Workers -> Lines] /\ \A u \in Workers : u # w => cmd'[u] = cmd[u]
  BY <1>0 DEF Request, WorkersRun, Lines
<1>4. InOwnCommand'
  BY <1>0, <1>2, <1>3 DEF InOwnCommand, ShowLabels, ModLabels
<1>5. /\ st' \in [Workers -> {"SUCCESS", "ERROR", "NOTENOUGHERR"}]
      /\ result' \in [Workers -> SUBSET Ids]
  BY <1>0, <1>1 DEF Request, NodesTyped
<1> QED BY <1>1, <1>3, <1>4, <1>5, OpSilent
        DEF CritLabels, ReaderCrit, WriterCrit, ReadLabels, WriteLabels

LEMMA OpsInvInit == OpsInit => OpsInv
<1> SUFFICES ASSUME OpsInit PROVE OpsInv
  OBVIOUS
<1>1. \A w \in Workers : pc[w] = "reply"
  BY DEF OpsInit
<1>2. AtReader = {} /\ AtWriter = {} /\ Readers = {} /\ Writers = {} /\ \A i \in Ids : AtNode(i) = {}
  BY <1>1 DEF AtReader, AtWriter, AtNode, Readers, Writers, ReadLabels, WriteLabels
<1>3. Locks
  <2>1. \A v : Guarded(1, v, tmp, {})
    BY DEF Guarded
  <2> QED BY <1>2, <2>1 DEF OpsInit, StockInit, Locks, ReaderLock, WriterLock, NodeLocks
<1>4. ExactCounts
  BY <1>2, FS_EmptySet DEF ExactCounts, OpsInit, StockInit
<1>5. WorkersRun
  <2>1. Show \in Lines /\ 0 \in 0 .. Cardinality(Workers)
    BY CountsTyped DEF Lines, Commands
  <2> QED BY <2>1 DEF OpsInit, StockInit, WorkersRun
<1>6. InOwnCommand
  BY <1>1 DEF InOwnCommand, ShowLabels, ModLabels
<1>7. NodesTyped
  <2>1. 0 .. IntMax \subseteq Int32
    BY StockCommandsAssumption DEF Int32
  <2> QED BY <2>1 DEF OpsInit, StockInit, NodesTyped
<1>8. NoLostUpdate
  BY DEF OpsInit, StockInit, NoLostUpdate
<1> QED BY <1>3, <1>4, <1>5, <1>6, <1>7, <1>8 DEF OpsInv

LEMMA OpsInvNext == OpsInv /\ [OpsNext]_opsVars => OpsInv'
<1> SUFFICES ASSUME OpsInv, [OpsNext]_opsVars PROVE OpsInv'
  OBVIOUS
<1>1. CASE UNCHANGED opsVars
  <2>1. UNCHANGED <<pc, count, reader_n, writer_n, reader_n_mutex, writer_n_mutex,
                    modify_mutex, cmd, st, tmp, result, ledger>>
    BY <1>1 DEF opsVars, stockVars
  <2>2. UNCHANGED <<AtReader, AtWriter, Readers, Writers>> /\ \A i \in Ids : AtNode(i)' = AtNode(i)
    BY <2>1 DEF AtReader, AtWriter, AtNode, Readers, Writers
  <2> QED BY <2>1, <2>2 DEF OpsInv, WorkersRun, InOwnCommand, Locks, ReaderLock, WriterLock,
                            NodeLocks, ExactCounts, NodesTyped, NoLostUpdate
<1> QED BY <1>1, RequestInv, ShowInv, ModInv DEF OpsNext, OpStep

LEMMA OpsAlways == OpsSpec => []OpsInv
BY OpsInvInit, OpsInvNext, PTL DEF OpsSpec

LEMMA OpsInvExact == OpsInv => CountersExact
<1> SUFFICES ASSUME OpsInv PROVE CountersExact
  OBVIOUS
<1>0. WorkersRun /\ InOwnCommand /\ ReaderLock /\ WriterLock /\ NodeLocks /\ ExactCounts
      /\ NodesTyped
  BY DEF OpsInv, Locks
<1>1. {w \in Workers : Reading(w)} = Readers
  BY <1>0 DEF Reading, Counted, Readers, ReadLabels, InOwnCommand, ShowLabels, ModLabels
<1>2. {w \in Workers : Writing(w)} = Writers
  BY <1>0 DEF Writing, Counted, Writers, WriteLabels, InOwnCommand, ShowLabels, ModLabels
<1>3. reader_n \in 0 .. Cardinality(Workers) /\ writer_n \in 0 .. Cardinality(Workers)
  BY <1>0, CountsTyped DEF ExactCounts
<1>4. reader_n_mutex \in {0, 1} /\ writer_n_mutex \in {0, 1}
  BY <1>0 DEF ReaderLock, WriterLock, Guarded
<1>5. StockTypeOK
  BY <1>0, <1>3, <1>4 DEF StockTypeOK, NodesTyped, WorkersRun
<1> QED BY <1>0, <1>1, <1>2, <1>5 DEF CountersExact, ExactCounts

(***************************************************************************)
(* reader_n and writer_n of impl.c count the workers inside show, and      *)
(* inside sell or buy, exactly: no worker spins on a counter that nobody   *)
(* will bring back to 0.                                                   *)
(***************************************************************************)
THEOREM CountersSafe == OpsSpec => []CountersExact
BY OpsAlways, OpsInvExact, PTL

(***************************************************************************)
(* Concurrent sells and buys of a stock add up, wrapping around like int:  *)
(* modify_mutex of binary_tree.c covers both the load and the store.       *)
(***************************************************************************)
THEOREM UpdatesSafe == OpsSpec => []NoLostUpdate
<1>1. OpsInv => NoLostUpdate
  BY DEF OpsInv
<1> QED BY <1>1, OpsAlways, PTL

=============================================================================
