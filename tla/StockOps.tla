------------------------------ MODULE StockOps ------------------------------
(***************************************************************************)
(* The commands of the thread based stock server: show, sell and buy of    *)
(* impl.c over modify() and print_to_buf() of binary_tree.c.  Readers and  *)
(* writers watch each other through the counters reader_n and writer_n,    *)
(* and every node of the tree has a modify_mutex.                          *)
(*                                                                         *)
(* "x++" under a semaphore is two steps, as it is compiled: sem_wait and   *)
(* the load, then the store and sem_post.                                  *)
(***************************************************************************)
EXTENDS Process, StockCommands

VARIABLES
    reader_n, writer_n,              \* the counters of threading.h
    reader_n_mutex, writer_n_mutex,  \* semaphores that guard them
    modify_mutex,                    \* modify_mutex[i]: semaphore of node i
    cmd,      \* cmd[w]: the struct connection that worker w executes
    st,       \* st[w]: the STATUS of that command
    tmp,      \* tmp[w]: the value worker w loaded from a shared variable
    result,   \* result[w]: the stocks whose line is in cnct->result
    ledger    \* history: the count each stock has if no update is lost

stockVars == <<reader_n, writer_n, reader_n_mutex, writer_n_mutex,
               modify_mutex, cmd, st, tmp, result, ledger>>

ShowLabels == {"show_enter", "show_entered", "show_print", "show_leave",
               "show_left"}

ModLabels == {"mod_entered", "mod_spin", "mod_check", "mod_wait", "mod_store",
              "mod_leave", "mod_left"}

StockTypeOK ==
    /\ count \in [Ids -> Int32]
    /\ reader_n \in 0 .. Cardinality(Workers)
    /\ writer_n \in 0 .. Cardinality(Workers)
    /\ reader_n_mutex \in {0, 1}
    /\ writer_n_mutex \in {0, 1}
    /\ modify_mutex \in [Ids -> {0, 1}]
    /\ st \in [Workers -> {"SUCCESS", "ERROR", "NOTENOUGHERR"}]
    /\ tmp \in [Workers -> Int32 \cup 0 .. Cardinality(Workers)]
    /\ result \in [Workers -> SUBSET Ids]
    /\ ledger \in [Ids -> Int32]

StockInit ==
    /\ reader_n = 0 /\ writer_n = 0
    /\ reader_n_mutex = 1 /\ writer_n_mutex = 1
    /\ modify_mutex = [i \in Ids |-> 1]
    /\ st = [w \in Workers |-> "SUCCESS"]
    /\ tmp = [w \in Workers |-> 0]
    /\ result = [w \in Workers |-> {}]
    /\ ledger = count

-----------------------------------------------------------------------------
(* sem_wait(&m) and the load of v; then v = loaded + d and sem_post(&m). *)
LockLoad(w, from, to, m, v) ==
    /\ Goto(w, from, to)
    /\ SemWait(m)
    /\ tmp' = [tmp EXCEPT ![w] = v]

StoreUnlock(w, from, to, m, v, d) ==
    /\ Goto(w, from, to)
    /\ v' = tmp[w] + d
    /\ SemPost(m)
    /\ tmp' = [tmp EXCEPT ![w] = 0]

(***************************************************************************)
(* show()                                                                  *)
(***************************************************************************)
(* Variant: a reader does not watch writer_n. *)
ShowSpin_None(w) ==
    /\ cmd[w].op = "show"
    /\ Goto(w, "exec", "show_enter")
    /\ UNCHANGED <<count, stockVars>>

ShowSpin(w) ==
    /\ cmd[w].op = "show"
    /\ writer_n = 0
    /\ Goto(w, "exec", "show_enter")
    /\ UNCHANGED <<count, stockVars>>

ShowEnter(w) ==
    /\ \/ LockLoad(w, "show_enter", "show_entered", reader_n_mutex, reader_n)
          /\ UNCHANGED reader_n
       \/ StoreUnlock(w, "show_entered", "show_print", reader_n_mutex, reader_n, 1)
    /\ UNCHANGED <<count, writer_n, writer_n_mutex, modify_mutex, cmd, st,
                   result, ledger>>

(* print_to_buf() visits one node. *)
ShowPrint(w) ==
    /\ Goto(w, "show_print", "show_print")
    /\ \E i \in Ids \ result[w] :
        result' = [result EXCEPT ![w] = @ \cup {i}]
    /\ UNCHANGED <<count, reader_n, writer_n, reader_n_mutex, writer_n_mutex,
                   modify_mutex, cmd, st, tmp, ledger>>

(* print_to_buf() is done: SUCCESS, or ERROR if _root is NULL. *)
ShowPrinted(w) ==
    /\ Goto(w, "show_print", "show_leave")
    /\ result[w] = Ids
    /\ st' = [st EXCEPT ![w] = IF Ids = {} THEN "ERROR" ELSE "SUCCESS"]
    /\ UNCHANGED <<count, reader_n, writer_n, reader_n_mutex, writer_n_mutex,
                   modify_mutex, cmd, tmp, result, ledger>>

ShowLeave(w) ==
    /\ \/ LockLoad(w, "show_leave", "show_left", reader_n_mutex, reader_n)
          /\ UNCHANGED reader_n
       \/ StoreUnlock(w, "show_left", "reply", reader_n_mutex, reader_n, -1)
    /\ UNCHANGED <<count, writer_n, writer_n_mutex, modify_mutex, cmd, st,
                   result, ledger>>

ShowStep(w) ==
    \/ ShowSpin(w) \/ ShowEnter(w) \/ ShowPrint(w) \/ ShowPrinted(w)
    \/ ShowLeave(w)

-----------------------------------------------------------------------------
(***************************************************************************)
(* sell() and buy(): modify(id, n) and modify(id, -n).                     *)
(***************************************************************************)
(* Variant: writer_n++ without writer_n_mutex. *)
ModEnter_Unlocked(w) ==
    /\ cmd[w].op \in {"sell", "buy"}
    /\ \/ /\ Goto(w, "exec", "mod_entered")
          /\ tmp' = [tmp EXCEPT ![w] = writer_n]
          /\ UNCHANGED writer_n
       \/ /\ Goto(w, "mod_entered", "mod_spin")
          /\ writer_n' = tmp[w] + 1
          /\ tmp' = [tmp EXCEPT ![w] = 0]
    /\ UNCHANGED <<count, reader_n, reader_n_mutex, writer_n_mutex,
                   modify_mutex, cmd, st, result, ledger>>

ModEnter(w) ==
    /\ cmd[w].op \in {"sell", "buy"}
    /\ \/ LockLoad(w, "exec", "mod_entered", writer_n_mutex, writer_n)
          /\ UNCHANGED writer_n
       \/ StoreUnlock(w, "mod_entered", "mod_spin", writer_n_mutex, writer_n, 1)
    /\ UNCHANGED <<count, reader_n, reader_n_mutex, modify_mutex, cmd, st,
                   result, ledger>>

ModSpin(w) ==
    /\ Goto(w, "mod_spin", "mod_check")
    /\ reader_n = 0
    /\ UNCHANGED <<count, stockVars>>

(* Variant: a failed check returns at once and skips writer_n--. *)
ModCheck_EarlyReturn(w) ==
    LET i == cmd[w].id
        enough == i \in Ids /\ Enough(count[i], cmd[w])
    IN  /\ Goto(w, "mod_check", IF enough THEN "mod_wait" ELSE "reply")
        /\ UNCHANGED <<count, stockVars>>

(* modify(): find() returned NULL, or there is not enough left, or go on. *)
ModCheck(w) ==
    LET i == cmd[w].id
    IN  /\ \/ /\ i \notin Ids
              /\ Goto(w, "mod_check", "mod_leave")
              /\ st' = [st EXCEPT ![w] = "ERROR"]
           \/ /\ i \in Ids /\ ~ Enough(count[i], cmd[w])
              /\ Goto(w, "mod_check", "mod_leave")
              /\ st' = [st EXCEPT ![w] = "NOTENOUGHERR"]
           \/ /\ i \in Ids /\ Enough(count[i], cmd[w])
              /\ Goto(w, "mod_check", "mod_wait")
              /\ UNCHANGED st
        /\ UNCHANGED <<count, reader_n, writer_n, reader_n_mutex,
                       writer_n_mutex, modify_mutex, cmd, tmp, result, ledger>>

(* Variant: the update is not under modify_mutex. *)
ModLoad_Unlocked(w) ==
    /\ Goto(w, "mod_wait", "mod_store")
    /\ tmp' = [tmp EXCEPT ![w] = count[cmd[w].id]]
    /\ UNCHANGED <<count, reader_n, writer_n, reader_n_mutex, writer_n_mutex,
                   modify_mutex, cmd, st, result, ledger>>

ModLoad(w) ==
    LET i == cmd[w].id
    IN  /\ Goto(w, "mod_wait", "mod_store")
        /\ modify_mutex[i] > 0
        /\ modify_mutex' = [modify_mutex EXCEPT ![i] = @ - 1]
        /\ tmp' = [tmp EXCEPT ![w] = count[i]]
        /\ UNCHANGED <<count, reader_n, writer_n, reader_n_mutex,
                       writer_n_mutex, cmd, st, result, ledger>>

ModStore(w) ==
    LET i == cmd[w].id
    IN  /\ Goto(w, "mod_store", "mod_leave")
        /\ count' = [count EXCEPT ![i] = Moved(tmp[w], cmd[w])]
        /\ ledger' = [ledger EXCEPT ![i] = Moved(@, cmd[w])]
        /\ modify_mutex' = [modify_mutex EXCEPT ![i] = @ + 1]
        /\ tmp' = [tmp EXCEPT ![w] = 0]
        /\ st' = [st EXCEPT ![w] = "SUCCESS"]
        /\ UNCHANGED <<reader_n, writer_n, reader_n_mutex, writer_n_mutex,
                       cmd, result>>

ModLeave(w) ==
    /\ \/ LockLoad(w, "mod_leave", "mod_left", writer_n_mutex, writer_n)
          /\ UNCHANGED writer_n
       \/ StoreUnlock(w, "mod_left", "reply", writer_n_mutex, writer_n, -1)
    /\ UNCHANGED <<count, reader_n, reader_n_mutex, modify_mutex, cmd, st,
                   result, ledger>>

ModStep(w) ==
    \/ ModEnter(w) \/ ModSpin(w) \/ ModCheck(w) \/ ModLoad(w) \/ ModStore(w)
    \/ ModLeave(w)

OpStep(w) == ShowStep(w) \/ ModStep(w)

-----------------------------------------------------------------------------
(***************************************************************************)
(* The commands on their own: each worker executes any command, answers,   *)
(* and may execute another.                                                *)
(***************************************************************************)
Request(w) ==
    /\ Goto(w, "reply", "exec")
    /\ \E c \in Commands : cmd' = [cmd EXCEPT ![w] = c]
    /\ result' = [result EXCEPT ![w] = {}]
    /\ UNCHANGED <<count, reader_n, writer_n, reader_n_mutex, writer_n_mutex,
                   modify_mutex, st, tmp, ledger>>

OpsInit ==
    /\ pc = [w \in Workers |-> "reply"]
    /\ count \in [Ids -> 0 .. IntMax]
    /\ cmd = [w \in Workers |-> Show]
    /\ StockInit
    /\ hpc = [w \in Workers |-> "none"]

OpsNext ==
    /\ \E w \in Workers : Request(w) \/ OpStep(w)
    /\ UNCHANGED hpc

opsVars == <<pc, hpc, count, stockVars>>

OpsSpec == OpsInit /\ [][OpsNext]_opsVars

(***************************************************************************)
(* Every worker inside a command is scheduled; a spinning worker runs but  *)
(* advances only when the counter it watches is 0.                         *)
(***************************************************************************)
OpsFairSpec ==
    OpsSpec /\ \A w \in Workers : WF_opsVars(OpStep(w) /\ UNCHANGED hpc)

-----------------------------------------------------------------------------
(***************************************************************************)
(* Properties                                                              *)
(***************************************************************************)
Counted(w) ==
    pc[w] \in {"show_print", "show_leave", "show_left", "mod_spin",
               "mod_check", "mod_wait", "mod_store", "mod_leave", "mod_left"}

Reading(w) == cmd[w].op = "show" /\ Counted(w)

Writing(w) == cmd[w].op # "show" /\ Counted(w)

(***************************************************************************)
(* reader_n and writer_n are the numbers of workers inside show, and       *)
(* inside sell or buy: no increment or decrement is lost, so no worker     *)
(* spins on a counter that nobody will decrement.  The mutexes are 0 or 1. *)
(***************************************************************************)
CountersExact ==
    /\ StockTypeOK
    /\ reader_n = Cardinality({w \in Workers : Reading(w)})
    /\ writer_n = Cardinality({w \in Workers : Writing(w)})

(* No update of a count is lost: concurrent sells and buys of one stock    *)
(* add up.                                                                 *)
NoLostUpdate == count = ledger

(***************************************************************************)
(* A worker accesses the tree: print_to_buf() for show, modify() for the   *)
(* others.                                                                 *)
(***************************************************************************)
Reads(w) == pc[w] = "show_print"

Modifies(w) == pc[w] \in {"mod_check", "mod_wait", "mod_store"}

(* While a writer is in the tree no reader is (threading.h: "while(writing)*)
(* readers wait"; README.md: a lock "of whole binary tree").  It does not  *)
(* hold: the test of writer_n and the increment of reader_n are two steps. *)
ReaderWriterExclusion ==
    \A r, w \in Workers : ~ (Reads(r) /\ Modifies(w))

(* modify() never leaves a stock with a negative count: what is not there  *)
(* cannot be bought.                                                       *)
NeverOversold == \A i \in Ids : count[i] >= 0

(***************************************************************************)
(* A writer that spins on reader_n gets to the tree, whatever the other    *)
(* clients do: its own writer_n keeps new readers out.                     *)
(***************************************************************************)
WriterProceeds ==
    \A w \in Workers : pc[w] = "mod_spin" ~> pc[w] = "mod_check"

=============================================================================
