------------------------------- MODULE Shell -------------------------------
(***************************************************************************)
(* myshell: the loop of interpreter(), its SIGCHLD handler (sig.c), the    *)
(* job table (jobs.c) and the processes it forks (execute.c).              *)
(*                                                                         *)
(* Every line forks one child, the leader, which forks the commands of the *)
(* line and waits for them.  Signals of one kind do not queue.  The        *)
(* handler runs between any two steps of the shell, and while the handler  *)
(* sleeps in sigsuspend() another call of it may run on top: handler is    *)
(* the stack of its calls.                                                 *)
(***************************************************************************)
EXTENDS ShellParser, FiniteSets

CONSTANTS
    Lines(_),   \* the lines the user may type after so many forks
    LongLines,  \* lines that only the parser is checked on
    MaxForks,   \* bound on the number of lines
    MAXJOBS,    \* size of jobs_list
    Beyond      \* an index behind the end of jobs_list

ASSUME ShellAssumption ==
    /\ MaxForks \in Nat \ {0} /\ MAXJOBS \in Nat /\ MAXJOBS > MaxForks
    /\ Beyond \in Nat /\ Beyond > MAXJOBS

ASSUME LongLinesAssumption == LongLines \subseteq Seq(Tokens)

VARIABLES
    pc,          \* where interpreter() is
    parsed,      \* what parser() made of the line, and the job it names
    handler,     \* the calls of sigchild_handler(), the innermost last
    sigchld,     \* SIGCHLD is pending for the shell
    child_pid,
    jobs_list, jobs_front, jobs_rear, jobs_n, jobs_done,
    term,        \* the process group of the terminal
    forks,       \* children forked so far: their pids are 1 .. forks
    child,       \* state of every leader
    stopped,     \* leaders that have stopped and not been waited for
    usr2         \* stopped leaders that SIGUSR2 is pending for

jobVars == <<jobs_list, jobs_front, jobs_rear, jobs_n, jobs_done>>
procVars == <<term, forks, child, stopped, usr2>>
vars == <<pc, parsed, handler, sigchld, child_pid, jobs_list, jobs_front,
          jobs_rear, jobs_n, jobs_done, term, forks, child, stopped, usr2>>

Pids == 1 .. MaxForks
Shell == 0                \* parent_pid as a process group
NoPid == 0
NULL == [pid |-> 0, state |-> "NULL"]
Freed == "freed"          \* the state of a job that has been freed
NoChild == [st |-> "none", mode |-> "FOREGROUND", line |-> "empty", todo |-> <<>>,
            calls |-> <<>>, left |-> 0, inHandler |-> FALSE, was |-> "waiting"]
NoLine == [commands |-> <<>>, status |-> "OK", mode |-> "FOREGROUND", job |-> 0]

Ended == {"done", "exited"}   \* by the end of the input or an abort, or by exit

Alive == {p \in Pids : child[p].st \in {"new", "forking", "waiting", "stopped"}}
Zombies == {p \in Pids : child[p].st \in {"exited", "killed"}}

(* A leader leaves the group of the shell when it has a command to run. *)
InShellGroup(p) == \/ child[p].st = "new"
                   \/ p \in Zombies /\ child[p].line = "empty"

-----------------------------------------------------------------------------
(***************************************************************************)
(* The job table (jobs.c).  A freed job keeps its place: what is read from *)
(* it later is whatever the memory holds then.                             *)
(***************************************************************************)
insert_jobs(pgid, state) ==
    /\ jobs_n' = jobs_n + 1
    /\ jobs_list' = [jobs_list EXCEPT ![jobs_rear] = [pid |-> pgid, state |-> state]]
    /\ jobs_rear' = jobs_rear + 1
    /\ UNCHANGED <<jobs_front, jobs_done>>

(* jobs_done is read as long as it is not 0; a second free aborts. *)
print_done_jobs ==
    /\ jobs_list' = [i \in DOMAIN jobs_list |->
          IF i \in jobs_done THEN [jobs_list[i] EXCEPT !.state = Freed] ELSE jobs_list[i]]
    /\ jobs_n' = jobs_n - Cardinality(jobs_done)
    /\ jobs_done' = {}
    /\ UNCHANGED <<jobs_front, jobs_rear>>

DoubleFree == \E i \in jobs_done : jobs_list[i].state = Freed

(* A freed job may look terminated. *)
reap_dead_jobs ==
    \E freed \in SUBSET {i \in jobs_front .. jobs_rear - 1 : jobs_list[i].state = Freed} :
        /\ jobs_done' = freed \cup {i \in jobs_front .. jobs_rear - 1 :
                                       jobs_list[i].state = "TERMINATED"}
        /\ jobs_front' = IF jobs_n = 0 THEN 1 ELSE jobs_front
        /\ jobs_rear' = IF jobs_n = 0 THEN 1 ELSE jobs_rear
        /\ UNCHANGED <<jobs_list, jobs_n>>

(* The scan for the first entry that is not NULL has no bound. *)
FirstJob ==
    LET at == {i \in jobs_front .. MAXJOBS : jobs_list[i] # NULL}
    IN  IF at = {} THEN Beyond ELSE CHOOSE i \in at : \A j \in at : i <= j

(***************************************************************************)
(* The job of a child that has exited is marked, if it has one.  A freed   *)
(* job may still show the pid, and is then found instead.                  *)
(***************************************************************************)
find_jobs_by_pid(pid) ==
    LET at == {i \in FirstJob .. jobs_rear - 1 : jobs_list[i].pid = pid}
        live == {i \in at : jobs_list[i].state # Freed}
    IN  /\ jobs_front' = FirstJob
        /\ \E found \in {live \cup old : old \in SUBSET (at \ live)} :
             jobs_list' = [i \in DOMAIN jobs_list |->
                 IF i \in live /\ \A j \in found : i <= j
                 THEN [jobs_list[i] EXCEPT !.state = "TERMINATED"] ELSE jobs_list[i]]
        /\ UNCHANGED <<jobs_rear, jobs_n, jobs_done>>

-----------------------------------------------------------------------------
(***************************************************************************)
(* Signals to a leader.  Before it has installed its handlers it ignores   *)
(* them, as its parent does; while it is stopped they stay pending.        *)
(***************************************************************************)
End(p, how) == [child EXCEPT ![p].st = how, ![p].todo = <<>>, ![p].calls = <<>>,
                             ![p].left = 0, ![p].inHandler = FALSE]

(* SIGUSR2: the commands are killed and the leader exits.  The signal is   *)
(* sent by the shell or by a process that leaves the others in state ch.   *)
SEND_USR2(ch, ps) ==
    LET dead == {p \in ps : child[p].st \in {"forking", "waiting"}}
    IN  /\ child' = [p \in Pids |-> IF p \in dead THEN End(p, "exited")[p] ELSE ch[p]]
        /\ sigchld' = (sigchld \/ dead # {})
        /\ usr2' = usr2 \cup {p \in ps : child[p].st = "stopped"}

(***************************************************************************)
(* SIGCONT and SIGUSR1: the leader goes on, where it was, in its handler,  *)
(* and takes the terminal; what was pending is delivered.                  *)
(***************************************************************************)
SEND_CONTINUE_USR1(ch, p) ==
    IF p \in usr2
    THEN /\ child' = [ch EXCEPT ![p] = End(p, "exited")[p]] /\ sigchld' = TRUE
         /\ usr2' = usr2 \ {p} /\ stopped' = stopped \ {p}
         /\ UNCHANGED term
    ELSE /\ child' = IF child[p].st \in {"forking", "waiting", "stopped"}
                     THEN [ch EXCEPT ![p].inHandler = TRUE,
                                     ![p].st = IF @ = "stopped" THEN child[p].was ELSE @]
                     ELSE ch
         /\ term' = IF child[p].st \in {"forking", "waiting", "stopped"} THEN p ELSE term
         /\ stopped' = stopped \ {p}
         /\ UNCHANGED <<usr2, sigchld>>

-----------------------------------------------------------------------------
(***************************************************************************)
(* The handler.                                                            *)
(***************************************************************************)
Top == handler[Len(handler)]
Return == SubSeq(handler, 1, Len(handler) - 1)

(* The call below wakes up from sigsuspend(). *)
Pop == LET s == Return
       IN  IF s = <<>> THEN s ELSE [s EXCEPT ![Len(s)] = "loop"]

(* SIGCHLD is blocked while its handler runs, except in sigsuspend(). *)
Interruptible == IF handler = <<>> THEN TRUE ELSE Top = "sigsuspend"

Deliver ==
    /\ sigchld /\ pc \notin Ended /\ Interruptible
    /\ sigchld' = FALSE
    /\ handler' = Append(handler, "loop")
    /\ UNCHANGED <<pc, parsed, child_pid, jobVars, procVars>>

Asleep == IF handler = <<>> THEN FALSE ELSE Top = "sigsuspend"

InHandler == handler # <<>> /\ Top = "loop" /\ pc \notin Ended

(* waitpid(-1) has found a leader that has stopped. *)
HandlerStopped(p) ==
    /\ InHandler /\ p \in stopped
    /\ stopped' = stopped \ {p}
    /\ insert_jobs(child_pid, "SUSPENDED")
    /\ UNCHANGED <<pc, parsed, handler, sigchld, child_pid, term, forks, child, usr2>>

HandlerExited(p) ==
    /\ InHandler /\ child[p].st = "exited"
    /\ child' = [child EXCEPT ![p].st = "reaped"]
    /\ IF p = child_pid THEN child_pid' = NoPid /\ UNCHANGED jobVars
       ELSE find_jobs_by_pid(p) /\ UNCHANGED child_pid
    /\ UNCHANGED <<pc, parsed, handler, sigchld, term, forks, stopped, usr2>>

HandlerKilled(p) ==
    /\ InHandler /\ child[p].st = "killed"
    /\ child' = [child EXCEPT ![p].st = "reaped"]
    /\ handler' = [handler EXCEPT ![Len(handler)] = "sigsuspend"]
    /\ UNCHANGED <<pc, parsed, sigchld, child_pid, jobVars, term, forks, stopped, usr2>>

(* Variant: one child for every signal. *)
HandlerReturn_Once ==
    /\ InHandler
    /\ handler' = Pop
    /\ term' = Shell
    /\ UNCHANGED <<pc, parsed, sigchld, child_pid, jobVars, forks, child, stopped, usr2>>

(* Variant: the terminal stays with the child that was waited for. *)
HandlerReturn_KeepTerm ==
    /\ InHandler /\ Zombies = {} /\ stopped = {}
    /\ handler' = Pop
    /\ UNCHANGED <<pc, parsed, sigchld, child_pid, jobVars, procVars>>

HandlerReturn ==
    /\ InHandler /\ Zombies = {} /\ stopped = {}
    /\ handler' = Pop
    /\ term' = Shell
    /\ UNCHANGED <<pc, parsed, sigchld, child_pid, jobVars, forks, child, stopped, usr2>>

-----------------------------------------------------------------------------
(***************************************************************************)
(* The shell.                                                              *)
(***************************************************************************)
At(where) == pc = where /\ handler = <<>>

initialize ==
    /\ At("boot")
    /\ pc' = "read"
    /\ UNCHANGED <<parsed, handler, sigchld, child_pid, jobVars, procVars>>

(* A builtin runs in the shell unless it is in the background or piped. *)
IsBuiltin(r) ==
    /\ Len(r.commands) = 1 /\ r.commands[1] \in functions /\ r.mode = "FOREGROUND"

ReadLine(line) ==
    /\ At("read") /\ (forks < MaxForks \/ DoubleFree)
    /\ IF DoubleFree THEN pc' = "done" /\ UNCHANGED <<parsed, jobVars>>
       ELSE /\ print_done_jobs
            /\ parsed' = [commands |-> parser(line.tokens).commands,
                          status |-> parser(line.tokens).status,
                          mode |-> parser(line.tokens).mode, job |-> line.job]
            /\ pc' = IF IsBuiltin(parsed') THEN "builtin" ELSE "fork"
    /\ UNCHANGED <<handler, sigchld, child_pid, procVars>>

EndOfFile ==
    /\ At("read")
    /\ pc' = "done"
    /\ UNCHANGED <<parsed, handler, sigchld, child_pid, jobVars, procVars>>

Builtin(name) == At("builtin") /\ parsed.commands[1] = name

(* chdir(), which nothing here depends on. *)
change_directory ==
    /\ Builtin("cd")
    /\ pc' = "fork"
    /\ UNCHANGED <<parsed, handler, sigchld, child_pid, jobVars, procVars>>

(* The table is printed; to read a freed job may end the shell. *)
print_jobs ==
    /\ Builtin("jobs")
    /\ pc' \in {"fork"} \cup {how \in {"done"} :
          \E i \in jobs_front .. jobs_rear - 1 : jobs_list[i].state = Freed}
    /\ UNCHANGED <<parsed, handler, sigchld, child_pid, jobVars, procVars>>

Job == jobs_list[parsed.job]

(* No such job, a job that has terminated, or a freed one: to use it ends  *)
(* the shell, unless it is taken for one that has terminated.              *)
NotAJob(name) ==
    /\ Builtin(name)
    /\ Job = NULL \/ Job.state \in {"TERMINATED", Freed}
    /\ pc' \in {"fork"} \cup {how \in {"done"} : Job.state = Freed}
    /\ UNCHANGED <<parsed, handler, sigchld, child_pid, jobVars, procVars>>

Usable(state) == state \in {"RUNNING", "SUSPENDED"}

fg ==
    /\ Builtin("fg") /\ Job # NULL /\ Usable(Job.state)
    /\ child_pid' = Job.pid
    /\ jobs_list' = [jobs_list EXCEPT ![parsed.job].state = Freed]
    /\ jobs_n' = jobs_n - 1
    /\ IF Job.pid \in Pids THEN SEND_CONTINUE_USR1(child, Job.pid)
       ELSE UNCHANGED <<child, term, stopped, usr2, sigchld>>
    /\ pc' = "fgcall"
    /\ UNCHANGED <<parsed, handler, jobs_front, jobs_rear, jobs_done, forks>>

bg ==
    /\ Builtin("bg") /\ Job # NULL /\ Usable(Job.state)
    /\ jobs_list' = [jobs_list EXCEPT ![parsed.job].state = "RUNNING"]
    /\ IF Job.pid \in Pids THEN SEND_CONTINUE_USR1(child, Job.pid)
       ELSE UNCHANGED <<child, term, stopped, usr2, sigchld>>
    /\ pc' = "fork"
    /\ UNCHANGED <<parsed, handler, child_pid, jobs_front, jobs_rear, jobs_n,
                   jobs_done, forks>>

kill_job ==
    /\ Builtin("kill") /\ Job # NULL /\ Usable(Job.state)
    /\ jobs_list' = [jobs_list EXCEPT ![parsed.job].state = "TERMINATED"]
    /\ SEND_USR2(child, {Job.pid} \cap Pids)
    /\ pc' = "fork"
    /\ UNCHANGED <<parsed, handler, child_pid, jobs_front, jobs_rear, jobs_n,
                   jobs_done, term, forks, stopped>>

(* The children that exit_() signals: a freed job may still name its own. *)
ListedPids ==
    LET Named(js) == {jobs_list[i].pid : i \in js} \cap Pids
        freed == {j \in jobs_front .. jobs_rear - 1 : jobs_list[j].state = Freed}
    IN  {Named((jobs_front .. jobs_rear - 1) \ lost) : lost \in SUBSET freed}

exit_ ==
    /\ Builtin("exit")
    /\ \E ps \in ListedPids : SEND_USR2(child, ps)
    /\ pc' = "exitwait"
    /\ UNCHANGED <<parsed, handler, child_pid, jobVars, term, forks, stopped>>

(* waitpid(-1, NULL, 0) in a loop, until there is no child. *)
ExitReap(p) ==
    /\ At("exitwait") /\ p \in Zombies
    /\ child' = [child EXCEPT ![p].st = "reaped"]
    /\ UNCHANGED <<pc, parsed, handler, sigchld, child_pid, jobVars, term, forks,
                   stopped, usr2>>

(* Variant: exit waits until the job table is empty. *)
ExitDone_Table ==
    /\ At("exitwait") /\ Zombies \cup Alive = {} /\ jobs_n = 0
    /\ pc' = "exited"
    /\ UNCHANGED <<parsed, handler, sigchld, child_pid, jobVars, procVars>>

ExitDone ==
    /\ At("exitwait") /\ Zombies \cup Alive = {}
    /\ pc' = "exited"
    /\ UNCHANGED <<parsed, handler, sigchld, child_pid, jobVars, procVars>>

(***************************************************************************)
(* A builtin in the background or in a pipe runs in a process of its own,  *)
(* on a copy of the table: only its signals have an effect.                *)
(***************************************************************************)
Call(name, listed) ==
    LET job == IF Job # NULL /\ Usable(Job.state) THEN {Job.pid} \cap Pids ELSE {}
    IN  CASE name \in {"fg", "bg"} -> [sig |-> "USR1", to |-> job]
          [] name = "kill" -> [sig |-> "USR2", to |-> job]
          [] name = "exit" -> [sig |-> "USR2", to |-> listed]
          [] OTHER -> [sig |-> "none", to |-> {}]

(* A builtin that has run leaves no command for the child. *)
Fork ==
    /\ At("fork")
    /\ forks' = forks + 1
    /\ \E listed \in ListedPids : child' = [child EXCEPT ![forks + 1] =
          [NoChild EXCEPT !.st = "new", !.mode = parsed.mode,
           !.line = CASE IsBuiltin(parsed) \/ parsed.commands = <<>> -> "empty"
                      [] ~ IsBuiltin(parsed) /\ parsed.commands # <<>>
                         /\ parsed.status # "OK" -> "error"
                      [] OTHER -> "OK",
           !.todo = IF IsBuiltin(parsed) THEN <<>>
                    ELSE [k \in DOMAIN parsed.commands |->
                             Call(parsed.commands[k], listed)]]]
    /\ pc' = IF parsed.mode = "FOREGROUND" THEN "foreground" ELSE "background"
    /\ UNCHANGED <<parsed, handler, sigchld, child_pid, jobVars, term, stopped, usr2>>

Foreground ==
    /\ At("foreground")
    /\ child_pid' = forks
    /\ pc' = "reap"
    /\ UNCHANGED <<parsed, handler, sigchld, jobVars, procVars>>

ReapDead ==
    /\ At("reap")
    /\ reap_dead_jobs
    /\ pc' = "wait"
    /\ UNCHANGED <<parsed, handler, sigchld, child_pid, procVars>>

Background ==
    /\ At("background")
    /\ insert_jobs(forks, "RUNNING")
    /\ pc' = "read"
    /\ UNCHANGED <<parsed, handler, sigchld, child_pid, procVars>>

(* waitpid(0) is about the children in the group of the shell. *)
WaitedFor(pid) ==
    IF pid = NoPid THEN {p \in Alive \cup Zombies : InShellGroup(p)} ELSE {pid}

(* Variant: waitpid() does not block. *)
WaitOn_NoHang(pid) ==
    /\ IF pid \in stopped THEN insert_jobs(child_pid, "SUSPENDED") ELSE UNCHANGED jobVars
    /\ stopped' = stopped \ {pid}
    /\ child' = IF pid \in Zombies THEN [child EXCEPT ![pid].st = "reaped"] ELSE child

(***************************************************************************)
(* waitpid(pid, &st, WUNTRACED): a child that stops becomes a job.  If the *)
(* handler was first, there is no such child and st is not initialised.    *)
(***************************************************************************)
WaitOn(pid) ==
    \/ /\ pid \in stopped
       /\ stopped' = stopped \ {pid}
       /\ insert_jobs(child_pid, "SUSPENDED")
       /\ UNCHANGED child
    \/ /\ \E p \in WaitedFor(pid) \cap Zombies : child' = [child EXCEPT ![p].st = "reaped"]
       /\ UNCHANGED <<stopped, jobVars>>
    \/ /\ WaitedFor(pid) \cap (Alive \cup Zombies) = {}
       /\ UNCHANGED jobVars \/ insert_jobs(child_pid, "SUSPENDED")
       /\ UNCHANGED <<stopped, child>>

Wait ==
    /\ At("wait")
    /\ WaitOn(forks)
    /\ pc' = "read"
    /\ UNCHANGED <<parsed, handler, sigchld, child_pid, term, forks, usr2>>

(* fg waits for child_pid, which a handler may have set to 0 before. *)
FgCall ==
    /\ At("fgcall")
    /\ parsed' = [parsed EXCEPT !.job = child_pid]
    /\ pc' = "fgwait"
    /\ UNCHANGED <<handler, sigchld, child_pid, jobVars, procVars>>

FgWait ==
    /\ At("fgwait")
    /\ WaitOn(parsed.job)
    /\ pc' = "fork"
    /\ UNCHANGED <<parsed, handler, sigchld, child_pid, term, forks, usr2>>

-----------------------------------------------------------------------------
(***************************************************************************)
(* The leaders.  When a command ends, the leader's own handler waits for   *)
(* all commands that are left, so that it is in the handler until then.    *)
(***************************************************************************)
ChildStart(p) ==
    /\ child[p].st = "new"
    /\ IF child[p].line = "empty"
       THEN child' = End(p, "exited") /\ sigchld' = TRUE /\ UNCHANGED term
       ELSE /\ child' = [child EXCEPT ![p].st = "forking"]
            /\ term' = IF child[p].mode = "FOREGROUND" THEN p ELSE term
            /\ UNCHANGED sigchld
    /\ UNCHANGED <<pc, parsed, handler, child_pid, jobVars, forks, stopped, usr2>>

(* A line with an error ends the leader after it took the terminal. *)
ChildError(p) ==
    /\ child[p].st = "forking" /\ ~ child[p].inHandler /\ child[p].line = "error"
    /\ child' = End(p, "exited") /\ sigchld' = TRUE
    /\ UNCHANGED <<pc, parsed, handler, child_pid, jobVars, term, forks, stopped, usr2>>

execute_commands(p) ==
    /\ child[p].st = "forking" /\ ~ child[p].inHandler
    /\ child[p].line = "OK" /\ child[p].todo # <<>>
    /\ child' = [child EXCEPT ![p].todo = Tail(@), ![p].left = @ + 1,
                     ![p].calls = IF Head(child[p].todo).to = {} THEN @
                                  ELSE Append(@, Head(child[p].todo))]
    /\ UNCHANGED <<pc, parsed, handler, sigchld, child_pid, jobVars, term, forks,
                   stopped, usr2>>

(* The process of a builtin sends its signals. *)
switch_case_cmd(p) ==
    /\ child[p].st \in {"forking", "waiting"} /\ child[p].calls # <<>>
    /\ LET call == Head(child[p].calls)
           ch == [child EXCEPT ![p].calls = Tail(@)]
       IN  IF call.sig = "USR2"
           THEN SEND_USR2(ch, call.to \cap Pids) /\ UNCHANGED <<term, stopped>>
           ELSE \E q \in call.to \cap Pids : SEND_CONTINUE_USR1(ch, q)
    /\ UNCHANGED <<pc, parsed, handler, child_pid, jobVars, forks>>

(* sigsuspend(): if all commands have ended by now, nothing wakes it up. *)
ChildSuspend(p) ==
    /\ child[p].st = "forking" /\ ~ child[p].inHandler
    /\ child[p].line = "OK" /\ child[p].todo = <<>>
    /\ child' = [child EXCEPT ![p].st = "waiting"]
    /\ UNCHANGED <<pc, parsed, handler, sigchld, child_pid, jobVars, term, forks,
                   stopped, usr2>>

CommandEnds(p) ==
    /\ child[p].st \in {"forking", "waiting"} /\ child[p].left > Len(child[p].calls)
    /\ IF child[p].st = "waiting" /\ child[p].left = 1
       THEN child' = End(p, "exited") /\ sigchld' = TRUE
       ELSE /\ child' = [child EXCEPT ![p].left = @ - 1,
                                      ![p].inHandler = (child[p].left > 1)]
            /\ UNCHANGED sigchld
    /\ UNCHANGED <<pc, parsed, handler, child_pid, jobVars, term, forks, stopped, usr2>>

-----------------------------------------------------------------------------
(***************************************************************************)
(* The keyboard.                                                           *)
(***************************************************************************)
(* SIGINT kills the leader and its commands; the shell ignores it. *)
CtrlC ==
    /\ term \in Pids /\ child[term].st \in {"forking", "waiting"}
    /\ child' = End(term, "killed") /\ sigchld' = TRUE
    /\ UNCHANGED <<pc, parsed, handler, child_pid, jobVars, term, forks, stopped, usr2>>

(* A leader that is still in the group of the shell and has set SIGINT to  *)
(* its default dies with the shell ignoring the signal.                    *)
CtrlCNew(p) ==
    /\ term = Shell /\ child[p].st = "new"
    /\ child' = [End(p, "killed") EXCEPT ![p].line = "empty"] /\ sigchld' = TRUE
    /\ UNCHANGED <<pc, parsed, handler, child_pid, jobVars, term, forks, stopped, usr2>>

(***************************************************************************)
(* sigtstp_handler() of the leader gives the terminal back.  Commands stop *)
(* and the leader, told by SIGCHLD, stops itself; those that are not yet   *)
(* executed, and builtins in a pipe, have the handler and go on.  A leader *)
(* that is not told wakes up from sigsuspend(), and exits if it has forked *)
(* them all; in the waitpid() of its handler it stays.                     *)
(***************************************************************************)
CtrlZ ==
    /\ term \in Pids /\ child[term].st \in {"forking", "waiting"}
    /\ \/ /\ child[term].left > 0
          /\ child' = [child EXCEPT ![term].st = "stopped", ![term].was = child[term].st]
          /\ stopped' = stopped \cup {term} /\ sigchld' = TRUE
       \/ /\ child[term].st = "waiting"
          /\ child' = End(term, "exited") /\ sigchld' = TRUE /\ UNCHANGED stopped
       \/ \E stays \in {FALSE, child[term].inHandler /\ child[term].left > 0} :
          /\ stays \/ child[term].st = "forking"
          /\ child' = [child EXCEPT ![term].inHandler = stays]
          /\ UNCHANGED <<stopped, sigchld>>
    /\ term' = Shell
    /\ UNCHANGED <<pc, parsed, handler, child_pid, jobVars, forks, usr2>>

(* sigtstp_handler() of the shell. *)
CtrlZShell ==
    /\ term = Shell /\ pc \notin Ended \cup {"boot"} /\ Interruptible
    /\ child_pid' = NoPid
    /\ handler' = IF handler = <<>> THEN handler
                  ELSE [handler EXCEPT ![Len(handler)] = "loop"]
    /\ UNCHANGED <<pc, parsed, sigchld, jobVars, procVars>>

Done == pc \in Ended /\ UNCHANGED vars

-----------------------------------------------------------------------------
Init ==
    /\ pc = "boot" /\ parsed = NoLine
    /\ handler = <<>> /\ sigchld = FALSE /\ child_pid = NoPid
    /\ jobs_list = [i \in 1 .. MAXJOBS |-> NULL]
    /\ jobs_front = 1 /\ jobs_rear = 1 /\ jobs_n = 0 /\ jobs_done = {}
    /\ term = Shell /\ forks = 0
    /\ child = [p \in Pids |-> NoChild]
    /\ stopped = {} /\ usr2 = {}

(* The lines are used up: the user types the end of the file. *)
ShellStep ==
    \/ initialize \/ change_directory \/ print_jobs
    \/ NotAJob("fg") \/ NotAJob("bg") \/ NotAJob("kill")
    \/ fg \/ bg \/ kill_job \/ exit_
    \/ \E p \in Pids : ExitReap(p)
    \/ ExitDone
    \/ Fork \/ Foreground \/ ReapDead \/ Background \/ Wait
    \/ FgCall \/ FgWait

HandlerStep ==
    \/ Deliver
    \/ \E p \in Pids : HandlerStopped(p) \/ HandlerExited(p) \/ HandlerKilled(p)
    \/ HandlerReturn

ChildStep(p) ==
    \/ ChildStart(p) \/ ChildError(p) \/ execute_commands(p) \/ switch_case_cmd(p)
    \/ ChildSuspend(p) \/ CommandEnds(p)

User ==
    \/ \E line \in Lines(forks) : ReadLine(line)
    \/ EndOfFile \/ CtrlC \/ CtrlZ \/ CtrlZShell
    \/ \E p \in Pids : CtrlCNew(p)

Next ==
    \/ ShellStep
    \/ HandlerStep
    \/ \E p \in Pids : ChildStep(p)
    \/ User
    \/ Done

(* The scheduler runs every process, and the kernel delivers signals. *)
Spec == /\ Init /\ [][Next]_vars
        /\ WF_vars(ShellStep) /\ WF_vars(HandlerStep)
        /\ \A p \in Pids : WF_vars(ChildStep(p))

-----------------------------------------------------------------------------
(***************************************************************************)
(* Properties                                                              *)
(***************************************************************************)
TypeOK ==
    /\ pc \in {"boot", "read", "builtin", "fgcall", "fgwait", "exitwait", "fork", "foreground",
               "reap", "wait", "background"} \cup Ended
    /\ child_pid \in Pids \cup {NoPid} /\ term \in Pids \cup {Shell}
    /\ jobs_rear \in 1 .. MAXJOBS + 1 /\ jobs_front \in 1 .. Beyond
    /\ jobs_n \in 0 .. MAXJOBS
    /\ jobs_done \subseteq 1 .. MAXJOBS
    /\ stopped \subseteq Pids

(***************************************************************************)
(* The prompt comes back only after the child of a foreground line has     *)
(* stopped or ended, although the handler may take the child from          *)
(* waitpid().  What the two have done to the job table is left open.       *)
(***************************************************************************)
PromptAfterForeground ==
    [][pc = "wait" /\ pc' = "read" => child[forks].st \in {"stopped", "exited", "killed", "reaped"}]_vars

(***************************************************************************)
(* exit ends the shell, also when a leader has not installed its handler   *)
(* yet and ignores SIGUSR2, and when the handler reaps children that       *)
(* exit_() waits for.  It waits for ever only if the handler sleeps in     *)
(* sigsuspend(), or for a leader that is stopped or that sleeps itself     *)
(* with no command left to wake it up.                                     *)
(***************************************************************************)
NeverEnds(p) == \/ child[p].st = "stopped"
                \/ child[p].st = "waiting" /\ child[p].left = 0
                \/ child[p].st = "forking" /\ child[p].left = 0 /\ child[p].inHandler

ExitEnds == []<>(pc # "exitwait") \/ <>[](Asleep \/ \E p \in Pids : NeverEnds(p))

(***************************************************************************)
(* When no child is left and no signal is pending, the terminal belongs to *)
(* the shell, whichever child took it last and whoever waited for it.  The *)
(* job table stays within its bounds.                                      *)
(***************************************************************************)
IdleOwnsTerminal ==
    /\ TypeOK
    /\ Alive \cup Zombies = {} /\ ~ sigchld /\ handler = <<>> => term = Shell

(***************************************************************************)
(* Every child that has ended is reaped, also when several end while one   *)
(* SIGCHLD is pending, unless the handler sleeps on a child that was       *)
(* killed.                                                                 *)
(***************************************************************************)
ZombiesReaped ==
    \A p \in Pids : p \in Zombies ~> (p \notin Zombies \/ pc \in Ended \/ Asleep)

(***************************************************************************)
(* What interpreter() says of a foreground line, that the shell is         *)
(* suspended until the child it forked sends SIGCHLD: once that child has  *)
(* ended, the shell goes on.  It does not hold: the handler that finds a   *)
(* killed child sleeps in sigsuspend() for ever.                           *)
(***************************************************************************)
ForegroundReturns ==
    (pc = "wait" /\ forks \notin Alive) ~> pc # "wait"

(* Binary search by two characters finds every name of command_list. *)
FindsEveryCommand ==
    pc = "boot" => \A k \in DOMAIN command_list :
        find_shell_command(command_list[k]) = command_list[k].begins

(***************************************************************************)
(* A line with few arguments is accepted exactly if it is a command line,  *)
(* and then it has as many commands as pipes separate; and every command   *)
(* of command_list is found.                                               *)
(***************************************************************************)
ParserFollowsGrammar ==
    /\ FindsEveryCommand
    /\ pc = "boot" => \A line \in LongLines \ {<<>>} : FewArguments(line) =>
        LET r == parser(line)
        IN  /\ (r.status = "OK") = IsCommandLine(line)
            /\ r.status = "OK" => Len(r.commands) = Cardinality(Heads(line))

=============================================================================
