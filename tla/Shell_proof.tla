---------------------------- MODULE Shell_proof ----------------------------
(***************************************************************************)
(* Proofs about myshell, for every number of lines and whatever they say:  *)
(* the prompt comes back after the foreground child, the terminal comes    *)
(* back to the shell, and parser() follows the grammar of command lines.   *)
(***************************************************************************)
EXTENDS Shell, SequenceTheorems, FiniteSetTheorems, WellFoundedInduction, TLAPS

AliveStates == {"new", "forking", "waiting", "stopped"}
ZombieStates == {"exited", "killed"}
ChildStates == {"none", "reaped"} \cup AliveStates \cup ZombieStates

(* A record with the fields of a leader.  Nothing is said of its commands: *)
(* what parser() made of the line does not matter here.                    *)
IsLeader(c) ==
    /\ c = [st |-> c.st, mode |-> c.mode, line |-> c.line, todo |-> c.todo,
            calls |-> c.calls, left |-> c.left, inHandler |-> c.inHandler, was |-> c.was]
    /\ c.st \in ChildStates /\ c.was \in {"forking", "waiting"}

Leaders(ch) == ch = [p \in Pids |-> ch[p]] /\ \A p \in Pids : IsLeader(ch[p])

LineLabels == {"builtin", "fgcall", "fgwait", "fork"}
ForkedLabels == {"foreground", "reap", "wait", "background"}
Labels == {"boot", "read", "exitwait"} \cup LineLabels \cup ForkedLabels \cup Ended

Typed ==
    /\ pc \in Labels
    /\ handler \in Seq({"loop", "sigsuspend"})
    /\ sigchld \in BOOLEAN
    /\ term \in Pids \cup {Shell}
    /\ forks \in 0 .. MaxForks

(* A line that is being executed has, or has had, a child to fork. *)
Counted ==
    /\ pc \in LineLabels => forks < MaxForks
    /\ pc \in ForkedLabels => forks > 0
    /\ \A p \in Pids : child[p].st # "none" <=> p <= forks

(* What waitpid() can still report as stopped is, and so is every leader   *)
(* that SIGUSR2 waits for.                                                 *)
StoppedAre == \A p \in Pids : p \in stopped \cup usr2 => child[p].st = "stopped"

(* Whoever has the terminal is alive, or its end will make the handler     *)
(* take the terminal back.                                                 *)
TerminalOwned ==
    term \in Pids => term \in Alive \/ sigchld \/ handler # <<>>

ShellInv ==
    /\ Typed /\ Leaders(child) /\ Counted /\ StoppedAre /\ TerminalOwned

-----------------------------------------------------------------------------
LEMMA AliveIs ==
    /\ Alive = {p \in Pids : child[p].st \in AliveStates}
    /\ Zombies = {p \in Pids : child[p].st \in ZombieStates}
BY DEF Alive, Zombies, AliveStates, ZombieStates

(***************************************************************************)
(* What a step may do to a leader whose state goes from a to b: it ends    *)
(* only with a SIGCHLD to the shell.                                       *)
(***************************************************************************)
Becomes(a, b, told) ==
    \/ b = a
    \/ a \in AliveStates /\ b \in AliveStates
    \/ a \in AliveStates /\ b \in ZombieStates /\ told
    \/ a \in ZombieStates /\ b = "reaped"

LeadersMove ==
    /\ Leaders(child')
    /\ \A p \in Pids : Becomes(child[p].st, child'[p].st, sigchld')

(* What a step may do to the terminal. *)
TermMoves ==
    \/ term' = Shell
    \/ term' \in Pids /\ child'[term'].st \in AliveStates
    \/ /\ term' = term
       /\ sigchld => sigchld' \/ handler' # <<>>
       /\ handler # <<>> => handler' # <<>>

LEMMA ShellKeeps ==
    ASSUME ShellInv, pc' \in Labels, handler' \in Seq({"loop", "sigsuspend"}),
           sigchld' \in BOOLEAN, forks' = forks, LeadersMove, TermMoves, StoppedAre',
           pc' \in LineLabels => forks < MaxForks,
           pc' \in ForkedLabels => forks > 0
    PROVE  ShellInv'
<1>1. Typed /\ Leaders(child) /\ Counted /\ TerminalOwned
  BY DEF ShellInv
<1>2. Shell \notin Pids
  BY DEF Shell, Pids
<1>3. Typed'
  BY <1>1 DEF Typed, TermMoves
<1>4. \A p \in Pids : child[p].st # "none" <=> child'[p].st # "none"
  BY DEF LeadersMove, Becomes, AliveStates, ZombieStates
<1>5. Counted'
  BY <1>1, <1>4 DEF Counted
<1>6. TerminalOwned'
  <2> SUFFICES ASSUME term' \in Pids
               PROVE  child'[term'].st \in AliveStates \/ sigchld' \/ handler' # <<>>
    BY AliveIs DEF TerminalOwned, Alive, AliveStates
  <2>1. CASE /\ term' = term
             /\ sigchld => sigchld' \/ handler' # <<>>
             /\ handler # <<>> => handler' # <<>>
    <3>1. CASE child[term].st \in AliveStates
      <4>1. Becomes(child[term].st, child'[term].st, sigchld')
        BY <2>1 DEF LeadersMove
      <4> QED BY <2>1, <3>1, <4>1 DEF Becomes, AliveStates, ZombieStates
    <3> QED BY <1>1, <2>1, <3>1, AliveIs DEF TerminalOwned
  <2> QED BY <1>2, <2>1 DEF TermMoves
<1> QED BY <1>3, <1>5, <1>6 DEF ShellInv, LeadersMove

(* A record or a table of leaders with some fields changed. *)
LEMMA EndIs ==
    ASSUME Leaders(child), NEW p \in Pids, NEW how \in ZombieStates
    PROVE  /\ Leaders(End(p, how))
           /\ \A q \in Pids : End(p, how)[q].st = IF q = p THEN how ELSE child[q].st
<1>1. End(p, how)[p] = [st |-> how, mode |-> child[p].mode, line |-> child[p].line, todo |-> <<>>,
                        calls |-> <<>>, left |-> 0, inHandler |-> FALSE, was |-> child[p].was]
  <2>1. PICK s, m, l, t, k, n, h, w :
            child[p] = [st |-> s, mode |-> m, line |-> l, todo |-> t, calls |-> k, left |-> n,
                        inHandler |-> h, was |-> w]
    BY DEF Leaders, IsLeader
  <2> QED BY <2>1 DEF Leaders, End
<1>2. End(p, how) = [q \in Pids |-> End(p, how)[q]] /\ \A q \in Pids : q # p => End(p, how)[q] = child[q]
  BY DEF Leaders, End
<1> QED BY <1>1, <1>2 DEF Leaders, IsLeader, ChildStates, ZombieStates

LEMMA ShellInit == Init => ShellInv
<1> SUFFICES ASSUME Init PROVE ShellInv
  OBVIOUS
<1>1. Typed
  <2>1. sigchld \in BOOLEAN
    BY DEF Init
  <2> QED BY <2>1, ShellAssumption DEF Init, Typed, Labels, Shell
<1>2. Leaders(child)
  BY DEF Init, Leaders, IsLeader, NoChild, ChildStates
<1>3. Counted /\ StoppedAre
  BY DEF Init, Counted, StoppedAre, LineLabels, ForkedLabels, NoChild, Pids
<1>4. TerminalOwned
  BY DEF Init, TerminalOwned, Shell, Pids
<1> QED BY <1>1, <1>2, <1>3, <1>4 DEF ShellInv

-----------------------------------------------------------------------------
(* Steps that leave the leaders alone. *)
LEMMA QuietKeeps ==
    ASSUME ShellInv, UNCHANGED <<child, term, forks, usr2>>, stopped' \subseteq stopped,
           sigchld' \in BOOLEAN, handler' \in Seq({"loop", "sigsuspend"}),
           sigchld => sigchld' \/ handler' # <<>>, handler # <<>> => handler' # <<>>,
           pc' \in Labels, pc' \in LineLabels => forks < MaxForks,
           pc' \in ForkedLabels => forks > 0
    PROVE  ShellInv'
<1>1. LeadersMove
  BY DEF ShellInv, LeadersMove, Becomes
<1>2. TermMoves
  BY DEF TermMoves
<1>3. StoppedAre'
  BY DEF ShellInv, StoppedAre
<1> QED BY <1>1, <1>2, <1>3, ShellKeeps

LEMMA LeadersSame == ASSUME ShellInv, child' = child PROVE LeadersMove
BY DEF ShellInv, LeadersMove, Becomes

(* The fields of a leader that the code assigns, one at a time. *)
LEMMA LeaderFields ==
    ASSUME NEW c, IsLeader(c)
    PROVE  /\ \A v \in ChildStates : /\ IsLeader([c EXCEPT !.st = v])
                                     /\ [c EXCEPT !.st = v].st = v
           /\ \A v \in {"forking", "waiting"} : /\ IsLeader([c EXCEPT !.was = v])
                                              /\ [c EXCEPT !.was = v].st = c.st
           /\ \A v : IsLeader([c EXCEPT !.todo = v]) /\ [c EXCEPT !.todo = v].st = c.st
           /\ \A v : IsLeader([c EXCEPT !.calls = v]) /\ [c EXCEPT !.calls = v].st = c.st
           /\ \A v : IsLeader([c EXCEPT !.left = v]) /\ [c EXCEPT !.left = v].st = c.st
           /\ \A v : IsLeader([c EXCEPT !.line = v]) /\ [c EXCEPT !.line = v].st = c.st
           /\ \A v : /\ IsLeader([c EXCEPT !.inHandler = v])
                     /\ [c EXCEPT !.inHandler = v].st = c.st
<1>1. PICK s, m, l, t, k, n, h, w :
          c = [st |-> s, mode |-> m, line |-> l, todo |-> t, calls |-> k, left |-> n,
               inHandler |-> h, was |-> w]
  BY DEF IsLeader
<1>2. s \in ChildStates /\ w \in {"forking", "waiting"}
  BY <1>1 DEF IsLeader
<1> QED BY <1>1, <1>2 DEF IsLeader

(* A child that has ended is waited for. *)
LEMMA ReapMoves ==
    ASSUME ShellInv, NEW p \in Zombies, child' = [child EXCEPT ![p].st = "reaped"],
           UNCHANGED <<usr2>>, stopped' \subseteq stopped
    PROVE  LeadersMove /\ StoppedAre'
<1>1. Leaders(child) /\ StoppedAre /\ p \in Pids /\ child[p].st \in ZombieStates
  BY AliveIs DEF ShellInv
<1>2. IsLeader([child[p] EXCEPT !.st = "reaped"]) /\ [child[p] EXCEPT !.st = "reaped"].st = "reaped"
  BY <1>1, LeaderFields DEF Leaders, ChildStates
<1>3. Leaders(child') /\ child'[p].st = "reaped" /\ \A q \in Pids : q # p => child'[q] = child[q]
  <2> DEFINE c == [child[p] EXCEPT !.st = "reaped"]
  <2>1. child' = [child EXCEPT ![p] = c]
    OBVIOUS
  <2>2. IsLeader(c) /\ c.st = "reaped"
    BY <1>2
  <2> HIDE DEF c
  <2> QED BY <1>1, <2>1, <2>2 DEF Leaders
<1> QED BY <1>1, <1>3 DEF LeadersMove, Becomes, StoppedAre, ZombieStates

(* SIGUSR2 to the leaders ps, by the shell or by a process of a leader. *)
LEMMA Usr2Moves ==
    ASSUME ShellInv, NEW ch, Leaders(ch), \A q \in Pids : ch[q].st = child[q].st,
           NEW ps, ps \subseteq Pids, SEND_USR2(ch, ps), stopped' = stopped
    PROVE  LeadersMove /\ StoppedAre' /\ sigchld' \in BOOLEAN /\ (sigchld => sigchld')
<1> DEFINE dead == {p \in ps : child[p].st \in {"forking", "waiting"}}
<1>0. Leaders(child) /\ StoppedAre
  BY DEF ShellInv
<1>1. /\ child' = [p \in Pids |-> IF p \in dead THEN End(p, "exited")[p] ELSE ch[p]]
      /\ sigchld' = (sigchld \/ dead # {})
      /\ usr2' = usr2 \cup {p \in ps : child[p].st = "stopped"}
  BY DEF SEND_USR2
<1>2. sigchld' \in BOOLEAN /\ (sigchld => sigchld') /\ (\A p \in dead : sigchld')
  <2> HIDE DEF dead
  <2>1. sigchld' \in BOOLEAN /\ (sigchld => sigchld')
    BY <1>1
  <2>2. \A p \in dead : sigchld'
    BY <1>1
  <2> QED BY <2>1, <2>2
<1>3. \A p \in dead : /\ child'[p] = End(p, "exited")[p] /\ IsLeader(child'[p])
                      /\ child'[p].st = "exited" /\ child[p].st \in {"forking", "waiting"}
  <2> TAKE p \in dead
  <2>1. p \in Pids /\ child[p].st \in {"forking", "waiting"}
    OBVIOUS
  <2>2. Leaders(End(p, "exited")) /\ End(p, "exited")[p].st = "exited"
    BY <1>0, <2>1, EndIs DEF ZombieStates
  <2> HIDE DEF dead
  <2> QED BY <1>1, <2>1, <2>2 DEF Leaders
<1>4. \A p \in Pids : p \notin dead => /\ IsLeader(child'[p]) /\ child'[p].st = child[p].st
  <2> HIDE DEF dead
  <2> QED BY <1>1 DEF Leaders
<1>5. child' = [p \in Pids |-> child'[p]] /\ \A p \in dead : p \in Pids
  <2>1. \A p \in dead : p \in Pids
    OBVIOUS
  <2> HIDE DEF dead
  <2> QED BY <1>1, <2>1
<1>6. \A p \in Pids : p \in usr2' => p \in usr2 \/ child[p].st = "stopped"
  BY <1>1
<1> HIDE DEF dead
<1>7. Leaders(child')
  BY <1>3, <1>4, <1>5 DEF Leaders
<1>8. \A p \in Pids : Becomes(child[p].st, child'[p].st, sigchld')
  BY <1>2, <1>3, <1>4 DEF Becomes, AliveStates, ZombieStates
<1>9. StoppedAre'
  BY <1>0, <1>3, <1>4, <1>6 DEF StoppedAre
<1> QED BY <1>2, <1>7, <1>8, <1>9 DEF LeadersMove

(* SIGCONT and SIGUSR1 to leader p. *)
LEMMA ContinueMoves ==
    ASSUME ShellInv, NEW ch, Leaders(ch), \A q \in Pids : ch[q].st = child[q].st,
           NEW p \in Pids, SEND_CONTINUE_USR1(ch, p), handler' = handler
    PROVE  /\ LeadersMove /\ StoppedAre' /\ TermMoves
           /\ sigchld' \in BOOLEAN
<1>0. Leaders(child) /\ StoppedAre /\ sigchld \in BOOLEAN
  BY DEF ShellInv, Typed
<1>1. CASE p \in usr2
  <2>1. /\ child' = [ch EXCEPT ![p] = End(p, "exited")[p]] /\ sigchld' = TRUE
        /\ usr2' = usr2 \ {p} /\ stopped' = stopped \ {p} /\ term' = term
    BY <1>1 DEF SEND_CONTINUE_USR1
  <2>2. IsLeader(End(p, "exited")[p]) /\ End(p, "exited")[p].st = "exited"
    BY <1>0, EndIs DEF ZombieStates, Leaders
  <2>3. /\ Leaders(child') /\ child'[p].st = "exited"
        /\ \A q \in Pids : q # p => child'[q].st = child[q].st
    BY <2>1, <2>2 DEF Leaders
  <2>4. child[p].st = "stopped"
    BY <1>0, <1>1 DEF StoppedAre
  <2>5. LeadersMove /\ StoppedAre'
    BY <1>0, <2>1, <2>3, <2>4 DEF LeadersMove, Becomes, StoppedAre, AliveStates, ZombieStates
  <2>6. TermMoves
    <3>1. sigchld'
      BY <2>1
    <3> QED BY <2>1, <3>1 DEF TermMoves
  <2>7. sigchld' \in BOOLEAN
    BY <2>1
  <2> QED BY <2>5, <2>6, <2>7
<1>2. CASE p \notin usr2 /\ child[p].st \in {"forking", "waiting", "stopped"}
  <2>1. /\ child' = [ch EXCEPT ![p].inHandler = TRUE,
                              ![p].st = IF @ = "stopped" THEN child[p].was ELSE @]
        /\ term' = p /\ stopped' = stopped \ {p} /\ usr2' = usr2 /\ sigchld' = sigchld
    BY <1>2 DEF SEND_CONTINUE_USR1
  <2>2. PICK s, m, l, t, k, n, h, w :
            ch[p] = [st |-> s, mode |-> m, line |-> l, todo |-> t, calls |-> k, left |-> n,
                     inHandler |-> h, was |-> w]
    BY DEF Leaders, IsLeader
  <2>3. s = child[p].st /\ w \in {"forking", "waiting"} /\ child[p].was \in {"forking", "waiting"}
    BY <1>0, <2>2 DEF Leaders, IsLeader
  <2>4. child'[p] = [st |-> IF s = "stopped" THEN child[p].was ELSE s, mode |-> m, line |-> l,
                     todo |-> t, calls |-> k, left |-> n, inHandler |-> TRUE, was |-> w]
    <3>1. DOMAIN ch = Pids
      BY DEF Leaders
    <3>2. ch[p].st = s
      BY <2>2
    <3> DEFINE v == IF s = "stopped" THEN child[p].was ELSE s
    <3>3. child'[p] = [ch[p] EXCEPT !.inHandler = TRUE, !.st = v]
      BY <2>1, <2>2, <3>1, <3>2
    <3> HIDE DEF v
    <3>4. child'[p] = [st |-> v, mode |-> m, line |-> l, todo |-> t, calls |-> k, left |-> n,
                       inHandler |-> TRUE, was |-> w]
      <4>1. child'[p] = [[st |-> s, mode |-> m, line |-> l, todo |-> t, calls |-> k,
                          left |-> n, inHandler |-> h, was |-> w]
                           EXCEPT !.inHandler = TRUE, !.st = v]
        BY <2>2, <3>3
      <4> QED BY <4>1
    <3> QED BY <3>4 DEF v
  <2>5. IsLeader(child'[p]) /\ child'[p].st \in {"forking", "waiting"}
    BY <1>2, <2>3, <2>4 DEF IsLeader, ChildStates, AliveStates
  <2>6. child' = [q \in Pids |-> child'[q]] /\ \A q \in Pids : q # p => child'[q] = ch[q]
    BY <2>1 DEF Leaders
  <2>7. LeadersMove
    BY <1>2, <2>5, <2>6 DEF LeadersMove, Leaders, Becomes, AliveStates
  <2>8. StoppedAre'
    BY <1>0, <1>2, <2>1, <2>6 DEF StoppedAre
  <2>9. TermMoves
    BY <2>1, <2>5 DEF TermMoves, AliveStates
  <2> QED BY <1>0, <2>1, <2>7, <2>8, <2>9
<1>3. CASE p \notin usr2 /\ child[p].st \notin {"forking", "waiting", "stopped"}
  <2>1. child' = ch /\ term' = term /\ stopped' = stopped \ {p} /\ usr2' = usr2 /\ sigchld' = sigchld
    BY <1>3 DEF SEND_CONTINUE_USR1
  <2>2. LeadersMove /\ StoppedAre'
    BY <1>0, <2>1 DEF LeadersMove, Becomes, StoppedAre
  <2>3. TermMoves
    BY <2>1 DEF TermMoves
  <2> QED BY <1>0, <2>1, <2>2, <2>3
<1> QED BY <1>1, <1>2, <1>3

(* One leader, which was not stopped, changes and the others do not. *)
LEMMA OneMoves ==
    ASSUME ShellInv, NEW p \in Pids, NEW c, child' = [child EXCEPT ![p] = c], IsLeader(c),
           child[p].st # "stopped", Becomes(child[p].st, c.st, sigchld'),
           UNCHANGED <<stopped, usr2>>
    PROVE  LeadersMove /\ StoppedAre' /\ child'[p] = c
<1>0. Leaders(child) /\ StoppedAre
  BY DEF ShellInv
<1>1. /\ child' = [q \in Pids |-> child'[q]] /\ child'[p] = c
      /\ \A q \in Pids : q # p => child'[q] = child[q]
  BY <1>0 DEF Leaders
<1>2. LeadersMove
  BY <1>0, <1>1 DEF LeadersMove, Leaders, Becomes
<1>3. StoppedAre'
  BY <1>0, <1>1 DEF StoppedAre
<1> QED BY <1>1, <1>2, <1>3

(* A leader ends and the shell is told. *)
LEMMA EndMoves ==
    ASSUME ShellInv, NEW p \in Pids, NEW how \in ZombieStates, child' = End(p, how),
           child[p].st \in AliveStates \ {"stopped"}, sigchld', UNCHANGED <<stopped, usr2>>
    PROVE  LeadersMove /\ StoppedAre'
<1>0. Leaders(child) /\ StoppedAre
  BY DEF ShellInv
<1>1. Leaders(child') /\ \A q \in Pids : child'[q].st = IF q = p THEN how ELSE child[q].st
  BY <1>0, EndIs
<1> QED BY <1>0, <1>1 DEF LeadersMove, Becomes, StoppedAre

-----------------------------------------------------------------------------
(***************************************************************************)
(* The handler.                                                            *)
(***************************************************************************)
LEMMA HandlerInv == ShellInv /\ HandlerStep => ShellInv'
<1> SUFFICES ASSUME ShellInv, HandlerStep PROVE ShellInv'
  OBVIOUS
<1>0. Typed /\ Counted /\ Leaders(child) /\ StoppedAre
  BY DEF ShellInv
<1>1. pc \in Labels /\ handler \in Seq({"loop", "sigsuspend"}) /\ sigchld \in BOOLEAN
  BY <1>0 DEF Typed
<1>2. /\ pc \in LineLabels => forks < MaxForks
      /\ pc \in ForkedLabels => forks > 0
  BY <1>0 DEF Counted
<1>3. CASE Deliver
  <2>1. /\ UNCHANGED <<pc, child, term, forks, stopped, usr2>> /\ sigchld' = FALSE
        /\ handler' = Append(handler, "loop")
    BY <1>3 DEF Deliver, procVars
  <2>2. handler' \in Seq({"loop", "sigsuspend"}) /\ handler' # <<>>
    BY <1>1, <2>1
  <2>3. sigchld' \in BOOLEAN
    BY <2>1
  <2> QED BY <1>1, <1>2, <2>1, <2>2, <2>3, QuietKeeps
<1>4. ASSUME NEW p \in Pids, HandlerStopped(p) PROVE ShellInv'
  <2>1. UNCHANGED <<pc, child, term, forks, usr2, handler, sigchld>> /\ stopped' \subseteq stopped
    BY <1>4 DEF HandlerStopped
  <2>2. /\ handler' \in Seq({"loop", "sigsuspend"}) /\ sigchld' \in BOOLEAN
        /\ sigchld => sigchld'
    BY <1>1, <2>1
  <2> QED BY <1>1, <1>2, <2>1, <2>2, QuietKeeps
<1>5. ASSUME NEW p \in Pids, HandlerExited(p) \/ HandlerKilled(p) PROVE ShellInv'
  <2>1. /\ child' = [child EXCEPT ![p].st = "reaped"] /\ p \in Zombies
        /\ UNCHANGED <<pc, term, forks, stopped, usr2, sigchld>>
        /\ handler # <<>> /\ handler' \in {handler, [handler EXCEPT ![Len(handler)] = "sigsuspend"]}
    BY <1>5, AliveIs DEF HandlerExited, HandlerKilled, InHandler, ZombieStates
  <2>2. handler' \in Seq({"loop", "sigsuspend"}) /\ handler' # <<>>
    BY <1>1, <2>1
  <2>3. LeadersMove /\ StoppedAre'
    BY <2>1, ReapMoves
  <2>4. sigchld' \in BOOLEAN /\ (sigchld => sigchld')
    BY <1>1, <2>1
  <2>5. TermMoves
    BY <2>1, <2>2 DEF TermMoves
  <2> QED BY <1>1, <1>2, <2>1, <2>2, <2>3, <2>4, <2>5, ShellKeeps
<1>6. CASE HandlerReturn
  <2>1. /\ UNCHANGED <<pc, child, forks, stopped, usr2, sigchld>> /\ term' = Shell
        /\ handler' = Pop /\ handler # <<>>
    BY <1>6 DEF HandlerReturn, InHandler
  <2>2. handler' \in Seq({"loop", "sigsuspend"})
    <3> DEFINE s == SubSeq(handler, 1, Len(handler) - 1)
    <3>1. s \in Seq({"loop", "sigsuspend"})
      <4>1. 1 \in 1 .. Len(handler) + 1 /\ Len(handler) - 1 \in 0 .. Len(handler)
        BY <1>1, <2>1, EmptySeq
      <4> QED BY <1>1, <4>1, SubSeqProperties
    <3>2. handler' = IF s = <<>> THEN s ELSE [s EXCEPT ![Len(s)] = "loop"]
      BY <2>1 DEF Pop, Return
    <3> HIDE DEF s
    <3> QED BY <3>1, <3>2
  <2>3. LeadersMove /\ StoppedAre'
    BY <1>0, <2>1, LeadersSame DEF StoppedAre
  <2>4. TermMoves /\ sigchld' \in BOOLEAN
    BY <1>1, <2>1 DEF TermMoves
  <2> QED BY <1>1, <1>2, <2>1, <2>2, <2>3, <2>4, ShellKeeps
<1> QED BY <1>3, <1>4, <1>5, <1>6 DEF HandlerStep

-----------------------------------------------------------------------------
(***************************************************************************)
(* The leaders, which do not know where the shell is.                      *)
(***************************************************************************)
LEMMA OutsideKeeps ==
    ASSUME ShellInv, UNCHANGED <<pc, handler, forks>>, sigchld' \in BOOLEAN, LeadersMove,
           TermMoves, StoppedAre'
    PROVE  ShellInv'
<1>1. /\ pc' \in Labels /\ handler' \in Seq({"loop", "sigsuspend"})
      /\ pc' \in LineLabels => forks < MaxForks
      /\ pc' \in ForkedLabels => forks > 0
  BY DEF ShellInv, Typed, Counted
<1> QED BY <1>1, ShellKeeps

(* A leader ends, and the terminal stays as it is or goes to the shell. *)
LEMMA EndKeeps ==
    ASSUME ShellInv, NEW p \in Pids, NEW how \in ZombieStates, child' = End(p, how),
           child[p].st \in AliveStates \ {"stopped"}, sigchld' = TRUE,
           UNCHANGED <<pc, handler, forks, stopped, usr2>>, term' \in {term, Shell}
    PROVE  ShellInv'
<1>1. sigchld' /\ sigchld' \in BOOLEAN
  OBVIOUS
<1>2. LeadersMove /\ StoppedAre'
  BY <1>1, EndMoves
<1>3. TermMoves
  BY <1>1 DEF TermMoves
<1> QED BY <1>1, <1>2, <1>3, OutsideKeeps

(* A leader goes on. *)
LEMMA GoesOn ==
    ASSUME ShellInv, NEW p \in Pids, NEW c, child' = [child EXCEPT ![p] = c], IsLeader(c),
           child[p].st \in AliveStates \ {"stopped"}, c.st \in AliveStates,
           UNCHANGED <<pc, handler, forks, stopped, usr2, sigchld>>, term' \in {term, p, Shell}
    PROVE  ShellInv'
<1>1. sigchld' \in BOOLEAN
  BY DEF ShellInv, Typed
<1>2. Becomes(child[p].st, c.st, sigchld') /\ child[p].st # "stopped"
  BY DEF Becomes
<1>3. LeadersMove /\ StoppedAre' /\ child'[p] = c
  BY <1>2, OneMoves
<1>4. TermMoves
  BY <1>3 DEF TermMoves
<1> QED BY <1>1, <1>3, <1>4, OutsideKeeps

LEMMA ChildInv == ASSUME ShellInv, NEW p \in Pids, ChildStep(p) PROVE ShellInv'
<1>0. Leaders(child) /\ IsLeader(child[p]) /\ sigchld \in BOOLEAN
  BY DEF ShellInv, Leaders, Typed
<1>s. {"forking", "waiting"} \subseteq AliveStates \ {"stopped"} /\ "exited" \in ZombieStates
      /\ "forking" \in ChildStates /\ "waiting" \in ChildStates
  BY DEF AliveStates, ZombieStates, ChildStates
<1>1. CASE ChildStart(p)
  <2>1. child[p].st \in AliveStates \ {"stopped"}
    BY <1>1 DEF ChildStart, AliveStates
  <2>2. CASE child[p].line = "empty"
    <3>1. /\ child' = End(p, "exited") /\ sigchld' = TRUE
          /\ UNCHANGED <<pc, handler, forks, stopped, usr2, term>>
      BY <1>1, <2>2 DEF ChildStart
    <3> QED BY <1>s, <2>1, <3>1, EndKeeps
  <2>3. CASE child[p].line # "empty"
    <3> DEFINE c == [child[p] EXCEPT !.st = "forking"]
    <3>1. /\ child' = [child EXCEPT ![p] = c] /\ term' \in {term, p}
          /\ UNCHANGED <<pc, handler, forks, stopped, usr2, sigchld>>
      BY <1>1, <2>3 DEF ChildStart
    <3>2. IsLeader(c) /\ c.st = "forking"
      BY <1>0, <1>s, LeaderFields
    <3> HIDE DEF c
    <3> QED BY <1>s, <2>1, <3>1, <3>2, GoesOn
  <2> QED BY <2>2, <2>3
<1>2. CASE ChildError(p)
  <2>1. /\ child' = End(p, "exited") /\ sigchld' = TRUE /\ child[p].st = "forking"
        /\ UNCHANGED <<pc, handler, forks, stopped, usr2, term>>
    BY <1>2 DEF ChildError
  <2> QED BY <1>s, <2>1, EndKeeps
<1>3. CASE execute_commands(p)
  <2> DEFINE v == IF Head(child[p].todo).to = {} THEN child[p].calls
                  ELSE Append(child[p].calls, Head(child[p].todo))
             a == [child[p] EXCEPT !.todo = Tail(child[p].todo)]
             b == [a EXCEPT !.left = child[p].left + 1]
             c == [b EXCEPT !.calls = v]
  <2>0. IsLeader(a) /\ a.st = child[p].st
    BY <1>0, LeaderFields
  <2>1. IsLeader(b) /\ b.st = child[p].st
    <3> HIDE DEF a
    <3> QED BY <2>0, LeaderFields
  <2>2. IsLeader(c) /\ c.st = child[p].st
    <3> HIDE DEF b, v
    <3> QED BY <2>1, LeaderFields
  <2>3. child' = [child EXCEPT ![p] = c]
    <3>1. PICK s, m, l, t, k, n, h, w :
              child[p] = [st |-> s, mode |-> m, line |-> l, todo |-> t, calls |-> k, left |-> n,
                          inHandler |-> h, was |-> w]
      BY <1>0 DEF IsLeader
    <3> QED BY <1>0, <1>3, <3>1 DEF execute_commands, Leaders
  <2>4. /\ child[p].st = "forking"
        /\ UNCHANGED <<pc, handler, forks, stopped, usr2, sigchld, term>>
    BY <1>3 DEF execute_commands
  <2> HIDE DEF c
  <2> QED BY <1>s, <2>2, <2>3, <2>4, GoesOn
<1>4. CASE switch_case_cmd(p)
  <2> DEFINE c == [child[p] EXCEPT !.calls = Tail(child[p].calls)]
             ch == [child EXCEPT ![p] = c]
             to == Head(child[p].calls).to \cap Pids
  <2>1. UNCHANGED <<pc, handler, forks>>
    BY <1>4 DEF switch_case_cmd
  <2>2. \/ SEND_USR2(ch, to) /\ UNCHANGED <<term, stopped>>
        \/ \E q \in to : SEND_CONTINUE_USR1(ch, q)
    BY <1>4 DEF switch_case_cmd
  <2>3. IsLeader(c) /\ c.st = child[p].st
    BY <1>0, LeaderFields
  <2>4. Leaders(ch) /\ \A q \in Pids : ch[q].st = child[q].st
    <3> HIDE DEF c
    <3> QED BY <1>0, <2>3 DEF Leaders
  <2>5. to \subseteq Pids
    OBVIOUS
  <2> HIDE DEF ch, to
  <2>6. CASE SEND_USR2(ch, to) /\ UNCHANGED <<term, stopped>>
    <3>1. LeadersMove /\ StoppedAre' /\ sigchld' \in BOOLEAN /\ (sigchld => sigchld')
      BY <2>4, <2>5, <2>6, Usr2Moves
    <3>2. TermMoves
      BY <2>1, <2>6, <3>1 DEF TermMoves
    <3> QED BY <2>1, <3>1, <3>2, OutsideKeeps
  <2>7. ASSUME NEW q \in to, SEND_CONTINUE_USR1(ch, q) PROVE ShellInv'
    <3>1. q \in Pids
      BY <2>5
    <3>2. LeadersMove /\ StoppedAre' /\ TermMoves /\ sigchld' \in BOOLEAN
      BY <2>1, <2>4, <2>7, <3>1, ContinueMoves
    <3> QED BY <2>1, <3>2, OutsideKeeps
  <2> QED BY <2>2, <2>6, <2>7
<1>5. CASE ChildSuspend(p)
  <2> DEFINE c == [child[p] EXCEPT !.st = "waiting"]
  <2>1. /\ child' = [child EXCEPT ![p] = c] /\ child[p].st = "forking"
        /\ UNCHANGED <<pc, handler, forks, stopped, usr2, sigchld, term>>
    BY <1>5 DEF ChildSuspend
  <2>2. IsLeader(c) /\ c.st \in AliveStates
    BY <1>0, <1>s, LeaderFields
  <2> HIDE DEF c
  <2> QED BY <1>s, <2>1, <2>2, GoesOn
<1>6. CASE CommandEnds(p)
  <2>0. /\ child[p].st \in AliveStates \ {"stopped"}
        /\ UNCHANGED <<pc, handler, forks, stopped, usr2, term>>
    BY <1>6, <1>s DEF CommandEnds
  <2>1. CASE child[p].st = "waiting" /\ child[p].left = 1
    <3>1. child' = End(p, "exited") /\ sigchld' = TRUE
      BY <1>6, <2>1 DEF CommandEnds
    <3> QED BY <1>s, <2>0, <3>1, EndKeeps
  <2>2. CASE ~ (child[p].st = "waiting" /\ child[p].left = 1)
    <3> DEFINE v == child[p].left > 1
               a == [child[p] EXCEPT !.left = child[p].left - 1]
               c == [a EXCEPT !.inHandler = v]
    <3>0. IsLeader(a) /\ a.st = child[p].st
      BY <1>0, LeaderFields
    <3>1. IsLeader(c) /\ c.st = child[p].st
      <4> HIDE DEF a, v
      <4> QED BY <3>0, LeaderFields
    <3>2. child' = [child EXCEPT ![p] = c] /\ sigchld' = sigchld
      <4>1. PICK s, m, l, t, k, n, h, w :
                child[p] = [st |-> s, mode |-> m, line |-> l, todo |-> t, calls |-> k, left |-> n,
                            inHandler |-> h, was |-> w]
        BY <1>0 DEF IsLeader
      <4> QED BY <1>0, <1>6, <2>2, <4>1 DEF CommandEnds, Leaders
    <3> HIDE DEF c
    <3> QED BY <2>0, <3>1, <3>2, GoesOn
  <2> QED BY <2>1, <2>2
<1> QED BY <1>1, <1>2, <1>3, <1>4, <1>5, <1>6 DEF ChildStep

-----------------------------------------------------------------------------
(***************************************************************************)
(* The user.                                                               *)
(***************************************************************************)
LEMMA UserInv == ShellInv /\ User => ShellInv'
<1> SUFFICES ASSUME ShellInv, User PROVE ShellInv'
  OBVIOUS
<1>0. Typed /\ Counted /\ Leaders(child) /\ StoppedAre
  BY DEF ShellInv
<1>1. pc \in Labels /\ handler \in Seq({"loop", "sigsuspend"}) /\ sigchld \in BOOLEAN
  BY <1>0 DEF Typed
<1>s. /\ {"new", "forking", "waiting"} \subseteq AliveStates \ {"stopped"}
      /\ {"exited", "killed"} \subseteq ZombieStates /\ "stopped" \in AliveStates
      /\ AliveStates \subseteq ChildStates
  BY DEF AliveStates, ZombieStates, ChildStates
<1>2. ASSUME NEW line, ReadLine(line) PROVE ShellInv'
  <2>1. UNCHANGED <<handler, sigchld, child, term, forks, stopped, usr2>>
    BY <1>2 DEF ReadLine, procVars
  <2>2. pc' = "done" \/ (pc' \in {"builtin", "fork"} /\ forks < MaxForks)
    BY <1>2 DEF ReadLine
  <2>3. /\ pc' \in Labels /\ pc' # "exited" /\ pc' \notin ForkedLabels
        /\ pc' \in LineLabels => forks < MaxForks
    BY <2>2 DEF Labels, LineLabels, ForkedLabels, Ended
  <2>4. sigchld' \in BOOLEAN /\ (sigchld => sigchld')
    BY <1>1, <2>1
  <2> QED BY <1>1, <2>1, <2>3, <2>4, QuietKeeps
<1>3. CASE EndOfFile
  <2>1. UNCHANGED <<handler, sigchld, child, term, forks, stopped, usr2>> /\ pc' = "done"
    BY <1>3 DEF EndOfFile, procVars
  <2>2. pc' \in Labels /\ pc' # "exited" /\ pc' \notin ForkedLabels \cup LineLabels
    BY <2>1 DEF Labels, LineLabels, ForkedLabels, Ended
  <2>3. sigchld' \in BOOLEAN /\ (sigchld => sigchld')
    BY <1>1, <2>1
  <2> QED BY <1>1, <2>1, <2>2, <2>3, QuietKeeps
<1>4. CASE CtrlC
  <2>1. /\ term \in Pids /\ child[term].st \in {"forking", "waiting"}
        /\ child' = End(term, "killed") /\ sigchld' = TRUE
        /\ UNCHANGED <<pc, handler, term, forks, stopped, usr2>>
    BY <1>4 DEF CtrlC
  <2> QED BY <1>s, <2>1, EndKeeps
<1>5. CASE CtrlZ
  <2>1. /\ term \in Pids /\ child[term].st \in {"forking", "waiting"} /\ term' = Shell
        /\ UNCHANGED <<pc, handler, forks, usr2>>
    BY <1>5 DEF CtrlZ
  <2>2. CASE /\ child' = [child EXCEPT ![term].st = "stopped", ![term].was = child[term].st]
             /\ stopped' = stopped \cup {term} /\ sigchld' = TRUE
    <3>1. /\ child' = [child EXCEPT ![term].st = "stopped", ![term].was = child[term].st]
          /\ stopped' = stopped \cup {term} /\ sigchld' = TRUE
      BY <2>2
    <3>2. PICK s, m, l, t, k, n, h, w :
              child[term] = [st |-> s, mode |-> m, line |-> l, todo |-> t, calls |-> k,
                             left |-> n, inHandler |-> h, was |-> w]
      BY <1>0, <2>1 DEF Leaders, IsLeader
    <3>3. child'[term] = [st |-> "stopped", mode |-> m, line |-> l, todo |-> t, calls |-> k,
                          left |-> n, inHandler |-> h, was |-> s] /\ s \in {"forking", "waiting"}
      <4>1. s = child[term].st /\ DOMAIN child = Pids
        BY <1>0, <3>2 DEF Leaders
      <4>2. child'[term] = [child[term] EXCEPT !.st = "stopped", !.was = s]
        BY <2>1, <3>1, <4>1
      <4>3. child'[term] = [[st |-> s, mode |-> m, line |-> l, todo |-> t, calls |-> k,
                             left |-> n, inHandler |-> h, was |-> w]
                              EXCEPT !.st = "stopped", !.was = s]
        BY <3>2, <4>2
      <4> QED BY <2>1, <4>1, <4>3
    <3>4. IsLeader(child'[term]) /\ child'[term].st = "stopped"
      BY <1>s, <3>3 DEF IsLeader
    <3>5. child' = [q \in Pids |-> child'[q]] /\ \A q \in Pids : q # term => child'[q] = child[q]
      BY <1>0, <3>1 DEF Leaders
    <3>6. LeadersMove
      BY <1>0, <1>s, <2>1, <3>4, <3>5 DEF LeadersMove, Leaders, Becomes
    <3>7. StoppedAre'
      BY <1>0, <2>1, <3>1, <3>4, <3>5 DEF StoppedAre
    <3>8. TermMoves /\ sigchld' \in BOOLEAN
      BY <2>1, <3>1 DEF TermMoves
    <3> QED BY <2>1, <3>6, <3>7, <3>8, OutsideKeeps
  <2>3. CASE child' = End(term, "exited") /\ sigchld' = TRUE /\ stopped' = stopped
    BY <1>s, <2>1, <2>3, EndKeeps
  <2>4. ASSUME NEW stays, stopped' = stopped, sigchld' = sigchld,
               child' = [child EXCEPT ![term].inHandler = stays]
        PROVE  ShellInv'
    <3> DEFINE c == [child[term] EXCEPT !.inHandler = stays]
    <3>1. child' = [child EXCEPT ![term] = c] /\ stopped' = stopped /\ sigchld' = sigchld
      BY <2>4
    <3>2. IsLeader(c) /\ c.st = child[term].st
      BY <1>0, <2>1, LeaderFields DEF Leaders
    <3> HIDE DEF c
    <3> QED BY <1>s, <2>1, <3>1, <3>2, GoesOn
  <2>5. \/ /\ child' = [child EXCEPT ![term].st = "stopped", ![term].was = child[term].st]
           /\ stopped' = stopped \cup {term} /\ sigchld' = TRUE
        \/ child' = End(term, "exited") /\ sigchld' = TRUE /\ stopped' = stopped
        \/ \E stays \in {FALSE, child[term].inHandler /\ child[term].left > 0} :
              /\ child' = [child EXCEPT ![term].inHandler = stays]
              /\ stopped' = stopped /\ sigchld' = sigchld
    BY <1>5 DEF CtrlZ
  <2> QED BY <2>2, <2>3, <2>4, <2>5
<1>6. CASE CtrlZShell
  <2>1. /\ UNCHANGED <<pc, sigchld, child, term, forks, stopped, usr2>>
        /\ handler' = IF handler = <<>> THEN handler
                      ELSE [handler EXCEPT ![Len(handler)] = "loop"]
    BY <1>6 DEF CtrlZShell, procVars
  <2>2. handler' \in Seq({"loop", "sigsuspend"}) /\ (handler # <<>> => handler' # <<>>)
    BY <1>1, <2>1
  <2>3. /\ pc \in LineLabels => forks < MaxForks
        /\ pc \in ForkedLabels => forks > 0
    BY <1>0 DEF Counted
  <2>4. sigchld' \in BOOLEAN /\ (sigchld => sigchld')
    BY <1>1, <2>1
  <2> QED BY <1>1, <2>1, <2>2, <2>3, <2>4, QuietKeeps
<1>7. ASSUME NEW p \in Pids, CtrlCNew(p) PROVE ShellInv'
  <2> DEFINE e == End(p, "killed")[p]
             c == [e EXCEPT !.line = "empty"]
  <2>1. /\ child[p].st = "new" /\ sigchld' = TRUE
        /\ UNCHANGED <<pc, handler, term, forks, stopped, usr2>>
    BY <1>7 DEF CtrlCNew
  <2>2. Leaders(End(p, "killed")) /\ e.st = "killed"
    BY <1>0, <1>s, EndIs
  <2>3. End(p, "killed") = [child EXCEPT ![p] = e]
    BY <1>0 DEF End, Leaders
  <2>4. child' = [child EXCEPT ![p] = c]
    <3>1. child' = [End(p, "killed") EXCEPT ![p].line = "empty"]
      BY <1>7 DEF CtrlCNew
    <3> HIDE DEF e
    <3> QED BY <1>0, <2>3, <3>1 DEF Leaders
  <2>5. IsLeader(c) /\ c.st = "killed"
    <3>1. IsLeader(e)
      BY <2>2 DEF Leaders
    <3> HIDE DEF e
    <3> QED BY <2>2, <3>1, LeaderFields
  <2> HIDE DEF c
  <2>6. sigchld' /\ sigchld' \in BOOLEAN
    BY <2>1
  <2>7. Becomes(child[p].st, c.st, sigchld')
    BY <1>s, <2>1, <2>5, <2>6 DEF Becomes
  <2>8. LeadersMove /\ StoppedAre'
    BY <2>1, <2>4, <2>5, <2>7, OneMoves
  <2>9. TermMoves
    BY <2>1, <2>6 DEF TermMoves
  <2> QED BY <2>1, <2>6, <2>8, <2>9, OutsideKeeps
<1> QED BY <1>2, <1>3, <1>4, <1>5, <1>6, <1>7 DEF User

-----------------------------------------------------------------------------
(***************************************************************************)
(* The shell.  Where it goes next, and whether it still has a line.        *)
(***************************************************************************)
Goes(to) ==
    /\ pc' = to /\ to \in Labels
    /\ to \in LineLabels => pc \in LineLabels
    /\ to \in ForkedLabels => pc \in ForkedLabels

LEMMA GoesKeeps ==
    ASSUME ShellInv, NEW to, Goes(to), UNCHANGED <<handler, forks>>, sigchld' \in BOOLEAN,
           LeadersMove, TermMoves, StoppedAre'
    PROVE  ShellInv'
<1>1. handler' \in Seq({"loop", "sigsuspend"}) /\ Counted
  BY DEF ShellInv, Typed
<1> QED BY <1>1, ShellKeeps DEF Goes, Counted

(* Steps of the shell that only move it, and the job table. *)
LEMMA GoesQuiet ==
    ASSUME ShellInv, NEW to, Goes(to),
           UNCHANGED <<handler, forks, sigchld, child, term, stopped, usr2>>
    PROVE  ShellInv'
<1>1. sigchld' \in BOOLEAN /\ LeadersMove /\ StoppedAre'
  BY LeadersSame DEF ShellInv, Typed, StoppedAre
<1>2. TermMoves
  BY DEF TermMoves
<1> QED BY <1>1, <1>2, GoesKeeps

(* waitpid() of the shell, with whatever it finds. *)
LEMMA WaitOnMoves ==
    ASSUME ShellInv, NEW pid, WaitOn(pid), usr2' = usr2 PROVE LeadersMove /\ StoppedAre'
<1>0. StoppedAre
  BY DEF ShellInv
<1>1. CASE child' = child /\ stopped' \subseteq stopped
  BY <1>0, <1>1, LeadersSame DEF StoppedAre
<1>2. ASSUME NEW p \in Zombies, child' = [child EXCEPT ![p].st = "reaped"], stopped' = stopped
      PROVE  LeadersMove /\ StoppedAre'
  BY <1>2, ReapMoves
<1> QED BY <1>1, <1>2 DEF WaitOn

LEMMA ForkInv == ShellInv /\ Fork => ShellInv'
<1> SUFFICES ASSUME ShellInv, Fork PROVE ShellInv'
  OBVIOUS
<1>0. Typed /\ Counted /\ Leaders(child) /\ StoppedAre /\ TerminalOwned
  BY DEF ShellInv
<1>1. /\ pc = "fork" /\ forks' = forks + 1 /\ pc' \in {"foreground", "background"}
      /\ UNCHANGED <<handler, sigchld, term, stopped, usr2>>
  BY DEF Fork, At
<1> DEFINE n == forks + 1
<1>2. n \in Pids /\ forks \in Nat /\ n <= MaxForks
  BY <1>0, <1>1, ShellAssumption DEF Typed, Counted, LineLabels, Pids
<1>3. PICK m, l, t : child' = [child EXCEPT ![n] =
                         [NoChild EXCEPT !.st = "new", !.mode = m, !.line = l, !.todo = t]]
  <2> DEFINE M == parsed.mode
             L == CASE IsBuiltin(parsed) \/ parsed.commands = <<>> -> "empty"
                    [] ~ IsBuiltin(parsed) /\ parsed.commands # <<>>
                       /\ parsed.status # "OK" -> "error"
                    [] OTHER -> "OK"
             T(listed) == IF IsBuiltin(parsed) THEN <<>>
                          ELSE [k \in DOMAIN parsed.commands |-> Call(parsed.commands[k], listed)]
  <2>1. PICK listed \in ListedPids : child' = [child EXCEPT ![n] =
            [NoChild EXCEPT !.st = "new", !.mode = M, !.line = L, !.todo = T(listed)]]
    BY DEF Fork
  <2> HIDE DEF M, L, T
  <2> QED BY <2>1
<1>4. /\ child'[n] = [NoChild EXCEPT !.st = "new", !.mode = m, !.line = l, !.todo = t]
      /\ child' = [q \in Pids |-> child'[q]]
      /\ \A q \in Pids : q # n => child'[q] = child[q]
  BY <1>0, <1>2, <1>3 DEF Leaders
<1>5. IsLeader(child'[n]) /\ child'[n].st = "new" /\ "new" \in AliveStates
  BY <1>4 DEF IsLeader, NoChild, ChildStates, AliveStates
<1>6. Leaders(child')
  BY <1>0, <1>4, <1>5 DEF Leaders
<1>7. child[n].st = "none"
  BY <1>0, <1>2 DEF Counted
<1>8. StoppedAre'
  BY <1>0, <1>1, <1>4, <1>7 DEF StoppedAre
<1>9. Counted'
  <2>1. \A p \in Pids : child'[p].st # "none" <=> p <= forks'
    <3> TAKE p \in Pids
    <3>1. p \in Nat
      BY DEF Pids
    <3>2. CASE p = n
      BY <1>1, <1>2, <1>5, <3>2
    <3>3. CASE p # n
      BY <1>0, <1>1, <1>2, <1>4, <3>1, <3>3 DEF Counted
    <3> QED BY <3>2, <3>3
  <2> QED BY <1>1, <1>2, <2>1 DEF Counted, LineLabels
<1>10. Typed'
  BY <1>0, <1>1, <1>2 DEF Typed, Labels, ForkedLabels
<1>11. TerminalOwned'
  <2>1. \A p \in Pids : child[p].st \in AliveStates => child'[p].st \in AliveStates
    BY <1>4, <1>5
  <2>2. term \in Pids => child[term].st \in AliveStates \/ sigchld \/ handler # <<>>
    BY <1>0, AliveIs DEF TerminalOwned
  <2>3. term' \in Pids => child'[term'].st \in AliveStates \/ sigchld' \/ handler' # <<>>
    BY <1>1, <2>1, <2>2
  <2> QED BY <2>3 DEF TerminalOwned, Alive, AliveStates
<1> QED BY <1>6, <1>8, <1>9, <1>10, <1>11 DEF ShellInv

LEMMA StepInv == ShellInv /\ ShellStep => ShellInv'
<1> SUFFICES ASSUME ShellInv, ShellStep PROVE ShellInv'
  OBVIOUS
<1>0. Typed /\ Counted /\ Leaders(child) /\ StoppedAre /\ sigchld \in BOOLEAN
  BY DEF ShellInv, Typed
<1>1. CASE \/ initialize \/ change_directory \/ print_jobs
           \/ NotAJob("fg") \/ NotAJob("bg") \/ NotAJob("kill")
           \/ ExitDone \/ Foreground \/ ReapDead \/ Background \/ FgCall
  <2>1. UNCHANGED <<handler, forks, sigchld, child, term, stopped, usr2>>
    BY <1>1 DEF initialize, change_directory, print_jobs, NotAJob, ExitDone, Foreground,
       ReapDead, Background, FgCall, procVars
  <2>2. \E to : Goes(to)
    BY <1>1 DEF initialize, change_directory, print_jobs, NotAJob, ExitDone, Foreground,
       ReapDead, Background, FgCall, Builtin, At, Goes, Labels, LineLabels, ForkedLabels, Ended
  <2> QED BY <2>1, <2>2, GoesQuiet
<1>2. CASE fg \/ bg
  <2>1. handler' = handler /\ forks' = forks /\ \E to : Goes(to)
    BY <1>2 DEF fg, bg, Builtin, At, Goes, Labels, LineLabels, ForkedLabels
  <2>2. CASE Job.pid \in Pids
    <3>1. SEND_CONTINUE_USR1(child, Job.pid)
      BY <1>2, <2>2 DEF fg, bg
    <3>2. LeadersMove /\ StoppedAre' /\ TermMoves /\ sigchld' \in BOOLEAN
      BY <1>0, <2>1, <2>2, <3>1, ContinueMoves
    <3> QED BY <2>1, <3>2, GoesKeeps
  <2>3. CASE Job.pid \notin Pids
    <3>1. UNCHANGED <<child, term, stopped, usr2, sigchld>>
      BY <1>2, <2>3 DEF fg, bg
    <3> QED BY <2>1, <3>1, GoesQuiet
  <2> QED BY <2>2, <2>3
<1>3. CASE kill_job \/ exit_
  <2>1. UNCHANGED <<handler, forks, term, stopped>> /\ \E to : Goes(to)
    BY <1>3 DEF kill_job, exit_, Builtin, At, Goes, Labels, LineLabels, ForkedLabels
  <2>2. \E ps : ps \subseteq Pids /\ SEND_USR2(child, ps)
    BY <1>3 DEF kill_job, exit_, ListedPids
  <2>3. LeadersMove /\ StoppedAre' /\ sigchld' \in BOOLEAN /\ (sigchld => sigchld')
    BY <1>0, <2>1, <2>2, Usr2Moves
  <2>4. TermMoves
    BY <2>1, <2>3 DEF TermMoves
  <2> QED BY <2>1, <2>3, <2>4, GoesKeeps
<1>4. ASSUME NEW p \in Pids, ExitReap(p) PROVE ShellInv'
  <2>1. /\ p \in Zombies /\ child' = [child EXCEPT ![p].st = "reaped"]
        /\ UNCHANGED <<handler, sigchld, term, forks, stopped, usr2>>
    BY <1>4 DEF ExitReap
  <2>2. Goes("exitwait")
    BY <1>4 DEF ExitReap, At, Goes, Labels, LineLabels, ForkedLabels
  <2>3. LeadersMove /\ StoppedAre'
    BY <2>1, ReapMoves
  <2>4. sigchld' \in BOOLEAN
    BY <1>0, <2>1
  <2>5. TermMoves
    BY <2>1 DEF TermMoves
  <2> QED BY <2>1, <2>2, <2>3, <2>4, <2>5, GoesKeeps
<1>5. CASE Wait \/ FgWait
  <2>1. UNCHANGED <<handler, sigchld, term, forks, usr2>> /\ \E to : Goes(to)
    BY <1>5 DEF Wait, FgWait, At, Goes, Labels, LineLabels, ForkedLabels
  <2>2. LeadersMove /\ StoppedAre'
    BY <1>5, <2>1, WaitOnMoves DEF Wait, FgWait
  <2>3. sigchld' \in BOOLEAN
    BY <1>0, <2>1
  <2>4. TermMoves
    BY <2>1 DEF TermMoves
  <2> QED BY <2>1, <2>2, <2>3, <2>4, GoesKeeps
<1> QED BY <1>1, <1>2, <1>3, <1>4, <1>5, ForkInv DEF ShellStep

LEMMA ShellNext == ShellInv /\ [Next]_vars => ShellInv'
<1> SUFFICES ASSUME ShellInv, [Next]_vars PROVE ShellInv'
  OBVIOUS
<1>1. CASE UNCHANGED vars
  <2>1. UNCHANGED <<pc, handler, sigchld, term, forks, child, stopped, usr2>>
    BY <1>1 DEF vars
  <2>2. sigchld' \in BOOLEAN /\ LeadersMove /\ StoppedAre'
    BY <2>1, LeadersSame DEF ShellInv, Typed, StoppedAre
  <2>3. TermMoves
    BY <2>1 DEF TermMoves
  <2> QED BY <2>1, <2>2, <2>3, OutsideKeeps
<1> QED BY <1>1, StepInv, HandlerInv, ChildInv, UserInv DEF Next, Done

LEMMA ShellAlways == Spec => []ShellInv
BY ShellInit, ShellNext, PTL DEF Spec

(***************************************************************************)
(* waitpid() of interpreter() returns to the prompt only after the child   *)
(* of the line has stopped or ended, also when the handler was first and   *)
(* waitpid() fails: what waits to be reported as stopped is stopped, and   *)
(* the child that is waited for has been forked.                           *)
(***************************************************************************)
THEOREM PromptInOrder == Spec => PromptAfterForeground
<1>1. ShellInv /\ [Next]_vars =>
      [pc = "wait" /\ pc' = "read" => child[forks].st \in {"stopped", "exited", "killed", "reaped"}]_vars
  <2> SUFFICES ASSUME ShellInv, Next, pc = "wait", pc' = "read"
               PROVE  child[forks].st \in {"stopped", "exited", "killed", "reaped"}
    OBVIOUS
  <2>1. Wait
    BY DEF Next, ShellStep, HandlerStep, ChildStep, User, Done, Ended, initialize,
       change_directory, print_jobs, NotAJob, fg, bg, kill_job, exit_, ExitReap, ExitDone, Fork,
       Foreground, ReapDead, Background, FgCall, FgWait, Builtin, At, Deliver, HandlerStopped,
       HandlerExited, HandlerKilled, HandlerReturn, ChildStart, ChildError, execute_commands,
       switch_case_cmd, ChildSuspend, CommandEnds, ReadLine, EndOfFile, CtrlC, CtrlZ,
       CtrlZShell, CtrlCNew, vars
  <2>2. forks \in Pids /\ forks # NoPid
    BY ShellAssumption DEF ShellInv, Typed, Counted, ForkedLabels, Pids, NoPid
  <2>3. child[forks].st \in ChildStates \ {"none"}
    BY <2>2 DEF ShellInv, Counted, Leaders, IsLeader, Typed, Pids
  <2>4. CASE forks \in stopped
    BY <2>2, <2>4 DEF ShellInv, StoppedAre
  <2>5. CASE \E p \in WaitedFor(forks) : p \in Zombies
    BY <2>2, <2>5, AliveIs DEF WaitedFor, ZombieStates
  <2>6. CASE WaitedFor(forks) \cap (Alive \cup Zombies) = {}
    <3>1. forks \notin Alive /\ forks \notin Zombies
      BY <2>2, <2>6 DEF WaitedFor
    <3> QED BY <2>2, <2>3, <3>1, AliveIs DEF ChildStates
  <2> QED BY <2>1, <2>4, <2>5, <2>6 DEF Wait, WaitOn
<1> QED BY <1>1, ShellAlways, PTL DEF Spec, PromptAfterForeground

(***************************************************************************)
(* The terminal comes back: with no child, no signal and no handler left   *)
(* it is the shell's, whichever child took it last, by a line, by fg or bg *)
(* of the shell, or by a bg in a pipe, and whoever waited for that child.  *)
(***************************************************************************)
THEOREM TerminalReturns ==
    Spec => [](Alive \cup Zombies = {} /\ ~ sigchld /\ handler = <<>> => term = Shell)
<1>1. ShellInv => (Alive \cup Zombies = {} /\ ~ sigchld /\ handler = <<>> => term = Shell)
  BY DEF ShellInv, Typed, TerminalOwned
<1> QED BY <1>1, ShellAlways, PTL


-----------------------------------------------------------------------------
(***************************************************************************)
(* What parser() makes of a line.  Its loops are recursive functions: that *)
(* a function with their equation exists, and what it says, follows from a *)
(* least counterexample, in the number of places that are left to search   *)
(* or tokens that are left to read.                                        *)
(***************************************************************************)

(* Every set of natural numbers has a least element. *)
LEMMA LeastElement ==
    ASSUME NEW T \in SUBSET Nat, T # {} PROVE \E x \in T : \A y \in T : x <= y
<1> DEFINE R == {xy \in Nat \X Nat : xy[1] < xy[2]}
<1>1. IsWellFoundedOn(R, Nat)
  BY NatLessThanWellFounded, Zenon DEF OpToRel
<1>2. \A y, x \in Nat : y < x => <<y, x>> \in R
  OBVIOUS
<1> HIDE DEF R
<1>3. PICK x \in T : \A y \in T : ~ (<<y, x>> \in R)
  BY <1>1, WFMin
<1>4. \A y \in T : y \in Nat /\ x \in Nat /\ ~ (y < x)
  BY <1>2, <1>3
<1>5. \A y \in T : x <= y
  BY <1>4
<1> QED BY <1>5

-----------------------------------------------------------------------------
(* The place of a name in the order of its first two characters. *)
Key(w) == 256 * w.c0 + w.c1

NamesOfCommands ==
    {"bg", "cat", "cd", "clear", "code", "echo", "exit", "fg", "gcc", "git", "grep", "jobs",
     "kill", "less", "ls", "make", "mkdir", "more", "printenv", "ps", "pwd", "rmdir", "scp",
     "sleep", "sort", "ssh", "tar", "touch", "vi", "whereis"}

LEMMA CommandsAre ==
    /\ DOMAIN command_list = 1 .. 30
    /\ \A k \in 1 .. 30 : /\ command_list[k].c0 \in 0 .. 255 /\ command_list[k].c1 \in 0 .. 255
                          /\ command_list[k].begins # "" /\ command_list[k].kind = "word"
<1>1. DOMAIN command_list = 1 .. 30
  BY DEF command_list
<1>2. \A k \in 1 .. 30 : command_list[k].c0 \in 0 .. 255
  BY DEF command_list, Word
<1>3. \A k \in 1 .. 30 : command_list[k].c1 \in 0 .. 255
  BY DEF command_list, Word
<1>4. \A k \in 1 .. 30 : command_list[k].begins # ""
  <2>1. \A k \in 1 .. 30 : command_list[k].begins \in NamesOfCommands
    BY DEF command_list, Word, NamesOfCommands
  <2>2. "" \notin NamesOfCommands
    BY DEF NamesOfCommands
  <2> QED BY <2>1, <2>2
<1>5. \A k \in 1 .. 30 : command_list[k].kind = "word"
  BY DEF command_list, Word
<1> QED BY <1>1, <1>2, <1>3, <1>4, <1>5

LEMMA KeysGoUp == \A k \in 1 .. 29 : Key(command_list[k]) < Key(command_list[k + 1])
BY DEF command_list, Word, Key

LEMMA KeysOrdered ==
    \A j, k \in 1 .. 30 : j < k => Key(command_list[j]) < Key(command_list[k])
<1> DEFINE T == {d \in Nat : \E j, k \in 1 .. 30 :
                    j < k /\ d = k - j /\ ~ (Key(command_list[j]) < Key(command_list[k]))}
<1>0. ASSUME NEW k \in 1 .. 30 PROVE Key(command_list[k]) \in Nat
  <2>1. PICK a \in 0 .. 255 : a = command_list[k].c0
    BY CommandsAre
  <2>2. PICK b \in 0 .. 255 : b = command_list[k].c1
    BY CommandsAre
  <2>3. Key(command_list[k]) = 256 * a + b
    BY <2>1, <2>2 DEF Key
  <2> QED BY <2>3
<1>1. ASSUME T # {} PROVE FALSE
  <2>1. PICK d \in T : \A e \in T : d <= e
    BY <1>1, LeastElement
  <2>2. PICK j \in 1 .. 30, k \in 1 .. 30 :
           j < k /\ d = k - j /\ ~ (Key(command_list[j]) < Key(command_list[k]))
    OBVIOUS
  <2>3. j + 1 \in 1 .. 30 /\ j \in 1 .. 29
    BY <2>2
  <2>4. Key(command_list[j]) < Key(command_list[j + 1])
    BY <2>3, KeysGoUp
  <2>5. CASE k = j + 1
    BY <2>2, <2>4, <2>5
  <2>6. CASE k # j + 1
    <3>1. j + 1 < k /\ k - (j + 1) \in Nat /\ k - (j + 1) < d
      BY <2>2, <2>3, <2>6
    <3>2. Key(command_list[j + 1]) < Key(command_list[k])
      <4> SUFFICES ASSUME ~ (Key(command_list[j + 1]) < Key(command_list[k])) PROVE FALSE
        OBVIOUS
      <4>1. k - (j + 1) \in T
        BY <2>3, <3>1
      <4>2. d <= k - (j + 1)
        BY <4>1, <2>1
      <4> QED BY <4>2, <3>1
    <3> QED BY <3>2, <2>2, <2>3, <2>4, <1>0
  <2> QED BY <2>5, <2>6
<1>2. ASSUME NEW j \in 1 .. 30, NEW k \in 1 .. 30, j < k,
             ~ (Key(command_list[j]) < Key(command_list[k]))
      PROVE FALSE
  <2>1. k - j \in T
    BY <1>2
  <2> QED BY <2>1, <1>1
<1> QED BY <1>2

(* The search goes on above mid exactly for the names behind it. *)
LEMMA UpperIs ==
    ASSUME NEW k \in 1 .. 30, NEW mid \in 0 .. 29, mid + 1 # k
    PROVE Upper(command_list[k], mid) <=> mid + 1 < k
<1>1. PICK m \in 1 .. 30 : m = mid + 1
  OBVIOUS
<1>2. PICK a \in 0 .. 255 : a = command_list[k].c0
  BY CommandsAre
<1>3. PICK b \in 0 .. 255 : b = command_list[k].c1
  BY CommandsAre
<1>4. PICK c \in 0 .. 255 : c = command_list[m].c0
  BY CommandsAre
<1>5. PICK d \in 0 .. 255 : d = command_list[m].c1
  BY CommandsAre
<1>6. Upper(command_list[k], mid) <=> IF a = c THEN b > d ELSE a > c
  BY <1>1, <1>2, <1>3, <1>4, <1>5 DEF Upper
<1>7. m < k => 256 * c + d < 256 * a + b
  BY <1>2, <1>3, <1>4, <1>5, KeysOrdered DEF Key
<1>8. k < m => 256 * a + b < 256 * c + d
  BY <1>2, <1>3, <1>4, <1>5, KeysOrdered DEF Key
<1>9. 256 * c + d < 256 * a + b => IF a = c THEN b > d ELSE a > c
  OBVIOUS
<1>10. 256 * a + b < 256 * c + d => ~ IF a = c THEN b > d ELSE a > c
  OBVIOUS
<1> QED BY <1>1, <1>6, <1>7, <1>8, <1>9, <1>10

-----------------------------------------------------------------------------
(* The binary search. *)
Searches == (0 .. num_command + 1) \X (-1 .. num_command)

SearchOf(f, word, b) ==
    LET mid == (b[1] + b[2]) \div 2
    IN  IF b[1] > b[2] THEN ""
        ELSE IF word.begins = command_list[mid + 1].begins THEN word.begins
        ELSE IF Upper(word, mid) THEN f[<<mid + 1, b[2]>>]
        ELSE f[<<b[1], mid - 1>>]

IsSearch(f, word) ==
    f = [b \in (0 .. num_command + 1) \X (-1 .. num_command) |->
          LET mid == (b[1] + b[2]) \div 2
          IN  IF b[1] > b[2] THEN ""
              ELSE IF word.begins = command_list[mid + 1].begins THEN word.begins
              ELSE IF Upper(word, mid) THEN f[<<mid + 1, b[2]>>]
              ELSE f[<<b[1], mid - 1>>]]

(* f is right for the intervals with less than n places. *)
SearchBelow(f, word, n) ==
    /\ DOMAIN f = Searches /\ f = [b \in Searches |-> f[b]]
    /\ \A b \in Searches : b[2] + 1 - b[1] < n => f[b] = SearchOf(f, word, b)

LEMMA Halves ==
    ASSUME NEW lo \in 0 .. 30, NEW hi \in -1 .. 29, lo <= hi
    PROVE /\ (lo + hi) \div 2 \in 0 .. 29
          /\ lo <= (lo + hi) \div 2 /\ (lo + hi) \div 2 <= hi
          /\ <<(lo + hi) \div 2 + 1, hi>> \in Searches
          /\ <<lo, (lo + hi) \div 2 - 1>> \in Searches
BY DEF Searches, num_command

LEMMA SearchExists == ASSUME NEW word PROVE \E f : IsSearch(f, word)
<1> DEFINE T == {n \in Nat : ~ \E f : SearchBelow(f, word, n)}
<1>0. \A b \in Searches : /\ b[1] \in 0 .. 30 /\ b[2] \in -1 .. 29
                           /\ b = <<b[1], b[2]>>
  BY DEF Searches, num_command
<1>1. ASSUME T # {} PROVE FALSE
  <2>1. PICK n \in T : \A e \in T : n <= e
    BY <1>1, LeastElement
  <2>2. n \in Nat /\ ~ \E f : SearchBelow(f, word, n)
    OBVIOUS
  <2>3. CASE n = 0
    <3> DEFINE f == [b \in Searches |-> ""]
    <3>1. \A b \in Searches : b[2] + 1 - b[1] < 0 => b[1] > b[2]
      BY <1>0
    <3>2. SearchBelow(f, word, 0)
      BY <3>1 DEF SearchBelow, SearchOf
    <3> QED BY <3>2, <2>2, <2>3
  <2>4. CASE n # 0
    <3>1. PICK m \in Nat : m = n - 1 /\ n = m + 1
      BY <2>2, <2>4
    <3>2. m \notin T
      BY <2>1, <2>2, <3>1
    <3>3. PICK f : SearchBelow(f, word, m)
      BY <3>2
    <3> DEFINE g == [b \in Searches |-> IF b[2] + 1 - b[1] < m THEN f[b]
                                        ELSE SearchOf(f, word, b)]
    <3>4. \A b \in Searches : g[b] = IF b[2] + 1 - b[1] < m THEN f[b]
                                      ELSE SearchOf(f, word, b)
      OBVIOUS
    <3>5. DOMAIN g = Searches /\ g = [b \in Searches |-> g[b]]
      OBVIOUS
    <3> HIDE DEF g
    <3>6. \A b \in Searches : g[b] = SearchOf(f, word, b) \/ ~ (b[2] + 1 - b[1] < n)
      BY <3>3, <3>4 DEF SearchBelow
    <3>7. ASSUME NEW b \in Searches, b[2] + 1 - b[1] < n
          PROVE SearchOf(f, word, b) = SearchOf(g, word, b)
      <4>1. CASE b[1] > b[2]
        BY <4>1 DEF SearchOf
      <4>2. CASE b[1] <= b[2]
        <5>1. PICK lo \in 0 .. 30, hi \in -1 .. 29 : b[1] = lo /\ b[2] = hi /\ lo <= hi
          BY <1>0, <4>2
        <5>2. PICK mid \in 0 .. 29 : mid = (lo + hi) \div 2
          BY <5>1, Halves
        <5>3. lo <= mid /\ mid <= hi /\ <<mid + 1, hi>> \in Searches /\ <<lo, mid - 1>> \in Searches
          BY <5>1, <5>2, Halves
        <5>4. hi + 1 - (mid + 1) < m /\ mid - 1 + 1 - lo < m
          BY <5>1, <5>3, <3>1, <3>7
        <5>5. g[<<mid + 1, hi>>] = f[<<mid + 1, hi>>]
          BY <5>3, <5>4, <3>4
        <5>6. g[<<lo, mid - 1>>] = f[<<lo, mid - 1>>]
          BY <5>3, <5>4, <3>4
        <5> QED BY <5>1, <5>2, <5>5, <5>6 DEF SearchOf
      <4> QED BY <4>1, <4>2, <1>0
    <3>8. SearchBelow(g, word, n)
      BY <3>5, <3>6, <3>7 DEF SearchBelow
    <3> QED BY <3>8, <2>2
  <2> QED BY <2>3, <2>4
<1>2. PICK f : SearchBelow(f, word, 40)
  BY <1>1
<1>3. \A b \in Searches : b[2] + 1 - b[1] < 40
  BY <1>0
<1>4. f = [b \in Searches |-> SearchOf(f, word, b)]
  BY <1>2, <1>3 DEF SearchBelow
<1>5. IsSearch(f, word)
  BY <1>4 DEF IsSearch, SearchOf, Searches
<1> QED BY <1>5

LEMMA SearchIs ==
    ASSUME NEW word
    PROVE \E f : /\ IsSearch(f, word)
                 /\ find_shell_command(word) = IF word.kind = "dot" THEN "." ELSE f[<<0, num_command>>]
<1>1. PICK g : IsSearch(g, word)
  BY SearchExists
<1> DEFINE Seek[b \in (0 .. num_command + 1) \X (-1 .. num_command)] ==
              LET mid == (b[1] + b[2]) \div 2
              IN  IF b[1] > b[2] THEN ""
                  ELSE IF word.begins = command_list[mid + 1].begins THEN word.begins
                  ELSE IF Upper(word, mid) THEN Seek[<<mid + 1, b[2]>>]
                  ELSE Seek[<<b[1], mid - 1>>]
<1>2. IsSearch(Seek, word)
  BY <1>1 DEF IsSearch
<1>3. find_shell_command(word) = IF word.kind = "dot" THEN "." ELSE Seek[<<0, num_command>>]
  BY DEF find_shell_command
<1> HIDE DEF Seek
<1> QED BY <1>2, <1>3

(* Every step of the search goes on in a smaller interval. *)
SearchStep(f, word, lo, hi, mid) ==
    f[<<lo, hi>>] = IF word.begins = command_list[mid + 1].begins THEN word.begins
                    ELSE IF Upper(word, mid) THEN f[<<mid + 1, hi>>] ELSE f[<<lo, mid - 1>>]

LEMMA SearchSteps ==
    ASSUME NEW f, NEW word, IsSearch(f, word),
           NEW lo \in 0 .. 30, NEW hi \in -1 .. 29
    PROVE /\ lo > hi => f[<<lo, hi>>] = ""
          /\ lo <= hi => \E mid \in 0 .. 29 :
                lo <= mid /\ mid <= hi /\ SearchStep(f, word, lo, hi, mid)
<1>1. <<lo, hi>> \in (0 .. num_command + 1) \X (-1 .. num_command)
  BY DEF num_command
<1>2. f[<<lo, hi>>] = LET mid == (lo + hi) \div 2
                      IN  IF lo > hi THEN ""
                          ELSE IF word.begins = command_list[mid + 1].begins THEN word.begins
                          ELSE IF Upper(word, mid) THEN f[<<mid + 1, hi>>]
                          ELSE f[<<lo, mid - 1>>]
  BY <1>1 DEF IsSearch
<1>3. lo > hi => f[<<lo, hi>>] = ""
  BY <1>2
<1>4. ASSUME lo <= hi
      PROVE \E mid \in 0 .. 29 : lo <= mid /\ mid <= hi /\ SearchStep(f, word, lo, hi, mid)
  <2>1. PICK mid \in 0 .. 29 : mid = (lo + hi) \div 2
    BY <1>4, Halves
  <2>2. lo <= mid /\ mid <= hi
    BY <1>4, <2>1, Halves
  <2>4. ~ (lo > hi)
    BY <1>4
  <2>5. SearchStep(f, word, lo, hi, mid)
    BY <1>2, <2>1, <2>4 DEF SearchStep
  <2> QED BY <2>2, <2>5
<1> QED BY <1>3, <1>4

(* The search for a name of command_list finds it in every interval it is in. *)
LEMMA SearchFinds ==
    ASSUME NEW f, NEW k \in 1 .. 30, IsSearch(f, command_list[k]),
           NEW lo \in 0 .. 30, NEW hi \in -1 .. 29, lo <= k - 1, k - 1 <= hi
    PROVE f[<<lo, hi>>] = command_list[k].begins
<1> DEFINE w == command_list[k]
           Bad(a, b) == a <= k - 1 /\ k - 1 <= b /\ f[<<a, b>>] # w.begins
           T == {n \in Nat : \E a \in 0 .. 30, b \in -1 .. 29 : n = b - a + 31 /\ Bad(a, b)}
<1>0. \A n \in Nat : \A a \in 0 .. 30, b \in -1 .. 29 : n = b - a + 31 /\ Bad(a, b) => n \in T
  OBVIOUS
<1>1. ASSUME T # {} PROVE FALSE
  <2>1. PICK n \in T : \A e \in T : n <= e
    BY <1>1, LeastElement
  <2>2. PICK a \in 0 .. 30, b \in -1 .. 29 : n = b - a + 31 /\ Bad(a, b)
    OBVIOUS
  <2> HIDE DEF T
  <2>a. IsSearch(f, w) /\ a <= b
    BY <2>2
  <2>b. a <= k - 1 /\ k - 1 <= b /\ f[<<a, b>>] # w.begins
    BY <2>2
  <2> HIDE DEF w
  <2>3. PICK mid \in 0 .. 29 : a <= mid /\ mid <= b /\ SearchStep(f, w, a, b, mid)
    BY <2>a, SearchSteps
  <2>4. w.begins # command_list[mid + 1].begins
    BY <2>b, <2>3 DEF SearchStep
  <2>5. mid + 1 # k
    BY <2>4 DEF w
  <2>6. Upper(w, mid) <=> mid + 1 < k
    BY <2>5, UpperIs DEF w
  <2>7. CASE mid + 1 < k
    <3>1. f[<<mid + 1, b>>] # w.begins
      BY <2>b, <2>3, <2>4, <2>6, <2>7 DEF SearchStep
    <3>2. Bad(mid + 1, b)
      BY <3>1, <2>b, <2>7
    <3>3. PICK c \in 0 .. 30 : c = mid + 1
      OBVIOUS
    <3>4. b - c + 31 \in Nat /\ b - c + 31 < n
      BY <3>3, <2>2, <2>3
    <3>5. b - c + 31 \in T
      BY <3>2, <3>3, <3>4, <1>0
    <3>6. n <= b - c + 31
      BY <2>1, <3>5
    <3> QED BY <3>4, <3>6, <2>2
  <2>8. CASE ~ (mid + 1 < k)
    <3>0. k - 1 <= mid - 1
      BY <2>5, <2>8
    <3>1. f[<<a, mid - 1>>] # w.begins
      BY <2>b, <2>3, <2>4, <2>6, <2>8 DEF SearchStep
    <3>2. Bad(a, mid - 1)
      BY <3>0, <3>1, <2>b
    <3>3. PICK c \in -1 .. 29 : c = mid - 1
      OBVIOUS
    <3>4. c - a + 31 \in Nat /\ c - a + 31 < n
      BY <3>3, <2>2, <2>3
    <3>5. c - a + 31 \in T
      BY <3>2, <3>3, <3>4, <1>0
    <3>6. n <= c - a + 31
      BY <2>1, <3>5
    <3> QED BY <3>4, <3>6, <2>2
  <2> QED BY <2>7, <2>8
<1>2. ASSUME f[<<lo, hi>>] # w.begins PROVE FALSE
  <2>1. Bad(lo, hi)
    BY <1>2
  <2>2. hi - lo + 31 \in Nat
    OBVIOUS
  <2>3. hi - lo + 31 \in T
    BY <2>1, <2>2, <1>0
  <2> QED BY <1>1, <2>3
<1> QED BY <1>2

(* The search for a word that begins with no name finds nothing. *)
Nameless(word) == word.begins = ""

LEMMA SearchFails ==
    ASSUME NEW f, NEW word, IsSearch(f, word), Nameless(word),
           NEW lo \in 0 .. 30, NEW hi \in -1 .. 29
    PROVE f[<<lo, hi>>] = ""
<1> DEFINE T == {n \in Nat : \E a \in 0 .. 30, b \in -1 .. 29 :
                                n = b - a + 31 /\ f[<<a, b>>] # ""}
<1>0. \A n \in Nat : \A a \in 0 .. 30, b \in -1 .. 29 :
         n = b - a + 31 /\ f[<<a, b>>] # "" => n \in T
  OBVIOUS
<1>1. ASSUME T # {} PROVE FALSE
  <2>1. PICK n \in T : \A e \in T : n <= e
    BY <1>1, LeastElement
  <2>2. PICK a \in 0 .. 30, b \in -1 .. 29 : n = b - a + 31 /\ f[<<a, b>>] # ""
    OBVIOUS
  <2>n. n \in Nat /\ n = b - a + 31
    BY <2>2
  <2> HIDE DEF T
  <2>3. a <= b
    <3> SUFFICES ASSUME a > b PROVE FALSE
      OBVIOUS
    <3>1. f[<<a, b>>] = ""
      BY SearchSteps
    <3> QED BY <3>1, <2>2
  <2>4. PICK mid \in 0 .. 29 : a <= mid /\ mid <= b /\ SearchStep(f, word, a, b, mid)
    BY <2>3, SearchSteps
  <2>5. f[<<mid + 1, b>>] # "" \/ f[<<a, mid - 1>>] # ""
    BY <2>2, <2>4 DEF SearchStep, Nameless
  <2>6. CASE f[<<mid + 1, b>>] # ""
    <3>3. PICK c \in 0 .. 30 : c = mid + 1
      OBVIOUS
    <3>4. b - c + 31 \in Nat /\ b - c + 31 < n
      BY <3>3, <2>n, <2>4
    <3>5. b - c + 31 \in T
      BY <2>6, <3>3, <3>4, <1>0
    <3>6. n <= b - c + 31
      BY <2>1, <3>5
    <3> QED BY <3>4, <3>6, <2>n
  <2>7. CASE f[<<a, mid - 1>>] # ""
    <3>3. PICK c \in -1 .. 29 : c = mid - 1
      OBVIOUS
    <3>4. c - a + 31 \in Nat /\ c - a + 31 < n
      BY <3>3, <2>n, <2>4
    <3>5. c - a + 31 \in T
      BY <2>7, <3>3, <3>4, <1>0
    <3>6. n <= c - a + 31
      BY <2>1, <3>5
    <3> QED BY <3>4, <3>6, <2>n
  <2> QED BY <2>5, <2>6, <2>7
<1>2. ASSUME f[<<lo, hi>>] # "" PROVE FALSE
  <2>1. hi - lo + 31 \in Nat
    OBVIOUS
  <2>2. hi - lo + 31 \in T
    BY <1>2, <2>1, <1>0
  <2> QED BY <1>1, <2>2
<1> QED BY <1>2

LEMMA FindsCommand ==
    ASSUME NEW k \in 1 .. 30
    PROVE find_shell_command(command_list[k]) = command_list[k].begins
<1>1. PICK f : /\ IsSearch(f, command_list[k])
               /\ find_shell_command(command_list[k]) =
                     IF command_list[k].kind = "dot" THEN "." ELSE f[<<0, num_command>>]
  BY SearchIs
<1>2. command_list[k].kind # "dot"
  BY CommandsAre
<1>3. f[<<0, 29>>] = command_list[k].begins
  <2>1. 0 \in 0 .. 30 /\ 29 \in -1 .. 29 /\ 0 <= k - 1 /\ k - 1 <= 29
    OBVIOUS
  <2> QED BY <1>1, <2>1, SearchFinds
<1> QED BY <1>1, <1>2, <1>3 DEF num_command

(* A word is found exactly if it is a path or begins with a name. *)
Names(t) == t.kind = "dot" \/ \E k \in DOMAIN command_list : command_list[k].begins = t.begins

LEMMA FindIs ==
    ASSUME NEW t \in Tokens
    PROVE (find_shell_command(t) = "") <=> ~ Names(t)
<1>1. CASE t \in {command_list[k] : k \in DOMAIN command_list}
  <2>1. PICK k \in 1 .. 30 : t = command_list[k]
    BY <1>1, CommandsAre
  <2>2. find_shell_command(t) # ""
    BY <2>1, FindsCommand, CommandsAre
  <2>3. Names(t)
    BY <2>1, CommandsAre DEF Names
  <2> QED BY <2>2, <2>3
<1>2. CASE t = Dot
  <2>1. t.kind = "dot"
    BY <1>2 DEF Dot, Mark
  <2>2. find_shell_command(t) = "."
    BY <2>1 DEF find_shell_command
  <2> QED BY <2>1, <2>2 DEF Names
<1>3. CASE \/ t \in [kind : {"word"}, c0 : 0 .. 255, c1 : 0 .. 255, begins : {""}]
           \/ t \in {Pipe, Ampersand, Quote}
  <2>1. t.begins = "" /\ t.kind # "dot"
    <3>1. CASE t \in [kind : {"word"}, c0 : 0 .. 255, c1 : 0 .. 255, begins : {""}]
      BY <3>1
    <3>2. CASE t \in {Pipe, Ampersand, Quote}
      <4>1. CASE t = Pipe
        BY <4>1 DEF Mark, Pipe
      <4>2. CASE t = Ampersand
        BY <4>2 DEF Mark, Ampersand
      <4>3. CASE t = Quote
        BY <4>3 DEF Mark, Quote
      <4> QED BY <3>2, <4>1, <4>2, <4>3
    <3> QED BY <1>3, <3>1, <3>2
  <2>2. PICK f : /\ IsSearch(f, t)
                 /\ find_shell_command(t) = IF t.kind = "dot" THEN "." ELSE f[<<0, num_command>>]
    BY SearchIs
  <2>3. f[<<0, 29>>] = ""
    <3>1. 0 \in 0 .. 30 /\ 29 \in -1 .. 29
      OBVIOUS
    <3> QED BY <2>1, <2>2, <3>1, SearchFails DEF Nameless
  <2>4. find_shell_command(t) = ""
    BY <2>1, <2>2, <2>3 DEF num_command
  <2>5. ~ Names(t)
    BY <2>1, CommandsAre DEF Names
  <2> QED BY <2>4, <2>5
<1>4. \/ t \in {command_list[k] : k \in DOMAIN command_list}
      \/ t = Dot
      \/ t \in [kind : {"word"}, c0 : 0 .. 255, c1 : 0 .. 255, begins : {""}]
      \/ t \in {Pipe, Ampersand, Quote}
  BY Zenon DEF Tokens
<1> QED BY <1>1, <1>2, <1>3, <1>4

-----------------------------------------------------------------------------
(* The end of the arguments of the command at pos. *)
StopsAt(line, pos, i) == \/ i > Len(line)
                         \/ line[i].kind \in {"pipe", "amp"}
                         \/ i - pos = MAXARGS

IsArguments(f, line, pos) ==
    f = [i \in pos + 1 .. Len(line) + 1 |-> IF StopsAt(line, pos, i) THEN i ELSE f[i + 1]]

(* The first place from i on where the arguments stop. *)
FirstStop(line, pos, i, e) ==
    i <= e /\ StopsAt(line, pos, e) /\ \A j \in i .. e - 1 : ~ StopsAt(line, pos, j)

LEMMA FirstStopExists ==
    ASSUME NEW line, Len(line) \in Nat, NEW pos \in Nat,
           NEW i \in pos + 1 .. Len(line) + 1
    PROVE \E e \in pos + 1 .. Len(line) + 1 : FirstStop(line, pos, i, e)
<1>0. PICK L \in Nat : L = Len(line)
  OBVIOUS
<1> DEFINE T == {e \in Nat : i <= e /\ e <= L + 1 /\ StopsAt(line, pos, e)}
<1>1. L + 1 \in T
  BY <1>0 DEF StopsAt
<1>2. PICK e \in T : \A d \in T : e <= d
  BY <1>1, LeastElement
<1>3. e \in pos + 1 .. L + 1 /\ i <= e /\ StopsAt(line, pos, e)
  BY <1>0
<1>4. ASSUME NEW j \in i .. e - 1, StopsAt(line, pos, j) PROVE FALSE
  <2>1. j \in Nat /\ i <= j /\ j <= L + 1 /\ j < e
    BY <1>3, <1>0
  <2>2. j \in T
    BY <2>1, <1>4
  <2> QED BY <2>1, <2>2, <1>2, <1>3
<1> QED BY <1>0, <1>3, <1>4 DEF FirstStop

LEMMA FirstStopUnique ==
    ASSUME NEW line, NEW pos \in Nat, NEW i \in Nat, NEW d \in Nat, NEW e \in Nat,
           FirstStop(line, pos, i, d), FirstStop(line, pos, i, e)
    PROVE d = e
<1>1. ASSUME d < e PROVE FALSE
  <2>1. d \in i .. e - 1
    BY <1>1 DEF FirstStop
  <2> QED BY <2>1 DEF FirstStop
<1>2. ASSUME e < d PROVE FALSE
  <2>1. e \in i .. d - 1
    BY <1>2 DEF FirstStop
  <2> QED BY <2>1 DEF FirstStop
<1> QED BY <1>1, <1>2

LEMMA ArgumentsExist ==
    ASSUME NEW line, Len(line) \in Nat, NEW pos \in Nat
    PROVE \E f : IsArguments(f, line, pos)
<1>0. PICK L \in Nat : L = Len(line)
  OBVIOUS
<1> DEFINE Places == pos + 1 .. L + 1
           f == [i \in Places |-> CHOOSE e \in Places : FirstStop(line, pos, i, e)]
<1>1. \A i \in Places : f[i] \in Places /\ FirstStop(line, pos, i, f[i])
  BY <1>0, FirstStopExists
<1>a. f = [i \in Places |-> f[i]]
  OBVIOUS
<1> HIDE DEF f
<1>2. ASSUME NEW i \in Places PROVE f[i] = IF StopsAt(line, pos, i) THEN i ELSE f[i + 1]
  <2>1. i \in Nat /\ f[i] \in Nat /\ FirstStop(line, pos, i, f[i])
    BY <1>1
  <2>2. CASE StopsAt(line, pos, i)
    <3>1. FirstStop(line, pos, i, i)
      BY <2>1, <2>2 DEF FirstStop
    <3> QED BY <2>1, <2>2, <3>1, FirstStopUnique
  <2>3. CASE ~ StopsAt(line, pos, i)
    <3>1. i # L + 1
      BY <2>3, <1>0 DEF StopsAt
    <3>2. i + 1 \in Places
      BY <3>1
    <3>3. PICK e \in Nat : e = f[i + 1] /\ FirstStop(line, pos, i + 1, e)
      BY <3>2, <1>1
    <3>4. i + 1 <= e /\ StopsAt(line, pos, e)
      BY <3>3 DEF FirstStop
    <3>5. ASSUME NEW j \in i .. e - 1 PROVE ~ StopsAt(line, pos, j)
      <4>1. CASE j = i
        BY <4>1, <2>3
      <4>2. CASE j # i
        <5>1. j \in i + 1 .. e - 1
          BY <4>2, <2>1
        <5> QED BY <5>1, <3>3 DEF FirstStop
      <4> QED BY <4>1, <4>2
    <3>6. FirstStop(line, pos, i, e)
      BY <3>4, <3>5, <2>1 DEF FirstStop
    <3>7. f[i] = e
      BY <3>6, <2>1, FirstStopUnique
    <3> QED BY <3>7, <3>3, <2>3
  <2> QED BY <2>2, <2>3
<1>3. f = [i \in Places |-> IF StopsAt(line, pos, i) THEN i ELSE f[i + 1]]
  BY <1>a, <1>2
<1>4. IsArguments(f, line, pos)
  BY <1>0, <1>3 DEF IsArguments
<1> QED BY <1>4

LEMMA ArgumentsAre ==
    ASSUME NEW f, NEW line, Len(line) \in Nat, NEW pos \in Nat, pos <= Len(line),
           IsArguments(f, line, pos)
    PROVE f[pos + 1] \in pos + 1 .. Len(line) + 1 /\ FirstStop(line, pos, pos + 1, f[pos + 1])
<1>0. PICK L \in Nat : L = Len(line) /\ pos <= L
  OBVIOUS
<1>1. PICK e \in pos + 1 .. L + 1 : FirstStop(line, pos, pos + 1, e)
  <2>1. pos + 1 \in pos + 1 .. Len(line) + 1
    BY <1>0
  <2> QED BY <2>1, <1>0, FirstStopExists
<1>2. \A i \in pos + 1 .. L + 1 : f[i] = IF StopsAt(line, pos, i) THEN i ELSE f[i + 1]
  BY <1>0 DEF IsArguments
<1> DEFINE T == {n \in Nat : \E i \in pos + 1 .. e : n = e - i /\ f[i] # e}
<1>3. ASSUME T # {} PROVE FALSE
  <2>1. PICK n \in T : \A m \in T : n <= m
    BY <1>3, LeastElement
  <2>2. PICK i \in pos + 1 .. e : n = e - i /\ f[i] # e /\ n \in Nat
    OBVIOUS
  <2>3. f[i] = IF StopsAt(line, pos, i) THEN i ELSE f[i + 1]
    BY <1>1, <1>2
  <2>4. CASE i = e
    BY <2>4, <2>3, <2>2, <1>1 DEF FirstStop
  <2>5. CASE i # e
    <3>1. i \in pos + 1 .. e - 1 /\ i + 1 \in pos + 1 .. e
      BY <2>5
    <3>2. ~ StopsAt(line, pos, i)
      BY <3>1, <1>1 DEF FirstStop
    <3>3. PICK c \in pos + 1 .. e : c = i + 1 /\ f[c] # e
      BY <3>1, <3>2, <2>2, <2>3
    <3>4. e - c \in Nat /\ e - c < n
      BY <3>3, <2>2
    <3>5. e - c \in T
      BY <3>3, <3>4
    <3>6. n <= e - c
      BY <2>1, <3>5
    <3> QED BY <3>4, <3>6, <2>2
  <2> QED BY <2>4, <2>5
<1>4. f[pos + 1] = e
  <2> SUFFICES ASSUME f[pos + 1] # e PROVE FALSE
    OBVIOUS
  <2>1. pos + 1 \in pos + 1 .. e /\ e - (pos + 1) \in Nat
    OBVIOUS
  <2>2. e - (pos + 1) \in T
    BY <2>1
  <2> QED BY <2>2, <1>3
<1> QED BY <1>0, <1>1, <1>4

LEMMA ArgumentsStop ==
    ASSUME NEW line, Len(line) \in Nat, NEW pos \in Nat, pos <= Len(line)
    PROVE /\ find_arguments(line, pos) \in pos + 1 .. Len(line) + 1
          /\ FirstStop(line, pos, pos + 1, find_arguments(line, pos))
<1>1. PICK g : IsArguments(g, line, pos)
  BY ArgumentsExist
<1> DEFINE Stop(i) == \/ i > Len(line)
                      \/ line[i].kind \in {"pipe", "amp"}
                      \/ i - pos = MAXARGS
           Seek[i \in pos + 1 .. Len(line) + 1] == IF Stop(i) THEN i ELSE Seek[i + 1]
<1>2. IsArguments(Seek, line, pos)
  BY <1>1 DEF IsArguments, StopsAt
<1>3. find_arguments(line, pos) = Seek[pos + 1]
  BY DEF find_arguments
<1> HIDE DEF Seek
<1> QED BY <1>2, <1>3, ArgumentsAre

-----------------------------------------------------------------------------
(* One step of the loop of parser(): what it makes of the line from pos on. *)
ReadsNothing(status) == [status |-> status, commands |-> <<>>, mode |-> "FOREGROUND"]
StopKind(line, end) == IF end > Len(line) THEN "" ELSE line[end].kind
NextCommand(line, end) == IF StopKind(line, end) = "pipe" THEN end + 1 ELSE end

ReadCommand(f, line, pos, end) ==
    IF StopKind(line, end) = "amp"
    THEN [status |-> IF end = Len(line) THEN "OK" ELSE "SYNTAXERR",
          commands |-> <<find_shell_command(line[pos])>>, mode |-> "BACKGROUND"]
    ELSE [f[NextCommand(line, end)] EXCEPT !.commands = <<find_shell_command(line[pos])>> \o @]

IsUnknown(line, pos) == find_shell_command(line[pos]) = ""

ReadOf(f, line, pos) ==
    IF pos > Len(line) THEN ReadsNothing(AtEnd(line, pos))
    ELSE IF IsUnknown(line, pos) THEN ReadsNothing("NOCOMMANDERR")
    ELSE ReadCommand(f, line, pos, find_arguments(line, pos))

IsReading(f, line) == f = [pos \in 1 .. Len(line) + 1 |-> ReadOf(f, line, pos)]

(* f is right for the ends of the line with less than n tokens. *)
ReadBelow(f, line, n) ==
    /\ f = [pos \in 1 .. Len(line) + 1 |-> f[pos]]
    /\ \A pos \in 1 .. Len(line) + 1 : Len(line) + 1 - pos < n => f[pos] = ReadOf(f, line, pos)

LEMMA ReadingExists ==
    ASSUME NEW line, Len(line) \in Nat PROVE \E f : IsReading(f, line)
<1>0. PICK L \in Nat : L = Len(line)
  OBVIOUS
<1> DEFINE T == {n \in Nat : ~ \E f : ReadBelow(f, line, n)}
<1>1. ASSUME T # {} PROVE FALSE
  <2>1. PICK n \in T : \A e \in T : n <= e
    BY <1>1, LeastElement
  <2>2. n \in Nat /\ ~ \E f : ReadBelow(f, line, n)
    OBVIOUS
  <2>3. CASE n = 0
    <3> DEFINE f == [pos \in 1 .. Len(line) + 1 |-> 0]
    <3>1. \A pos \in 1 .. Len(line) + 1 : ~ (Len(line) + 1 - pos < 0)
      BY <1>0
    <3>2. f = [pos \in 1 .. Len(line) + 1 |-> f[pos]]
      OBVIOUS
    <3>3. ReadBelow(f, line, 0)
      BY <3>1, <3>2 DEF ReadBelow
    <3> QED BY <3>3, <2>2, <2>3
  <2>4. CASE n # 0
    <3>1. PICK m \in Nat : m = n - 1 /\ n = m + 1
      BY <2>2, <2>4
    <3>2. m \notin T
      BY <2>1, <2>2, <3>1
    <3>3. PICK f : ReadBelow(f, line, m)
      BY <3>2
    <3> DEFINE g == [pos \in 1 .. Len(line) + 1 |->
                       IF Len(line) + 1 - pos < m THEN f[pos] ELSE ReadOf(f, line, pos)]
    <3>4. \A pos \in 1 .. Len(line) + 1 :
             g[pos] = IF Len(line) + 1 - pos < m THEN f[pos] ELSE ReadOf(f, line, pos)
      OBVIOUS
    <3>5. g = [pos \in 1 .. Len(line) + 1 |-> g[pos]]
      OBVIOUS
    <3> HIDE DEF g
    <3>7. ASSUME NEW pos \in 1 .. Len(line) + 1, Len(line) + 1 - pos < n
          PROVE g[pos] = ReadOf(g, line, pos)
      <4>0. g[pos] = ReadOf(f, line, pos)
        BY <3>3, <3>4 DEF ReadBelow
      <4>a. CASE pos > Len(line)
        BY <4>a, <4>0 DEF ReadOf
      <4>1. CASE ~ (pos > Len(line)) /\ IsUnknown(line, pos)
        <5>1. \A h : ReadOf(h, line, pos) = ReadsNothing("NOCOMMANDERR")
          BY <4>1 DEF ReadOf
        <5> QED BY <5>1, <4>0
      <4>2. CASE ~ (pos > Len(line)) /\ ~ IsUnknown(line, pos)
        <5>1. pos \in Nat /\ pos <= Len(line)
          BY <4>2, <1>0
        <5>2. PICK e \in pos + 1 .. Len(line) + 1 : e = find_arguments(line, pos)
          BY <5>1, ArgumentsStop
        <5>3. CASE StopKind(line, e) = "amp"
          BY <5>2, <5>3, <4>0, <4>2 DEF ReadOf, ReadCommand
        <5>4. CASE StopKind(line, e) # "amp"
          <6>1. PICK c \in pos + 1 .. Len(line) + 1 : c = NextCommand(line, e)
            <7>1. CASE StopKind(line, e) = "pipe"
              <8>1. e # L + 1
                BY <7>1, <1>0 DEF StopKind
              <8>2. e + 1 \in pos + 1 .. Len(line) + 1
                BY <8>1, <1>0
              <8> QED BY <7>1, <8>2 DEF NextCommand
            <7>2. CASE StopKind(line, e) # "pipe"
              BY <7>2 DEF NextCommand
            <7> QED BY <7>1, <7>2
          <6>2. c \in 1 .. Len(line) + 1 /\ Len(line) + 1 - c < m
            BY <1>0, <3>1, <3>7
          <6>3. g[c] = f[c]
            BY <6>2, <3>4
          <6> QED BY <6>1, <6>3, <5>2, <5>4, <4>0, <4>2 DEF ReadOf, ReadCommand
        <5> QED BY <5>3, <5>4
      <4> QED BY <4>a, <4>1, <4>2
    <3>8. ReadBelow(g, line, n)
      BY <3>5, <3>7 DEF ReadBelow
    <3> QED BY <3>8, <2>2
  <2> QED BY <2>3, <2>4
<1>2. L + 1 \in Nat /\ L + 1 \notin T
  BY <1>1
<1>3. PICK f : ReadBelow(f, line, L + 1)
  BY <1>2
<1>4. \A pos \in 1 .. Len(line) + 1 : Len(line) + 1 - pos < L + 1
  BY <1>0
<1>5. f = [pos \in 1 .. Len(line) + 1 |-> ReadOf(f, line, pos)]
  BY <1>3, <1>4 DEF ReadBelow
<1> QED BY <1>5 DEF IsReading

LEMMA ParserIs ==
    ASSUME NEW line, Len(line) \in Nat
    PROVE \E f : IsReading(f, line) /\ parser(line) = f[1]
<1>1. PICK g : IsReading(g, line)
  BY ReadingExists
<1> DEFINE Read[pos \in 1 .. Len(line) + 1] ==
          IF pos > Len(line)
          THEN [status |-> AtEnd(line, pos), commands |-> <<>>, mode |-> "FOREGROUND"]
          ELSE IF find_shell_command(line[pos]) = ""
          THEN [status |-> "NOCOMMANDERR", commands |-> <<>>, mode |-> "FOREGROUND"]
          ELSE LET end == find_arguments(line, pos)
                   stop == IF end > Len(line) THEN "" ELSE line[end].kind
                   cmd == <<find_shell_command(line[pos])>>
               IN  IF stop = "amp"
                   THEN [status |-> IF end = Len(line) THEN "OK" ELSE "SYNTAXERR",
                         commands |-> cmd, mode |-> "BACKGROUND"]
                   ELSE LET rest == Read[IF stop = "pipe" THEN end + 1 ELSE end]
                        IN  [rest EXCEPT !.commands = cmd \o @]
<1>2. IsReading(Read, line)
  BY <1>1 DEF IsReading, ReadOf, IsUnknown, ReadCommand, ReadsNothing, StopKind, NextCommand
<1>3. parser(line) = Read[1]
  BY DEF parser
<1> HIDE DEF Read
<1> QED BY <1>2, <1>3

-----------------------------------------------------------------------------
(* The grammar from a place of the line on. *)
IsPipe(line, i) == line[i].kind = "pipe"
IsAmp(line, i) == line[i].kind = "amp"
StartsAt(line, pos) == pos = 1 \/ IsPipe(line, pos - 1)
HeadsFrom(line, pos) == {i \in Heads(line) : i >= pos}

WellFrom(line, pos) ==
    /\ \A i \in HeadsFrom(line, pos) : Names(line[i])
    /\ ~ IsPipe(line, Len(line))
    /\ \A i \in pos .. Len(line) : IsAmp(line, i) => i = Len(line)

(* The tokens from pos to e - 1 are a command with its arguments. *)
IsCommand(line, pos, e) ==
    /\ e \in pos + 1 .. Len(line) + 1
    /\ \A j \in pos .. e - 1 : ~ IsPipe(line, j) /\ ~ IsAmp(line, j)
    /\ e <= Len(line) => IsPipe(line, e) \/ IsAmp(line, e)

LEMMA HeadsAre ==
    ASSUME NEW line, Len(line) \in Nat, DOMAIN line = 1 .. Len(line)
    PROVE Heads(line) = {i \in 1 .. Len(line) : StartsAt(line, i)}
BY DEF Heads, StartsAt, IsPipe

LEMMA NamedKind ==
    ASSUME NEW t \in Tokens, Names(t) PROVE t.kind # "pipe" /\ t.kind # "amp"
<1>1. CASE t \in {command_list[k] : k \in DOMAIN command_list}
  <2>1. PICK k \in 1 .. 30 : t = command_list[k]
    BY <1>1, CommandsAre
  <2> QED BY <2>1, CommandsAre
<1>2. CASE t \in {Dot, Quote}
  <2>1. CASE t = Dot
    BY <2>1 DEF Dot, Mark
  <2>2. CASE t = Quote
    BY <2>2 DEF Quote, Mark
  <2> QED BY <1>2, <2>1, <2>2
<1>3. CASE t \in {Pipe, Ampersand}
  <2>1. t.begins = "" /\ t.kind # "dot"
    <3>1. CASE t = Pipe
      BY <3>1 DEF Pipe, Mark
    <3>2. CASE t = Ampersand
      BY <3>2 DEF Ampersand, Mark
    <3> QED BY <1>3, <3>1, <3>2
  <2> QED BY <2>1, CommandsAre DEF Names
<1>4. CASE t \in [kind : {"word"}, c0 : 0 .. 255, c1 : 0 .. 255, begins : {""}]
  BY <1>4
<1>5. \/ t \in {command_list[k] : k \in DOMAIN command_list}
      \/ t \in [kind : {"word"}, c0 : 0 .. 255, c1 : 0 .. 255, begins : {""}]
      \/ t \in {Dot, Pipe, Ampersand, Quote}
  BY Zenon DEF Tokens
<1> QED BY <1>1, <1>2, <1>3, <1>4, <1>5

LEMMA CommandIs ==
    ASSUME NEW line \in Seq(Tokens), FewArguments(line),
           NEW pos \in 1 .. Len(line), StartsAt(line, pos), ~ IsUnknown(line, pos)
    PROVE IsCommand(line, pos, find_arguments(line, pos))
<1>0. PICK L \in Nat : L = Len(line) /\ DOMAIN line = 1 .. L
  OBVIOUS
<1>1. PICK e \in pos + 1 .. L + 1 :
         e = find_arguments(line, pos) /\ FirstStop(line, pos, pos + 1, e)
  BY <1>0, ArgumentsStop
<1>2. pos \in Heads(line)
  BY <1>0, HeadsAre
<1>3. e - pos < MAXARGS
  BY <1>1, <1>2 DEF FewArguments
<1>4. line[pos] \in Tokens
  OBVIOUS
<1>5. Names(line[pos])
  BY <1>4, FindIs DEF IsUnknown
<1>6. ~ IsPipe(line, pos) /\ ~ IsAmp(line, pos)
  BY <1>4, <1>5, NamedKind DEF IsPipe, IsAmp
<1>7. ASSUME NEW j \in pos .. e - 1 PROVE ~ IsPipe(line, j) /\ ~ IsAmp(line, j)
  <2>1. CASE j = pos
    BY <2>1, <1>6
  <2>2. CASE j # pos
    <3>1. j \in pos + 1 .. e - 1
      BY <2>2
    <3>2. ~ StopsAt(line, pos, j)
      BY <3>1, <1>1 DEF FirstStop
    <3> QED BY <3>2 DEF StopsAt, IsPipe, IsAmp
  <2> QED BY <2>1, <2>2
<1>8. ASSUME e <= L PROVE IsPipe(line, e) \/ IsAmp(line, e)
  <2>1. StopsAt(line, pos, e)
    BY <1>1 DEF FirstStop
  <2>2. e - pos # MAXARGS
    BY <1>3, ParserAssumption
  <2>3. ~ (e > Len(line))
    BY <1>0, <1>8
  <2> QED BY <2>1, <2>2, <2>3 DEF StopsAt, IsPipe, IsAmp
<1> QED BY <1>0, <1>1, <1>7, <1>8 DEF IsCommand

LEMMA HeadsAfter ==
    ASSUME NEW line \in Seq(Tokens), NEW pos \in 1 .. Len(line), StartsAt(line, pos),
           NEW e, IsCommand(line, pos, e)
    PROVE HeadsFrom(line, pos) = {pos} \cup HeadsFrom(line, e + 1)
<1>0. PICK L \in Nat : L = Len(line) /\ DOMAIN line = 1 .. L
  OBVIOUS
<1>1. e \in pos + 1 .. L + 1
  BY <1>0 DEF IsCommand
<1>2. Heads(line) = {i \in 1 .. L : StartsAt(line, i)}
  BY <1>0, HeadsAre
<1>3. ASSUME NEW i \in 1 .. L, StartsAt(line, i), i > pos, i <= e PROVE FALSE
  <2>1. i - 1 \in pos .. e - 1 /\ i # 1
    BY <1>1, <1>3
  <2>2. ~ IsPipe(line, i - 1)
    BY <2>1 DEF IsCommand
  <2> QED BY <2>1, <2>2, <1>3 DEF StartsAt
<1>4. ASSUME NEW i \in HeadsFrom(line, pos) PROVE i \in {pos} \cup HeadsFrom(line, e + 1)
  <2>1. i \in 1 .. L /\ i \in Heads(line) /\ StartsAt(line, i) /\ i >= pos
    BY <1>2 DEF HeadsFrom
  <2>2. i = pos \/ i >= e + 1
    BY <2>1, <1>1, <1>3
  <2> QED BY <2>1, <2>2 DEF HeadsFrom
<1>5. ASSUME NEW i \in HeadsFrom(line, e + 1) PROVE i \in HeadsFrom(line, pos)
  <2>1. i \in 1 .. L /\ i \in Heads(line) /\ i >= e + 1
    BY <1>2 DEF HeadsFrom
  <2>2. i >= pos
    BY <2>1, <1>1
  <2> QED BY <2>1, <2>2 DEF HeadsFrom
<1>6. pos \in HeadsFrom(line, pos)
  BY <1>0, <1>2 DEF HeadsFrom
<1> QED BY <1>4, <1>5, <1>6

LEMMA WellAfter ==
    ASSUME NEW line \in Seq(Tokens), NEW pos \in 1 .. Len(line), StartsAt(line, pos),
           ~ IsUnknown(line, pos), NEW e, IsCommand(line, pos, e)
    PROVE WellFrom(line, pos) <=>
            /\ \A i \in HeadsFrom(line, e + 1) : Names(line[i])
            /\ ~ IsPipe(line, Len(line))
            /\ \A i \in e .. Len(line) : IsAmp(line, i) => i = Len(line)
<1>0. PICK L \in Nat : L = Len(line) /\ DOMAIN line = 1 .. L
  OBVIOUS
<1>1. e \in pos + 1 .. L + 1
  BY <1>0 DEF IsCommand
<1>2. Names(line[pos])
  <2>1. line[pos] \in Tokens
    OBVIOUS
  <2> QED BY <2>1, FindIs DEF IsUnknown
<1>3. (\A i \in HeadsFrom(line, pos) : Names(line[i]))
      <=> (\A i \in HeadsFrom(line, e + 1) : Names(line[i]))
  BY <1>2, HeadsAfter
<1>4. \A i \in pos .. e - 1 : ~ IsAmp(line, i)
  BY DEF IsCommand
<1>5. (\A i \in pos .. L : IsAmp(line, i) => i = L) <=> (\A i \in e .. L : IsAmp(line, i) => i = L)
  BY <1>1, <1>4
<1> QED BY <1>0, <1>3, <1>5 DEF WellFrom

(* What parser() must make of the line from pos on. *)
FoundIn(line) == {find_shell_command(line[i]) : i \in DOMAIN line}

IsRecord(r) == r = [status |-> r.status, commands |-> r.commands, mode |-> r.mode]

Accepts(r) == r.status = "OK"

Follows(line, pos, r) ==
    /\ IsRecord(r)
    /\ r.commands \in Seq(FoundIn(line))
    /\ Accepts(r) <=> WellFrom(line, pos)
    /\ Accepts(r) => Len(r.commands) = Cardinality(HeadsFrom(line, pos))

LEMMA NothingFollows ==
    ASSUME NEW line, NEW pos, NEW status, status # "OK", ~ WellFrom(line, pos)
    PROVE Follows(line, pos, ReadsNothing(status))
<1>1. ReadsNothing(status).status = status
  BY DEF ReadsNothing
<1>2. ReadsNothing(status).commands = <<>>
  BY DEF ReadsNothing
<1>3. IsRecord(ReadsNothing(status))
  BY DEF ReadsNothing, IsRecord
<1>4. ReadsNothing(status).commands \in Seq(FoundIn(line))
  BY <1>2
<1> QED BY <1>1, <1>3, <1>4 DEF Follows, Accepts

(* A command in front of what is read. *)
Prepend(x, r) == [r EXCEPT !.commands = <<x>> \o @]

LEMMA PrependIs ==
    ASSUME NEW S, NEW x \in S, NEW r, IsRecord(r), r.commands \in Seq(S)
    PROVE /\ IsRecord(Prepend(x, r))
          /\ Accepts(Prepend(x, r)) <=> Accepts(r)
          /\ Prepend(x, r).commands \in Seq(S)
          /\ Len(Prepend(x, r).commands) = 1 + Len(r.commands)
<1>1. Prepend(x, r) = [status |-> r.status, commands |-> <<x>> \o r.commands, mode |-> r.mode]
  <2>1. PICK st, cs, mo : st = r.status /\ cs = r.commands /\ mo = r.mode
                          /\ r = [status |-> st, commands |-> cs, mode |-> mo]
    BY Zenon DEF IsRecord
  <2>2. PICK c : c = <<x>> \o cs
    OBVIOUS
  <2>3. [r EXCEPT !.commands = c] = [status |-> st, commands |-> c, mode |-> mo]
    BY <2>1
  <2> QED BY <2>1, <2>2, <2>3 DEF Prepend
<1>2. Prepend(x, r).status = r.status
  BY <1>1
<1>3. Prepend(x, r).commands = <<x>> \o r.commands
  BY <1>1
<1>4. IsRecord(Prepend(x, r))
  BY <1>1 DEF IsRecord
<1>5. PICK c \in Seq(S) : c = r.commands
  OBVIOUS
<1>6. <<x>> \o c \in Seq(S) /\ Len(<<x>> \o c) = 1 + Len(c)
  OBVIOUS
<1> QED BY <1>2, <1>3, <1>4, <1>5, <1>6 DEF Accepts

LEMMA HeadsFinite ==
    ASSUME NEW line, Len(line) \in Nat, DOMAIN line = 1 .. Len(line), NEW pos
    PROVE IsFiniteSet(HeadsFrom(line, pos))
<1>1. HeadsFrom(line, pos) \subseteq 1 .. Len(line)
  BY DEF HeadsFrom, Heads
<1>2. IsFiniteSet(1 .. Len(line))
  BY FS_Interval
<1> QED BY <1>1, <1>2, FS_Subset

(* The reading from every place where a command should start. *)
LEMMA ReadsOn ==
    ASSUME NEW line \in Seq(Tokens), line # <<>>, FewArguments(line),
           NEW f, IsReading(f, line),
           NEW pos \in 1 .. Len(line) + 1, StartsAt(line, pos),
           \A next \in pos + 1 .. Len(line) + 1 :
              StartsAt(line, next) => Follows(line, next, f[next])
    PROVE Follows(line, pos, f[pos])
<1>0. PICK L \in Nat : L = Len(line) /\ DOMAIN line = 1 .. L /\ L > 0
  OBVIOUS
<1>1. \A p \in 1 .. L + 1 : f[p] = ReadOf(f, line, p)
  BY <1>0 DEF IsReading
<1>2. CASE pos > L
  <2>1. pos = L + 1 /\ pos # 1
    BY <1>0, <1>2
  <2>2. IsPipe(line, L)
    BY <2>1 DEF StartsAt
  <2>3. AtEnd(line, pos) = "BUFFERING"
    BY <2>1, <2>2 DEF AtEnd, IsPipe
  <2>4. f[pos] = ReadsNothing("BUFFERING")
    BY <1>0, <1>1, <1>2, <2>3 DEF ReadOf
  <2>5. ~ WellFrom(line, pos)
    BY <1>0, <2>2 DEF WellFrom
  <2> QED BY <2>4, <2>5, NothingFollows
<1>3. CASE pos <= L /\ IsUnknown(line, pos)
  <2>1. f[pos] = ReadsNothing("NOCOMMANDERR")
    BY <1>0, <1>1, <1>3 DEF ReadOf
  <2>2. pos \in HeadsFrom(line, pos)
    BY <1>0, <1>3, HeadsAre DEF HeadsFrom
  <2>3. ~ Names(line[pos])
    <3>1. line[pos] \in Tokens
      BY <1>0, <1>3
    <3> QED BY <3>1, <1>3, FindIs DEF IsUnknown
  <2>4. ~ WellFrom(line, pos)
    BY <2>2, <2>3 DEF WellFrom
  <2> QED BY <2>1, <2>4, NothingFollows
<1>4. CASE pos <= L /\ ~ IsUnknown(line, pos)
  <2>0. pos \in 1 .. Len(line)
    BY <1>0, <1>4
  <2>1. PICK e \in pos + 1 .. L + 1 : e = find_arguments(line, pos) /\ IsCommand(line, pos, e)
    BY <1>0, <1>4, <2>0, CommandIs DEF IsCommand
  <2>2. f[pos] = ReadCommand(f, line, pos, e)
    BY <1>0, <1>1, <1>4, <2>1 DEF ReadOf
  <2>3. PICK x \in FoundIn(line) : x = find_shell_command(line[pos])
    BY <1>0, <2>0 DEF FoundIn
  <2>4. HeadsFrom(line, pos) = {pos} \cup HeadsFrom(line, e + 1)
    BY <2>0, <2>1, HeadsAfter
  <2>5. WellFrom(line, pos) <=>
            /\ \A i \in HeadsFrom(line, e + 1) : Names(line[i])
            /\ ~ IsPipe(line, L)
            /\ \A i \in e .. L : IsAmp(line, i) => i = L
    BY <1>0, <1>4, <2>0, <2>1, WellAfter
  <2>6. L < e + 1 => HeadsFrom(line, e + 1) = {}
    BY <1>0 DEF HeadsFrom, Heads
  <2>7. Cardinality({pos}) = 1
    BY FS_Singleton
  <2>8. CASE e = L + 1
    <3>a. StopKind(line, e) = ""
      <4>1. e > Len(line)
        BY <1>0, <2>8
      <4> QED BY <4>1, Zenon DEF StopKind
    <3>b. StopKind(line, e) # "pipe" /\ StopKind(line, e) # "amp"
      BY <3>a
    <3>c. NextCommand(line, e) = e
      BY <3>b, Zenon DEF NextCommand
    <3>1. StopKind(line, e) # "amp" /\ NextCommand(line, e) = L + 1
      BY <3>b, <3>c, <2>8
    <3>2. f[pos] = Prepend(x, f[L + 1])
      BY <2>2, <2>3, <3>1 DEF ReadCommand, Prepend
    <3>3. ~ IsPipe(line, L) /\ L + 1 # 1
      BY <1>0, <2>0, <2>1, <2>8 DEF IsCommand
    <3>4. AtEnd(line, L + 1) = "OK"
      BY <1>0, <3>3 DEF AtEnd, IsPipe
    <3>5. f[L + 1] = ReadsNothing("OK")
      BY <1>0, <1>1, <3>4 DEF ReadOf
    <3>6. IsRecord(f[L + 1]) /\ Accepts(f[L + 1]) /\ f[L + 1].commands = <<>>
      BY <3>5 DEF ReadsNothing, IsRecord, Accepts
    <3>7. f[L + 1].commands \in Seq(FoundIn(line)) /\ Len(f[L + 1].commands) = 0
      BY <3>6
    <3>8. /\ IsRecord(f[pos]) /\ Accepts(f[pos])
          /\ f[pos].commands \in Seq(FoundIn(line)) /\ Len(f[pos].commands) = 1
      <4> DEFINE r == f[L + 1]
      <4>1. IsRecord(r) /\ Accepts(r) /\ r.commands \in Seq(FoundIn(line)) /\ Len(r.commands) = 0
        BY <3>6, <3>7
      <4>2. f[pos] = Prepend(x, r)
        BY <3>2
      <4> HIDE DEF r
      <4>3. /\ IsRecord(Prepend(x, r)) /\ Accepts(Prepend(x, r))
            /\ Prepend(x, r).commands \in Seq(FoundIn(line))
            /\ Len(Prepend(x, r).commands) = 1 + Len(r.commands)
        BY <4>1, PrependIs
      <4> QED BY <4>1, <4>2, <4>3
    <3>9. WellFrom(line, pos) /\ HeadsFrom(line, pos) = {pos}
      BY <2>4, <2>5, <2>6, <2>8, <3>3
    <3> QED BY <3>8, <3>9, <2>7 DEF Follows
  <2>9. CASE e <= L /\ IsAmp(line, e)
    <3>1. StopKind(line, e) = "amp"
      BY <1>0, <2>9 DEF StopKind, IsAmp
    <3>2. f[pos] = [status |-> IF e = L THEN "OK" ELSE "SYNTAXERR",
                    commands |-> <<x>>, mode |-> "BACKGROUND"]
      BY <1>0, <2>2, <2>3, <3>1 DEF ReadCommand
    <3>3. Accepts(f[pos]) <=> e = L
      BY <3>2 DEF Accepts
    <3>4. f[pos].commands = <<x>> /\ IsRecord(f[pos])
      BY <3>2 DEF IsRecord
    <3>5. f[pos].commands \in Seq(FoundIn(line)) /\ Len(f[pos].commands) = 1
      BY <3>4
    <3>6. e = L => WellFrom(line, pos) /\ HeadsFrom(line, pos) = {pos}
      <4> SUFFICES ASSUME e = L PROVE WellFrom(line, pos) /\ HeadsFrom(line, pos) = {pos}
        OBVIOUS
      <4>1. ~ IsPipe(line, L)
        BY <2>9 DEF IsPipe, IsAmp
      <4>2. HeadsFrom(line, e + 1) = {}
        BY <2>6
      <4> QED BY <2>4, <2>5, <4>1, <4>2
    <3>7. e # L => ~ WellFrom(line, pos)
      BY <2>5, <2>9
    <3> QED BY <3>3, <3>4, <3>5, <3>6, <3>7, <2>7 DEF Follows
  <2>10. CASE e <= L /\ IsPipe(line, e)
    <3>1. StopKind(line, e) = "pipe" /\ NextCommand(line, e) = e + 1
      BY <1>0, <2>10 DEF StopKind, NextCommand, IsPipe
    <3>2. f[pos] = Prepend(x, f[e + 1])
      BY <2>2, <2>3, <3>1 DEF ReadCommand, Prepend
    <3>3. e + 1 \in pos + 1 .. Len(line) + 1 /\ StartsAt(line, e + 1)
      BY <1>0, <2>10 DEF StartsAt
    <3>4. Follows(line, e + 1, f[e + 1])
      BY <3>3
    <3>5. /\ IsRecord(f[pos]) /\ f[pos].commands \in Seq(FoundIn(line))
          /\ Accepts(f[pos]) <=> Accepts(f[e + 1])
          /\ Len(f[pos].commands) = 1 + Len(f[e + 1].commands)
      BY <3>2, <3>4, PrependIs DEF Follows
    <3>6. ~ IsAmp(line, e)
      BY <2>10 DEF IsPipe, IsAmp
    <3>7. WellFrom(line, pos) <=> WellFrom(line, e + 1)
      <4>1. (\A i \in e .. L : IsAmp(line, i) => i = L)
            <=> (\A i \in e + 1 .. L : IsAmp(line, i) => i = L)
        BY <3>6
      <4> QED BY <1>0, <2>5, <4>1 DEF WellFrom
    <3>8. Cardinality(HeadsFrom(line, pos)) = 1 + Cardinality(HeadsFrom(line, e + 1))
      <4>1. IsFiniteSet(HeadsFrom(line, e + 1)) /\ pos \notin HeadsFrom(line, e + 1)
        <5>1. IsFiniteSet(HeadsFrom(line, e + 1))
          BY <1>0, HeadsFinite
        <5>2. pos \notin HeadsFrom(line, e + 1)
          BY <2>1 DEF HeadsFrom
        <5> QED BY <5>1, <5>2
      <4>2. Cardinality(HeadsFrom(line, e + 1) \cup {pos})
              = Cardinality(HeadsFrom(line, e + 1)) + 1
        BY <4>1, FS_AddElement
      <4>3. Cardinality(HeadsFrom(line, e + 1)) \in Nat
        BY <4>1, FS_CardinalityType
      <4>4. HeadsFrom(line, e + 1) \cup {pos} = HeadsFrom(line, pos)
        BY <2>4
      <4>5. PICK n \in Nat : n = Cardinality(HeadsFrom(line, e + 1))
        BY <4>3
      <4>6. Cardinality(HeadsFrom(line, pos)) = n + 1
        BY <4>2, <4>4, <4>5
      <4>7. n + 1 = 1 + n
        OBVIOUS
      <4> QED BY <4>5, <4>6, <4>7, Zenon
    <3> QED BY <3>4, <3>5, <3>7, <3>8 DEF Follows
  <2> QED BY <1>0, <2>1, <2>8, <2>9, <2>10 DEF IsCommand
<1> QED BY <1>0, <1>2, <1>3, <1>4

LEMMA ReadsAll ==
    ASSUME NEW line \in Seq(Tokens), line # <<>>, FewArguments(line), NEW f, IsReading(f, line)
    PROVE Follows(line, 1, f[1])
<1>0. PICK L \in Nat : L = Len(line)
  OBVIOUS
<1> DEFINE T == {n \in Nat : \E pos \in 1 .. L + 1 :
                    n = L + 1 - pos /\ StartsAt(line, pos) /\ ~ Follows(line, pos, f[pos])}
<1>1. ASSUME T # {} PROVE FALSE
  <2>1. PICK n \in T : \A e \in T : n <= e
    BY <1>1, LeastElement
  <2>2. PICK pos \in 1 .. L + 1 :
           n = L + 1 - pos /\ StartsAt(line, pos) /\ ~ Follows(line, pos, f[pos])
    OBVIOUS
  <2>3. ASSUME NEW next \in pos + 1 .. L + 1, StartsAt(line, next)
        PROVE Follows(line, next, f[next])
    <3> SUFFICES ASSUME ~ Follows(line, next, f[next]) PROVE FALSE
      OBVIOUS
    <3>1. next \in 1 .. L + 1 /\ L + 1 - next \in Nat
      OBVIOUS
    <3>2. L + 1 - next \in T
      BY <3>1, <2>3
    <3>3. n <= L + 1 - next
      BY <3>2, <2>1
    <3> QED BY <3>3, <2>2
  <2>4. Follows(line, pos, f[pos])
    BY <1>0, <2>2, <2>3, ReadsOn
  <2> QED BY <2>2, <2>4
<1>2. ASSUME ~ Follows(line, 1, f[1]) PROVE FALSE
  <2>1. StartsAt(line, 1) /\ 1 \in 1 .. L + 1 /\ L \in Nat /\ L = L + 1 - 1
    BY DEF StartsAt
  <2>2. L \in T
    BY <2>1, <1>2
  <2> QED BY <2>2, <1>1
<1> QED BY <1>2

LEMMA ParserFollows ==
    ASSUME NEW line \in Seq(Tokens), line # <<>>, FewArguments(line)
    PROVE /\ (parser(line).status = "OK") = IsCommandLine(line)
          /\ parser(line).status = "OK" => Len(parser(line).commands) = Cardinality(Heads(line))
<1>0. PICK L \in Nat : L = Len(line) /\ DOMAIN line = 1 .. L /\ L > 0
  OBVIOUS
<1>1. PICK f : IsReading(f, line) /\ parser(line) = f[1]
  BY <1>0, ParserIs
<1>2. Follows(line, 1, parser(line))
  BY <1>1, ReadsAll
<1>3. HeadsFrom(line, 1) = Heads(line)
  BY <1>0 DEF HeadsFrom, Heads
<1>4. WellFrom(line, 1) <=> IsCommandLine(line)
  <2>1. (\A i \in HeadsFrom(line, 1) : Names(line[i]))
        <=> \A i \in Heads(line) :
              line[i].kind = "dot"
              \/ \E k \in DOMAIN command_list : command_list[k].begins = line[i].begins
    BY <1>3 DEF Names
  <2>2. (~ IsPipe(line, Len(line))) <=> (Len(line) > 0 => line[Len(line)].kind # "pipe")
    BY <1>0 DEF IsPipe
  <2>3. (\A i \in 1 .. Len(line) : IsAmp(line, i) => i = Len(line))
        <=> \A i \in DOMAIN line : line[i].kind = "amp" => i = Len(line)
    BY <1>0 DEF IsAmp
  <2>4. IsCommandLine(line) <=>
          /\ \A i \in Heads(line) :
                line[i].kind = "dot"
                \/ \E k \in DOMAIN command_list : command_list[k].begins = line[i].begins
          /\ Len(line) > 0 => line[Len(line)].kind # "pipe"
          /\ \A i \in DOMAIN line : line[i].kind = "amp" => i = Len(line)
    BY Zenon DEF IsCommandLine
  <2> QED BY <2>1, <2>2, <2>3, <2>4 DEF WellFrom
<1>5. IsCommandLine(line) \in BOOLEAN
  BY DEF IsCommandLine
<1>6. (parser(line).status = "OK") <=> IsCommandLine(line)
  BY <1>2, <1>4 DEF Follows, Accepts
<1>7. parser(line).status = "OK" => Len(parser(line).commands) = Cardinality(Heads(line))
  BY <1>2, <1>3 DEF Follows, Accepts
<1> QED BY <1>5, <1>6, <1>7

(***************************************************************************)
(* parser() accepts a line with few arguments exactly if it is a command   *)
(* line, with one command for every part between pipes, and the binary     *)
(* search in command_list finds every name of it.                          *)
(***************************************************************************)
THEOREM ParserAlwaysFollows == Spec => []ParserFollowsGrammar
<1>1. FindsEveryCommand
  <2>1. \A k \in DOMAIN command_list : find_shell_command(command_list[k]) = command_list[k].begins
    BY CommandsAre, FindsCommand
  <2> QED BY <2>1 DEF FindsEveryCommand
<1>2. ASSUME NEW line \in LongLines \ {<<>>}, FewArguments(line)
      PROVE /\ (parser(line).status = "OK") = IsCommandLine(line)
            /\ parser(line).status = "OK" => Len(parser(line).commands) = Cardinality(Heads(line))
  <2>1. line \in Seq(Tokens) /\ line # <<>>
    BY LongLinesAssumption
  <2> QED BY <2>1, <1>2, ParserFollows
<1>3. ParserFollowsGrammar
  BY <1>1, <1>2, Zenon DEF ParserFollowsGrammar
<1> QED BY <1>3, PTL

=============================================================================
