----------------------------- MODULE ConnQueue -----------------------------
(***************************************************************************)
(* What sbuf promises: a bounded first-in first-out queue between the      *)
(* thread that accepts connections and the workers.  A connection is put   *)
(* and taken as a whole (descriptor and peer address together), in the     *)
(* order of acceptance, and is held by one worker at a time.               *)
(***************************************************************************)
EXTENDS Naturals, Sequences

CONSTANTS Workers, Capacity, Fds, NoFd

VARIABLES
    queue,    \* the connections that wait, oldest first
    last,     \* the number of the connection put last
    holding   \* holding[w]: the connection worker w has taken

Nothing == [connfd |-> NoFd, clientaddr |-> 0]

Init ==
    /\ queue = <<>>
    /\ last = 0
    /\ holding = [w \in Workers |-> Nothing]

Put(fd) ==
    /\ Len(queue) < Capacity
    /\ last' = last + 1
    /\ queue' = Append(queue, [connfd |-> fd, clientaddr |-> last + 1])
    /\ UNCHANGED holding

Take(w) ==
    /\ queue # <<>>
    /\ holding[w] = Nothing
    /\ holding' = [holding EXCEPT ![w] = Head(queue)]
    /\ queue' = Tail(queue)
    /\ UNCHANGED last

Finish(w) ==
    /\ holding[w] # Nothing
    /\ holding' = [holding EXCEPT ![w] = Nothing]
    /\ UNCHANGED <<queue, last>>

Next ==
    \/ \E fd \in Fds : Put(fd)
    \/ \E w \in Workers : Take(w) \/ Finish(w)

Spec == Init /\ [][Next]_<<queue, last, holding>>

=============================================================================
