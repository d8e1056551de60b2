------------------------- MODULE EventServer_proof -------------------------
(***************************************************************************)
(* Proofs about the event driven server, for every size of the pool, every *)
(* number of clients and descriptors, every stock tree and every width of  *)
(* int: the pool is consistent, no ready client is skipped, the file is up *)
(* to date when the server waits without a client, and nothing is oversold.*)
(***************************************************************************)
EXTENDS EventServer, FiniteSetTheorems, TLAPS

(* The arithmetic of modify(): what the build computes for an int is an int. *)
LEMMA WrapInt32 == \A x \in Int : Wrap(x) \in Int32
<1> SUFFICES ASSUME NEW x \in Int PROVE Wrap(x) \in Int32
  OBVIOUS
<1> DEFINE b == 2 * (IntMax + 1)
           r == (x + IntMax + 1) % b
<1>1. b \in Nat \ {0} /\ IntMax \in Nat /\ b = 2 * (IntMax + 1)
  BY StockCommandsAssumption
<1>2. Wrap(x) = r - (IntMax + 1)
  BY DEF Wrap
<1>3. r \in 0 .. b - 1
  <2> HIDE DEF b
  <2> QED BY <1>1
<1> HIDE DEF b, r
<1> QED BY <1>1, <1>2, <1>3 DEF Int32

(* What fits is not changed. *)
LEMMA WrapFits == \A x \in Int32 : Wrap(x) = x
<1> SUFFICES ASSUME NEW x \in Int32 PROVE Wrap(x) = x
  OBVIOUS
<1> DEFINE b == 2 * (IntMax + 1)
           y == x + IntMax + 1
<1>1. /\ b \in Nat \ {0} /\ y \in Int /\ 0 <= y /\ y < b
      /\ x \in Int /\ IntMax \in Nat /\ y = x + IntMax + 1
  BY StockCommandsAssumption DEF Int32
<1>2. Wrap(x) = (y % b) - (IntMax + 1)
  BY DEF Wrap
<1>3. y % b = y
  <2> HIDE DEF b, y
  <2> QED BY <1>1
<1> HIDE DEF b, y
<1> QED BY <1>1, <1>2, <1>3

(* What a sell or a buy makes of a number. *)
LEMMA MovedInt32 ==
    ASSUME NEW k \in Int32, NEW c \in Lines PROVE Moved(k, c) \in Int32
<1>1. Amounts \subseteq Int32 /\ Int32 \subseteq Int
  BY StockCommandsAssumption DEF Int32
<1>2. c.n \in Int /\ k \in Int
  <2>1. \A op : NoArgs(op).n = 0
    BY DEF NoArgs
  <2>2. CASE c \in IntInt
    <3>1. c.n \in Amounts
      BY <2>2 DEF IntInt
    <3> QED BY <1>1, <3>1
  <2>3. CASE c \notin IntInt
    <3>1. \E op : c = NoArgs(op)
      BY <2>3 DEF Lines, Commands, Show
    <3>2. c.n = 0
      BY <2>1, <3>1
    <3> QED BY <1>1, <3>2
  <2> QED BY <2>2, <2>3
<1>3. Delta(c) \in Int
  <2>1. -c.n \in Int
    BY <1>2
  <2>2. Wrap(-c.n) \in Int
    BY <1>1, <2>1, WrapInt32
  <2> QED BY <1>2, <2>2 DEF Delta
<1> QED BY <1>2, <1>3, WrapInt32 DEF Moved

(***************************************************************************)
(* The inductive invariant.  nready counts the ready descriptors that the  *)
(* scan has not come to yet; while main() is about to accept these are all *)
(* that select() reported.  Otherwise select() has failed.                 *)
(***************************************************************************)
Pending == {fd \in ready_set \cap Fds : \E i \in Slots : i >= idx /\ clientfd[i] = fd}

Reported ==
    /\ at = "accept" =>
        \/ ready_set \subseteq open \cup {ListenFd} /\ nready = Cardinality(ready_set)
        \/ refused /\ ListenFd \in ready_set /\ nready = -1
    /\ at = "scan" => nready = Cardinality(Pending) \/ (refused /\ nready = -2)

(* PoolConsistent but for its types. *)
SlotsBounded == \A i \in Used : i <= maxi /\ clientfd[i] <= maxfd
SlotsDiffer == \A i, j \in Used : clientfd[i] = clientfd[j] => i = j
SlotsOpen == open = {clientfd[i] : i \in Used}
Watched ==
    /\ open \cup {ListenFd} \subseteq read_set
    /\ read_set \subseteq open \cup {ListenFd} \cup {fd \in {StrayFd} : refused}
NCounts == ~ refused => n = Cardinality(Used)

PoolInv == SlotsBounded /\ SlotsDiffer /\ SlotsOpen /\ Watched /\ NCounts

EventInv ==
    /\ TypeOK /\ PoolInv /\ Reported
    /\ NoReadyClientSkipped /\ IdlePersisted /\ NeverOversold

-----------------------------------------------------------------------------
LEMMA Descriptors ==
    /\ ListenFd \in Nat /\ Fds \subseteq Nat /\ IsFiniteSet(Fds)
    /\ ListenFd \notin Fds /\ NoFd \notin Fds /\ NoFd \in Int /\ NoFd < 0 /\ \A fd \in Fds : fd > 0
    /\ PoolSize \in Nat \ {0} /\ PoolSize <= IntMax /\ IntMax \in Nat /\ MaxClients \in Nat
    /\ Int32 \subseteq Int
    /\ StrayFd \in Nat /\ StrayFd # ListenFd
BY EventServerAssumption, StockCommandsAssumption DEF NoFd, Int32, StrayFd, FdBit

(* FD_SET of a descriptor, and of the -1 of a failed accept(). *)
LEMMA FdBits == FdBit(NoFd) = StrayFd /\ \A fd \in Fds : FdBit(fd) = fd
<1>1. \A fd \in Fds : fd \in Nat
  BY EventServerAssumption
<1> QED BY <1>1 DEF FdBit, StrayFd

LEMMA NegativeIsNoFd == \A fd \in Fds : fd \in Int /\ ~ (fd < 0)
<1> SUFFICES ASSUME NEW fd \in Fds PROVE fd \in Int /\ ~ (fd < 0)
  OBVIOUS
<1>1. fd \in Nat
  BY Descriptors
<1> QED BY <1>1

LEMMA SlotsFinite ==
    /\ IsFiniteSet(Slots)
    /\ \A S : S \subseteq Slots =>
        IsFiniteSet(S) /\ Cardinality(S) \in Nat /\ Cardinality(S) <= PoolSize
<1>1. PoolSize \in Nat \ {0}
  BY Descriptors
<1>2. 0 \in Int /\ PoolSize - 1 \in Int
  BY <1>1
<1>3. IsFiniteSet(Slots) /\ Cardinality(Slots) = PoolSize
  BY <1>1, <1>2, FS_Interval DEF Slots
<1> QED BY <1>3, FS_Subset, FS_CardinalityType

LEMMA FdSetsFinite ==
    ASSUME NEW S, S \subseteq Fds \cup {ListenFd, StrayFd}
    PROVE  IsFiniteSet(S) /\ Cardinality(S) \in Nat
<1>1. IsFiniteSet(Fds \cup {ListenFd})
  BY Descriptors, FS_AddElement
<1>2. IsFiniteSet((Fds \cup {ListenFd}) \cup {StrayFd})
  BY <1>1, FS_AddElement
<1>3. S \subseteq (Fds \cup {ListenFd}) \cup {StrayFd}
  OBVIOUS
<1> QED BY <1>2, <1>3, FS_Subset, FS_CardinalityType

(* The slot that write_pool() looks at, when it is ready. *)
LEMMA ScannedSlot ==
    ASSUME TypeOK, Scanning
    PROVE  /\ idx \in Slots
           /\ Ready(idx) <=> clientfd[idx] \in ready_set \cap Fds
           /\ Ready(idx) => idx \in Used
<1>1. idx \in Slots
  BY Descriptors DEF TypeOK, Scanning, MoreClients, Slots
<1>2. clientfd[idx] \in Fds \cup {NoFd}
  BY <1>1 DEF TypeOK
<1>3. clientfd[idx] > 0 <=> clientfd[idx] \in Fds
  <2>1. CASE clientfd[idx] \in Fds
    BY <2>1, Descriptors
  <2>2. CASE clientfd[idx] = NoFd
    <3>1. ~ (NoFd > 0) /\ NoFd \notin Fds
      BY Descriptors
    <3> QED BY <2>2, <3>1
  <2> QED BY <1>2, <2>1, <2>2
<1>4. clientfd[idx] \in Fds => clientfd[idx] # NoFd
  BY Descriptors
<1> QED BY <1>1, <1>3, <1>4 DEF Ready, Used

(* The scan goes on to the next slot. *)
LEMMA PendingStep ==
    ASSUME TypeOK, PoolInv, Scanning, idx' = idx + 1, ready_set' = ready_set,
           \A j \in Slots : j # idx => clientfd'[j] = clientfd[j]
    PROVE  /\ Ready(idx) => /\ clientfd[idx] \in Pending
                            /\ Pending' = Pending \ {clientfd[idx]}
           /\ ~ Ready(idx) => Pending' = Pending
<1>1. idx \in Slots /\ (Ready(idx) <=> clientfd[idx] \in ready_set \cap Fds)
  BY ScannedSlot
<1>2. idx \in Nat /\ \A j \in Slots : j \in Nat
  BY DEF TypeOK, Slots
<1>3. ASSUME NEW fd \in ready_set \cap Fds, NEW j \in Slots, clientfd[j] = fd, j >= idx, j # idx
      PROVE  j >= idx' /\ clientfd'[j] = fd
  BY <1>2, <1>3
<1>4. ASSUME NEW fd \in ready_set \cap Fds, NEW j \in Slots, clientfd'[j] = fd, j >= idx'
      PROVE  j >= idx /\ j # idx /\ clientfd[j] = fd
  <2>1. j >= idx /\ j # idx
    BY <1>2, <1>4
  <2> QED BY <1>4, <2>1
<1>5. \A i, j \in Slots : clientfd[i] \in Fds /\ clientfd[i] = clientfd[j] => i = j
  BY Descriptors DEF PoolInv, SlotsDiffer, Used
<1>6. ASSUME Ready(idx)
      PROVE  clientfd[idx] \in Pending /\ Pending' = Pending \ {clientfd[idx]}
  <2>1. clientfd[idx] \in Pending
    BY <1>1, <1>2, <1>6 DEF Pending
  <2>2. Pending' \subseteq Pending \ {clientfd[idx]}
    BY <1>1, <1>4, <1>5, <1>6 DEF Pending
  <2>3. Pending \ {clientfd[idx]} \subseteq Pending'
    BY <1>3 DEF Pending
  <2> QED BY <2>1, <2>2, <2>3
<1>7. ASSUME ~ Ready(idx) PROVE Pending' = Pending
  <2>1. Pending' \subseteq Pending
    BY <1>4 DEF Pending
  <2>2. Pending \subseteq Pending'
    BY <1>1, <1>3, <1>7 DEF Pending
  <2> QED BY <2>1, <2>2
<1> QED BY <1>6, <1>7

(* Every ready client is still to come when the scan starts. *)
LEMMA PendingAll ==
    ASSUME TypeOK', SlotsOpen', idx' = 0, ready_set' \subseteq open' \cup {ListenFd}
    PROVE  Pending' = ready_set' \ {ListenFd}
<1>1. \A i \in Slots : i >= 0
  BY DEF Slots
<1>2. \A fd \in open' : \E i \in Slots : clientfd'[i] = fd
  BY DEF SlotsOpen, Used
<1>3. ready_set' \cap Fds = ready_set' \ {ListenFd}
  BY Descriptors DEF TypeOK
<1> QED BY <1>1, <1>2, <1>3 DEF Pending

LEMMA PendingNat == IsFiniteSet(Pending) /\ Cardinality(Pending) \in Nat
<1>1. Pending \subseteq Fds \cup {ListenFd, StrayFd}
  BY DEF Pending
<1> QED BY <1>1, FdSetsFinite

-----------------------------------------------------------------------------
LEMMA EventInit == Init => EventInv
<1> SUFFICES ASSUME Init PROVE EventInv
  OBVIOUS
<1>1. TypeOK
  <2>1. PoolSize \in Nat \ {0} /\ IntMax \in Nat /\ MaxClients \in Nat
    BY Descriptors
  <2>2. n \in Int32 /\ maxi \in -1 .. PoolSize - 1 /\ backlog \in 0 .. MaxClients
    BY <2>1 DEF Init, Int32
  <2>3. file \in [Ids -> Counts] /\ count = file
    BY DEF Init
  <2>4. clientfd \in [Slots -> Fds \cup {NoFd}] /\ inbox \in [Fds -> {"none", "line", "partial", "eof"}]
    BY DEF Init
  <2>5. at = "select" /\ idx = 0 /\ read_set = {ListenFd} /\ ready_set = {} /\ nready = 0
        /\ maxfd = ListenFd /\ open = {}
    BY DEF Init
  <2>6. up \in BOOLEAN /\ refused \in BOOLEAN
    BY DEF Init
  <2> QED BY <2>2, <2>3, <2>4, <2>5, <2>6 DEF TypeOK
<1>2. Used = {} /\ open = {}
  BY DEF Init, Used
<1>3. NCounts
  BY <1>2, FS_EmptySet DEF Init, NCounts
<1>4. PoolInv
  BY <1>2, <1>3 DEF Init, PoolInv, SlotsBounded, SlotsDiffer, SlotsOpen, Watched
<1>5. Reported /\ NoReadyClientSkipped /\ IdlePersisted /\ NeverOversold
  BY DEF Init, Reported, NoReadyClientSkipped, IdlePersisted, NeverOversold
<1> QED BY <1>1, <1>4, <1>5 DEF EventInv

(* The clients: the pool does not change, and what select saw stays true. *)
LEMMA ClientsInv ==
    ASSUME EventInv, Connect \/ \E fd \in Fds : Arrive(fd)
    PROVE  EventInv'
<1>0. TypeOK /\ PoolInv /\ Reported
  BY DEF EventInv
<1>1. UNCHANGED <<at, idx, pool, count, file, up, open, refused>>
  BY DEF Connect, Arrive
<1>2. UNCHANGED <<Used, Pending>>
  BY <1>1 DEF Used, Pending, pool
<1>3. backlog' \in 0 .. MaxClients /\ backlog' >= backlog
  <2>1. backlog \in 0 .. MaxClients /\ Cardinality(open) \in Nat
    BY <1>0, FdSetsFinite DEF TypeOK
  <2> QED BY <2>1, Descriptors DEF Connect, Arrive
<1>4. inbox' \in [Fds -> {"none", "line", "partial", "eof"}]
  BY <1>0, EventServerAssumption DEF TypeOK, Connect, Arrive
<1>5. TypeOK'
  BY <1>0, <1>1, <1>3, <1>4 DEF TypeOK, pool
<1>6. PoolInv'
  BY <1>0, <1>1, <1>2 DEF PoolInv, SlotsBounded, SlotsDiffer, SlotsOpen, Watched, NCounts, pool
<1>7. Reported'
  <2>1. backlog \in Nat /\ backlog' \in Nat
    BY <1>0, <1>3 DEF TypeOK
  <2> QED BY <1>0, <1>1, <1>2, <1>3, <2>1 DEF Reported, pool
<1>8. NoReadyClientSkipped' /\ IdlePersisted' /\ NeverOversold'
  BY <1>1 DEF EventInv, NoReadyClientSkipped, IdlePersisted, NeverOversold, pool
<1> QED BY <1>5, <1>6, <1>7, <1>8 DEF EventInv

LEMMA SelectInv == EventInv /\ Select => EventInv'
<1> SUFFICES ASSUME EventInv, Select PROVE EventInv'
  OBVIOUS
<1>0. TypeOK /\ PoolInv
  BY DEF EventInv
<1> DEFINE R == {fd \in read_set : fd <= maxfd /\ IsReady(fd)}
<1>1. ready_set' = R /\ nready' = Cardinality(R) /\ at' = "accept"
  BY DEF Select
<1>2. UNCHANGED <<idx, read_set, n, maxi, maxfd, clientfd, count, file, up, backlog, inbox,
                  open, refused>>
  BY DEF Select, kernel
<1>3. R \subseteq Fds \cup {ListenFd, StrayFd} /\ Cardinality(R) \in Nat
  <2>1. R \subseteq Fds \cup {ListenFd, StrayFd}
    BY <1>0 DEF TypeOK
  <2> QED BY <2>1, FdSetsFinite
<1>4. TypeOK'
  BY <1>0, <1>1, <1>2, <1>3 DEF TypeOK
<1>5. PoolInv'
  BY <1>0, <1>2 DEF PoolInv, SlotsBounded, SlotsDiffer, SlotsOpen, Watched, NCounts, Used
<1>6. Reported'
  <2>1. R \subseteq open \cup {ListenFd}
    BY DEF Select, BadSet
  <2> QED BY <1>1, <1>2, <2>1 DEF Reported
<1>7. NoReadyClientSkipped' /\ IdlePersisted' /\ NeverOversold'
  BY <1>1, <1>2 DEF EventInv, NoReadyClientSkipped, IdlePersisted, NeverOversold
<1> QED BY <1>4, <1>5, <1>6, <1>7 DEF EventInv

(* Only the bit of a failed accept() makes select() fail. *)
LEMMA SelectFailsInv == EventInv /\ SelectFails => EventInv'
<1> SUFFICES ASSUME EventInv, SelectFails PROVE EventInv'
  OBVIOUS
<1>0. TypeOK /\ PoolInv
  BY DEF EventInv
<1>1. /\ at' = "accept" /\ ready_set' = read_set /\ nready' = -1 /\ BadSet
      /\ UNCHANGED <<idx, read_set, n, maxi, maxfd, clientfd, count, file, up, backlog, inbox,
                      open, refused>>
  BY DEF SelectFails, kernel
<1>2. TypeOK'
  BY <1>0, <1>1 DEF TypeOK
<1>3. PoolInv'
  BY <1>0, <1>1 DEF PoolInv, SlotsBounded, SlotsDiffer, SlotsOpen, Watched, NCounts, Used
<1>4. Reported'
  <2>1. refused /\ ListenFd \in read_set
    BY <1>0, <1>1 DEF BadSet, PoolInv, Watched
  <2> QED BY <1>1, <2>1 DEF Reported
<1>5. NoReadyClientSkipped' /\ IdlePersisted' /\ NeverOversold'
  BY <1>1 DEF EventInv, NoReadyClientSkipped, IdlePersisted, NeverOversold
<1> QED BY <1>2, <1>3, <1>4, <1>5 DEF EventInv

LEMMA NotListeningInv == EventInv /\ NotListening => EventInv'
<1> SUFFICES ASSUME EventInv, NotListening PROVE EventInv'
  OBVIOUS
<1>0. TypeOK /\ PoolInv /\ Reported
  BY DEF EventInv
<1>1. at = "accept" /\ ListenFd \notin ready_set /\ at' = "scan" /\ idx' = 0
  BY DEF NotListening
<1>2. UNCHANGED <<read_set, ready_set, nready, n, maxi, maxfd, clientfd, count, file, up,
                  backlog, inbox, open, refused>>
  BY DEF NotListening, kernel, pool
<1>3. TypeOK'
  BY <1>0, <1>1, <1>2 DEF TypeOK
<1>4. PoolInv'
  BY <1>0, <1>2 DEF PoolInv, SlotsBounded, SlotsDiffer, SlotsOpen, Watched, NCounts, Used
<1>5. Reported'
  <2>1. ready_set' \subseteq open' \cup {ListenFd} /\ nready = Cardinality(ready_set)
    BY <1>0, <1>1, <1>2 DEF Reported
  <2>2. Pending' = ready_set' \ {ListenFd}
    BY <1>1, <1>3, <1>4, <2>1, PendingAll DEF PoolInv
  <2>3. Pending' = ready_set
    BY <1>1, <1>2, <2>2
  <2> QED BY <1>1, <1>2, <2>1, <2>3 DEF Reported
<1>6. NoReadyClientSkipped' /\ IdlePersisted' /\ NeverOversold'
  BY <1>1, <1>2 DEF EventInv, NoReadyClientSkipped, IdlePersisted, NeverOversold
<1> QED BY <1>3, <1>4, <1>5, <1>6 DEF EventInv

-----------------------------------------------------------------------------
(* accept() was called: the scan will find what select reported of clients. *)
LEMMA AcceptedReports ==
    ASSUME TypeOK, PoolInv, Reported, at = "accept", ListenFd \in ready_set,
           ready_set' = ready_set, nready' = nready - 1, at' = "scan", idx' = 0,
           TypeOK', SlotsOpen', open \subseteq open', refused => refused'
    PROVE  Reported'
<1>1. CASE refused /\ nready = -1
  <2>1. nready' = -2 /\ refused'
    BY <1>1
  <2> QED BY <2>1 DEF Reported
<1>2. CASE ready_set \subseteq open \cup {ListenFd} /\ nready = Cardinality(ready_set)
  <2>1. ready_set' \subseteq open' \cup {ListenFd}
    BY <1>2
  <2>2. Pending' = ready_set \ {ListenFd}
    BY <2>1, PendingAll
  <2>3. IsFiniteSet(ready_set) /\ Cardinality(ready_set) \in Nat
    BY FdSetsFinite DEF TypeOK
  <2>4. Cardinality(Pending') = Cardinality(ready_set) - 1
    BY <2>2, <2>3, FS_RemoveElement
  <2> QED BY <1>2, <2>4 DEF Reported
<1> QED BY <1>1, <1>2 DEF Reported

(* One more client, or one less: n as long as it counts the used slots. *)
LEMMA UsedBounds ==
    /\ IsFiniteSet(Used) /\ Cardinality(Used) \in Nat
    /\ Cardinality(Used) <= PoolSize
<1>1. Used \subseteq Slots
  BY DEF Used
<1> QED BY <1>1, SlotsFinite

LEMMA NFits == \A k \in 0 .. PoolSize : Wrap(k) = k
<1>1. 0 .. PoolSize \subseteq Int32
  BY Descriptors DEF Int32
<1> QED BY <1>1, WrapFits

LEMMA AcceptInv == EventInv /\ Accept => EventInv'
<1> SUFFICES ASSUME EventInv, Accept PROVE EventInv'
  OBVIOUS
<1>0. TypeOK /\ PoolInv /\ Reported
  BY DEF EventInv
<1>a. PICK fd \in Fds \ open : AddClient(fd) /\ open' = open \cup {fd}
  BY DEF Accept
<1>1. AddClient(fd) /\ read_set' = read_set \cup {fd} /\ open' = open \cup {fd}
  BY <1>a, FdBits DEF AddClient
<1>2. /\ at = "accept" /\ ListenFd \in ready_set /\ backlog' = backlog - 1 /\ backlog > 0
      /\ UNCHANGED <<ready_set, count, file, up, inbox, refused>>
  BY DEF Accept
<1>3. PICK i \in Slots : /\ clientfd[i] < 0 /\ clientfd' = [clientfd EXCEPT ![i] = fd]
                         /\ maxi' = IF i > maxi THEN i ELSE maxi
  BY <1>1 DEF AddClient
<1>4. /\ nready' = nready - 1 /\ maxfd' = (IF fd > maxfd THEN fd ELSE maxfd)
      /\ n' = Wrap(n + 1) /\ at' = "scan" /\ idx' = 0
  BY <1>1 DEF AddClient
<1>5. clientfd \in [Slots -> Fds \cup {NoFd}] /\ clientfd[i] = NoFd
  <2>1. clientfd \in [Slots -> Fds \cup {NoFd}]
    BY <1>0 DEF TypeOK
  <2>2. clientfd[i] \notin Fds
    BY <1>3, NegativeIsNoFd
  <2> QED BY <2>1, <2>2
<1>6. clientfd'[i] = fd /\ \A j \in Slots : j # i => clientfd'[j] = clientfd[j]
  BY <1>3, <1>5
<1>7. Used' = Used \cup {i} /\ i \notin Used
  BY <1>1, <1>5, <1>6, Descriptors DEF Used
<1>8. \A j \in Used : clientfd'[j] = clientfd[j] /\ clientfd[j] \in open
  BY <1>0, <1>6, <1>7 DEF PoolInv, SlotsOpen, Used
<1>t. /\ maxi \in Int /\ maxfd \in Int /\ n \in Int32 /\ n \in Int /\ nready \in Int
      /\ backlog \in Nat /\ backlog <= MaxClients /\ fd \in Int /\ i \in Int
      /\ \A j \in Slots : j \in Int /\ j >= -1 /\ j <= PoolSize - 1
  BY <1>0, Descriptors DEF TypeOK, Slots
<1>9. TypeOK'
  <2>1. maxi' \in -1 .. PoolSize - 1
    BY <1>0, <1>3, <1>t DEF TypeOK
  <2>2. maxfd' \in Fds \cup {ListenFd}
    BY <1>0, <1>4 DEF TypeOK
  <2>3. n' \in Int32
    BY <1>4, <1>t, WrapInt32
  <2>5. backlog' \in 0 .. MaxClients
    BY <1>2, <1>t, Descriptors
  <2>6. clientfd' \in [Slots -> Fds \cup {NoFd}]
    BY <1>3, <1>5
  <2>7. at' = "scan" /\ idx' \in Nat /\ nready' \in Int
    BY <1>4, <1>t
  <2>8. read_set' \subseteq Fds \cup {ListenFd, StrayFd} /\ open' \subseteq Fds
    BY <1>0, <1>1 DEF TypeOK
  <2>9. up' \in BOOLEAN /\ refused' \in BOOLEAN
    BY <1>0, <1>2 DEF TypeOK
  <2> QED BY <1>0, <1>2, <2>1, <2>2, <2>3, <2>5, <2>6, <2>7, <2>8, <2>9 DEF TypeOK
<1>10. SlotsBounded'
  <2>1. \A j \in Used : j <= maxi /\ clientfd[j] <= maxfd /\ clientfd[j] \in Int
    <3>1. open \subseteq Int
      BY <1>0, NegativeIsNoFd DEF TypeOK
    <3> QED BY <1>0, <1>8, <3>1 DEF PoolInv, SlotsBounded
  <2>2. maxi <= maxi' /\ i <= maxi' /\ maxfd <= maxfd' /\ fd <= maxfd' /\ maxi' \in Int /\ maxfd' \in Int
    BY <1>3, <1>4, <1>t
  <2>3. i <= maxi' /\ clientfd'[i] <= maxfd'
    BY <1>6, <2>2
  <2>4. ASSUME NEW j \in Used PROVE j <= maxi' /\ clientfd'[j] <= maxfd'
    <3>1. j \in Int
      BY <1>t DEF Used
    <3> QED BY <1>8, <1>t, <2>1, <2>2, <3>1
  <2> QED BY <1>7, <2>3, <2>4 DEF SlotsBounded
<1>11. SlotsDiffer'
  BY <1>0, <1>1, <1>6, <1>7, <1>8 DEF PoolInv, SlotsDiffer
<1>12. SlotsOpen' /\ Watched'
  <2>1. SlotsOpen'
    BY <1>0, <1>1, <1>6, <1>7, <1>8 DEF PoolInv, SlotsOpen
  <2>2. Watched'
    BY <1>0, <1>1, <1>2 DEF PoolInv, Watched
  <2> QED BY <2>1, <2>2
<1>13. NCounts'
  <2>1. Cardinality(Used') = Cardinality(Used) + 1 /\ Cardinality(Used) \in Nat
    BY <1>7, UsedBounds, FS_AddElement
  <2>2. Used' \subseteq Slots
    BY DEF Used
  <2>3. Cardinality(Used') <= PoolSize
    BY <2>2, SlotsFinite
  <2>4. Cardinality(Used') \in 0 .. PoolSize
    BY <2>1, <2>3, Descriptors
  <2>5. ~ refused => n' = Cardinality(Used')
    BY <1>0, <1>4, <2>1, <2>4, NFits DEF PoolInv, NCounts
  <2> QED BY <1>2, <2>5 DEF NCounts
<1>14. Reported'
  BY <1>0, <1>1, <1>2, <1>4, <1>9, <1>12, AcceptedReports
<1>15. NoReadyClientSkipped' /\ IdlePersisted' /\ NeverOversold'
  BY <1>2, <1>4 DEF EventInv, NoReadyClientSkipped, IdlePersisted, NeverOversold
<1> QED BY <1>9, <1>10, <1>11, <1>12, <1>13, <1>14, <1>15 DEF EventInv, PoolInv

(* A failed accept(): the slot that takes the -1 is as free as before. *)
LEMMA AcceptFailsInv == EventInv /\ AcceptFails => EventInv'
<1> SUFFICES ASSUME EventInv, AcceptFails PROVE EventInv'
  OBVIOUS
<1>0. TypeOK /\ PoolInv /\ Reported
  BY DEF EventInv
<1>1. /\ at = "accept" /\ ListenFd \in ready_set /\ refused' = TRUE
      /\ UNCHANGED <<ready_set, count, file, up, backlog, inbox, open>>
      /\ AddClient(NoFd)
  BY DEF AcceptFails
<1>r. read_set' = read_set \cup {StrayFd}
  BY <1>1, FdBits DEF AddClient
<1>2. PICK i \in Slots : /\ clientfd[i] < 0 /\ clientfd' = [clientfd EXCEPT ![i] = NoFd]
                         /\ maxi' = IF i > maxi THEN i ELSE maxi
  BY <1>1 DEF AddClient
<1>3. /\ nready' = nready - 1 /\ maxfd' = (IF NoFd > maxfd THEN NoFd ELSE maxfd)
      /\ n' = Wrap(n + 1) /\ at' = "scan" /\ idx' = 0
  BY <1>1 DEF AddClient
<1>4. clientfd' = clientfd
  <2>1. clientfd \in [Slots -> Fds \cup {NoFd}]
    BY <1>0 DEF TypeOK
  <2>2. clientfd[i] \notin Fds
    BY <1>2, NegativeIsNoFd
  <2> QED BY <1>2, <2>1, <2>2
<1>t. /\ maxi \in Int /\ maxfd \in Nat /\ n \in Int /\ nready \in Int /\ i \in Int
      /\ maxi \in -1 .. PoolSize - 1 /\ i \in -1 .. PoolSize - 1 /\ \A j \in Slots : j \in Int
  BY <1>0, Descriptors DEF TypeOK, Slots
<1>5. maxfd' = maxfd
  BY <1>3, <1>t, Descriptors
<1>6. maxi' \in -1 .. PoolSize - 1 /\ maxi <= maxi'
  BY <1>2, <1>t
<1>7. n' \in Int32
  BY <1>3, <1>t, WrapInt32
<1>8. TypeOK'
  <2>1. at' = "scan" /\ idx' \in Nat /\ nready' \in Int
    BY <1>3, <1>t
  <2>2. up' \in BOOLEAN /\ refused' \in BOOLEAN
    BY <1>0, <1>1 DEF TypeOK
  <2>3. UNCHANGED <<ready_set, count, file, backlog, inbox, open>>
    BY <1>1
  <2>4. read_set' \subseteq Fds \cup {ListenFd, StrayFd}
    BY <1>0, <1>r DEF TypeOK
  <2> QED BY <1>0, <1>4, <1>5, <1>6, <1>7, <2>1, <2>2, <2>3, <2>4 DEF TypeOK
<1>9. PoolInv'
  <2>1. Used' = Used
    BY <1>4 DEF Used
  <2>2. SlotsBounded'
    <3>1. \A j \in Used : j <= maxi' /\ clientfd[j] <= maxfd
      BY <1>0, <1>6, <1>t DEF PoolInv, SlotsBounded, Used
    <3> QED BY <1>4, <1>5, <2>1, <3>1 DEF SlotsBounded
  <2>3. SlotsDiffer' /\ SlotsOpen' /\ Watched'
    BY <1>0, <1>1, <1>4, <1>r, <2>1 DEF PoolInv, SlotsDiffer, SlotsOpen, Watched
  <2>4. NCounts'
    BY <1>1 DEF NCounts
  <2> QED BY <2>2, <2>3, <2>4 DEF PoolInv
<1>10. Reported'
  BY <1>0, <1>1, <1>3, <1>8, <1>9, AcceptedReports DEF PoolInv
<1>11. NoReadyClientSkipped' /\ IdlePersisted' /\ NeverOversold'
  BY <1>1, <1>3 DEF EventInv, NoReadyClientSkipped, IdlePersisted, NeverOversold
<1> QED BY <1>8, <1>9, <1>10, <1>11 DEF EventInv

-----------------------------------------------------------------------------
(* The part of the types that remove_client() and a kept client change. *)
ClientTypes ==
    /\ open \subseteq Fds /\ read_set \subseteq Fds \cup {ListenFd, StrayFd} /\ n \in Int32
    /\ clientfd \in [Slots -> Fds \cup {NoFd}]
    /\ inbox \in [Fds -> {"none", "line", "partial", "eof"}]

LEMMA RemoveKeepsPool ==
    ASSUME TypeOK, PoolInv, idx \in Used, RemoveClient, UNCHANGED <<maxi, maxfd, refused>>
    PROVE  /\ PoolInv' /\ ClientTypes'
           /\ \A j \in Slots : j # idx => clientfd'[j] = clientfd[j]
<1> DEFINE fd == clientfd[idx]
<1>1. /\ open' = open \ {fd} /\ inbox' = [inbox EXCEPT ![fd] = "none"]
      /\ read_set' = read_set \ {fd} /\ clientfd' = [clientfd EXCEPT ![idx] = NoFd]
      /\ n' = Wrap(n - 1)
  BY DEF RemoveClient
<1>2. clientfd \in [Slots -> Fds \cup {NoFd}] /\ idx \in Slots /\ fd \in Fds
  BY DEF TypeOK, Used
<1>3. clientfd'[idx] = NoFd /\ \A j \in Slots : j # idx => clientfd'[j] = clientfd[j]
  BY <1>1, <1>2
<1>4. Used' = Used \ {idx}
  BY <1>2, <1>3 DEF Used
<1>5. \A j \in Used' : j \in Used /\ j # idx /\ clientfd'[j] = clientfd[j]
  BY <1>3, <1>4 DEF Used
<1>6. SlotsBounded' /\ SlotsDiffer'
  BY <1>5 DEF PoolInv, SlotsBounded, SlotsDiffer
<1>7. SlotsOpen'
  <2>1. \A j \in Used' : clientfd[j] # fd
    BY <1>5 DEF PoolInv, SlotsDiffer
  <2>2. {clientfd'[j] : j \in Used'} = {clientfd[j] : j \in Used} \ {fd}
    BY <1>4, <1>5, <2>1
  <2> QED BY <1>1, <2>2 DEF PoolInv, SlotsOpen
<1>8. Watched'
  <2>1. fd # ListenFd
    BY <1>2, Descriptors
  <2> QED BY <1>1, <2>1 DEF PoolInv, Watched
<1>9. NCounts'
  <2>1. /\ Cardinality(Used') = Cardinality(Used) - 1
        /\ Cardinality(Used) \in Nat /\ Cardinality(Used) <= PoolSize
    BY <1>4, UsedBounds, FS_RemoveElement
  <2>2. Cardinality(Used) # 0
    BY UsedBounds, FS_EmptySet
  <2>3. Cardinality(Used) - 1 \in 0 .. PoolSize
    BY <2>1, <2>2, Descriptors
  <2>4. ~ refused => n' = Cardinality(Used')
    BY <1>1, <2>1, <2>3, NFits DEF PoolInv, NCounts
  <2> QED BY <2>4 DEF NCounts
<1>10. ClientTypes'
  <2>1. n - 1 \in Int
    BY Descriptors DEF TypeOK
  <2>2. n' \in Int32
    BY <1>1, <2>1, WrapInt32
  <2>3. clientfd' \in [Slots -> Fds \cup {NoFd}] /\ inbox' \in [Fds -> {"none", "line", "partial", "eof"}]
    BY <1>1, <1>2 DEF TypeOK
  <2> QED BY <1>1, <2>2, <2>3 DEF TypeOK, ClientTypes
<1> QED BY <1>3, <1>6, <1>7, <1>8, <1>9, <1>10 DEF PoolInv

LEMMA KeepKeepsPool ==
    ASSUME TypeOK, PoolInv, idx \in Used, KeepClient, UNCHANGED <<maxi, maxfd, refused>>
    PROVE  /\ PoolInv' /\ ClientTypes'
           /\ \A j \in Slots : j # idx => clientfd'[j] = clientfd[j]
<1>1. UNCHANGED <<open, read_set, clientfd, n>>
  BY DEF KeepClient
<1>2. Used' = Used
  BY <1>1 DEF Used
<1>3. PoolInv'
  BY <1>1, <1>2 DEF PoolInv, SlotsBounded, SlotsDiffer, SlotsOpen, Watched, NCounts
<1>4. ClientTypes'
  BY <1>1 DEF ClientTypes, TypeOK, KeepClient
<1> QED BY <1>1, <1>3, <1>4

(* One client was served: it was ready and is so no more. *)
LEMMA ServedReports ==
    ASSUME TypeOK, PoolInv, Reported, Scanning, Ready(idx), at' = at,
           nready' = nready - 1, idx' = idx + 1, ready_set' = ready_set,
           \A j \in Slots : j # idx => clientfd'[j] = clientfd[j]
    PROVE  Reported'
<1>1. at = "scan" /\ nready = Cardinality(Pending)
  <2>1. at = "scan" /\ nready > 0
    BY DEF Scanning, MoreClients
  <2> QED BY <2>1 DEF Reported
<1>2. clientfd[idx] \in Pending /\ Pending' = Pending \ {clientfd[idx]}
  BY PendingStep
<1>3. Cardinality(Pending') = Cardinality(Pending) - 1
  BY <1>2, PendingNat, FS_RemoveElement
<1> QED BY <1>1, <1>3 DEF Reported

LEMMA ServeEOFInv == EventInv /\ ServeEOF => EventInv'
<1> SUFFICES ASSUME EventInv, ServeEOF PROVE EventInv'
  OBVIOUS
<1>0. TypeOK /\ PoolInv /\ Reported
  BY DEF EventInv
<1>1. /\ Scanning /\ Ready(idx) /\ nready' = nready - 1 /\ idx' = idx + 1 /\ RemoveClient
      /\ UNCHANGED <<at, ready_set, maxi, maxfd, count, file, up, backlog, refused>>
  BY DEF ServeEOF
<1>2. idx \in Used
  BY <1>0, <1>1, ScannedSlot
<1>3. /\ PoolInv' /\ ClientTypes'
      /\ \A j \in Slots : j # idx => clientfd'[j] = clientfd[j]
  BY <1>0, <1>1, <1>2, RemoveKeepsPool
<1>4. Reported'
  BY <1>0, <1>1, <1>3, ServedReports
<1>5. TypeOK'
  <2>1. nready' \in Int /\ idx' \in Nat
    BY <1>0, <1>1 DEF TypeOK
  <2> QED BY <1>0, <1>1, <1>3, <2>1 DEF TypeOK, ClientTypes
<1>6. at' = "scan"
  BY <1>1 DEF Scanning
<1>7. NoReadyClientSkipped' /\ IdlePersisted' /\ NeverOversold'
  BY <1>1, <1>6 DEF EventInv, NoReadyClientSkipped, IdlePersisted, NeverOversold
<1> QED BY <1>3, <1>4, <1>5, <1>7 DEF EventInv

LEMMA ServeLineInv == EventInv /\ ServeLine => EventInv'
<1> SUFFICES ASSUME EventInv, ServeLine PROVE EventInv'
  OBVIOUS
<1>0. TypeOK /\ PoolInv /\ Reported /\ NeverOversold
  BY DEF EventInv
<1>1. /\ Scanning /\ Ready(idx) /\ nready' = nready - 1 /\ idx' = idx + 1
      /\ UNCHANGED <<at, ready_set, maxi, maxfd, file, backlog, refused>>
  BY DEF ServeLine
<1>2. PICK c \in Received(inbox[clientfd[idx]]) : Execute(c) /\ FreeArgs(c)
  BY DEF ServeLine
<1>3. idx \in Used
  BY <1>0, <1>1, ScannedSlot
<1>4. /\ PoolInv' /\ ClientTypes'
      /\ \A j \in Slots : j # idx => clientfd'[j] = clientfd[j]
  BY <1>0, <1>1, <1>2, <1>3, RemoveKeepsPool, KeepKeepsPool DEF Execute
<1>5. Reported'
  BY <1>0, <1>1, <1>4, ServedReports
<1>6. count' \in [Ids -> Counts] /\ NeverOversold'
  <2>1. count \in [Ids -> Counts] /\ \A k \in Ids : count[k] >= 0
    BY <1>0 DEF TypeOK, NeverOversold
  <2>2. CASE count' = count
    BY <2>1, <2>2 DEF NeverOversold
  <2>3. CASE /\ c \in IntInt /\ c.id \in Ids /\ Enough(count[c.id], c)
             /\ count' = [count EXCEPT ![c.id] = Moved(count[c.id], c)]
    <3> DEFINE m == Moved(count[c.id], c)
    <3>1. count[c.id] \in Int32 /\ c \in Lines
      BY <2>1, <2>3, EventServerAssumption DEF Lines, Commands
    <3>2. m \in Int32 /\ m >= 0
      BY <2>3, <3>1, MovedInt32 DEF Enough
    <3>3. m \in Counts
      <4>1. m \in 0 .. IntMax
        BY <3>2, StockCommandsAssumption DEF Int32
      <4> QED BY <4>1, EventServerAssumption
    <3> HIDE DEF m
    <3>4. count' = [count EXCEPT ![c.id] = m]
      BY <2>3 DEF m
    <3> QED BY <2>1, <2>3, <3>2, <3>3, <3>4 DEF NeverOversold
  <2> QED BY <1>2, <2>2, <2>3 DEF Execute
<1>7. TypeOK'
  <2>1. nready' \in Int /\ idx' \in Nat
    BY <1>0, <1>1 DEF TypeOK
  <2>2. up' \in BOOLEAN
    BY <1>2 DEF FreeArgs
  <2> QED BY <1>0, <1>1, <1>4, <1>6, <2>1, <2>2 DEF TypeOK, ClientTypes
<1>8. at' = "scan"
  BY <1>1 DEF Scanning
<1>9. NoReadyClientSkipped' /\ IdlePersisted'
  BY <1>8 DEF NoReadyClientSkipped, IdlePersisted
<1> QED BY <1>4, <1>5, <1>6, <1>7, <1>9 DEF EventInv

-----------------------------------------------------------------------------
(* The steps that leave the pool as it is. *)
LEMMA SamePool ==
    ASSUME PoolInv, UNCHANGED <<pool, open, refused>>
    PROVE  PoolInv' /\ Used' = Used
<1>1. UNCHANGED <<read_set, ready_set, nready, n, maxi, maxfd, clientfd>>
  BY DEF pool
<1>2. Used' = Used
  BY <1>1 DEF Used
<1> QED BY <1>1, <1>2 DEF PoolInv, SlotsBounded, SlotsDiffer, SlotsOpen, Watched, NCounts

LEMMA SkipClientInv == EventInv /\ SkipClient => EventInv'
<1> SUFFICES ASSUME EventInv, SkipClient PROVE EventInv'
  OBVIOUS
<1>0. TypeOK /\ PoolInv /\ Reported
  BY DEF EventInv
<1>1. /\ Scanning /\ ~ Ready(idx) /\ idx' = idx + 1 /\ at = "scan"
      /\ UNCHANGED <<at, read_set, ready_set, nready, n, maxi, maxfd, clientfd, count, file,
                      up, backlog, inbox, open, refused>>
  BY DEF SkipClient, Scanning, pool, kernel
<1>2. Pending' = Pending
  BY <1>0, <1>1, PendingStep
<1>3. Reported'
  BY <1>0, <1>1, <1>2 DEF Reported
<1>4. TypeOK'
  <2>1. idx' \in Nat
    BY <1>0, <1>1 DEF TypeOK
  <2> QED BY <1>0, <1>1, <2>1 DEF TypeOK
<1>5. PoolInv'
  BY <1>0, <1>1, SamePool DEF pool
<1>6. NoReadyClientSkipped' /\ IdlePersisted' /\ NeverOversold'
  BY <1>1 DEF EventInv, NoReadyClientSkipped, IdlePersisted, NeverOversold
<1> QED BY <1>3, <1>4, <1>5, <1>6 DEF EventInv

(* Above maxi no slot is used, so nothing is pending when the scan ends. *)
LEMMA EndScanInv == EventInv /\ EndScan => EventInv'
<1> SUFFICES ASSUME EventInv, EndScan PROVE EventInv'
  OBVIOUS
<1>0. TypeOK /\ PoolInv /\ Reported
  BY DEF EventInv
<1>1. /\ at = "scan" /\ ~ MoreClients /\ at' = "sync"
      /\ UNCHANGED <<idx, read_set, ready_set, nready, n, maxi, maxfd, clientfd, count, file,
                      up, backlog, inbox, open, refused>>
  BY DEF EndScan, pool, kernel
<1>2. nready = Cardinality(Pending) \/ (refused /\ nready = -2)
  BY <1>0, <1>1 DEF Reported
<1>3. nready = 0 \/ (refused /\ nready = -2)
  <2>1. CASE idx > maxi
    <3>1. \A j \in Slots : j >= idx => j \notin Used
      <4>1. idx \in Nat /\ maxi \in Int /\ \A j \in Slots : j \in Nat
        BY <1>0 DEF TypeOK, Slots
      <4> QED BY <1>0, <2>1, <4>1 DEF PoolInv, SlotsBounded
    <3>2. Pending = {}
      BY <3>1, Descriptors DEF Pending, Used
    <3> QED BY <1>2, <3>2, FS_EmptySet
  <2>2. CASE ~ (nready > 0)
    BY <1>2, <2>2, PendingNat
  <2>3. idx \in Nat /\ maxi \in Int
    BY <1>0 DEF TypeOK
  <2> QED BY <1>1, <2>1, <2>2, <2>3 DEF MoreClients
<1>4. TypeOK'
  BY <1>0, <1>1 DEF TypeOK
<1>5. PoolInv'
  BY <1>0, <1>1, SamePool DEF pool
<1>6. Reported' /\ NoReadyClientSkipped' /\ IdlePersisted' /\ NeverOversold'
  BY <1>1, <1>3 DEF EventInv, Reported, NoReadyClientSkipped, IdlePersisted, NeverOversold
<1> QED BY <1>4, <1>5, <1>6 DEF EventInv

(* Without a client n is 0, and the file is written. *)
LEMMA SyncInv == EventInv /\ Sync => EventInv'
<1> SUFFICES ASSUME EventInv, Sync PROVE EventInv'
  OBVIOUS
<1>0. TypeOK /\ PoolInv
  BY DEF EventInv
<1>1. /\ at' = "select" /\ idx' = 0 /\ file' = (IF n = 0 THEN count ELSE file)
      /\ UNCHANGED <<read_set, ready_set, nready, n, maxi, maxfd, clientfd, count, up,
                      backlog, inbox, open, refused>>
  BY DEF Sync, pool, kernel
<1>2. IdlePersisted'
  <2> SUFFICES ASSUME open = {}, ~ refused PROVE file' = count
    BY <1>1 DEF IdlePersisted
  <2>1. Used = {}
    BY <1>0 DEF PoolInv, SlotsOpen
  <2>2. n = 0
    BY <1>0, <2>1, FS_EmptySet DEF PoolInv, NCounts
  <2> QED BY <1>1, <2>2
<1>3. TypeOK'
  BY <1>0, <1>1 DEF TypeOK
<1>4. PoolInv'
  BY <1>0, <1>1, SamePool DEF pool
<1>5. Reported' /\ NoReadyClientSkipped' /\ NeverOversold'
  BY <1>1 DEF EventInv, Reported, NoReadyClientSkipped, NeverOversold
<1> QED BY <1>2, <1>3, <1>4, <1>5 DEF EventInv

(* error_exit: the process ends with everything as it was. *)
LEMMA PoolFullInv == EventInv /\ PoolFull => EventInv'
<1> SUFFICES ASSUME EventInv, PoolFull PROVE EventInv'
  OBVIOUS
<1>0. TypeOK /\ PoolInv
  BY DEF EventInv
<1>1. UNCHANGED <<at, idx, read_set, ready_set, nready, n, maxi, maxfd, clientfd, count, file,
                  backlog, inbox, open, refused>>
  BY DEF PoolFull, pool, kernel
<1>2. up' \in BOOLEAN
  BY DEF PoolFull
<1>3. TypeOK'
  BY <1>0, <1>1, <1>2 DEF TypeOK
<1>4. PoolInv'
  BY <1>0, <1>1, SamePool DEF pool
<1>5. Reported' /\ NoReadyClientSkipped' /\ IdlePersisted' /\ NeverOversold'
  BY <1>1 DEF EventInv, Reported, Pending, NoReadyClientSkipped, IdlePersisted, NeverOversold
<1> QED BY <1>3, <1>4, <1>5 DEF EventInv

LEMMA EventNext == EventInv /\ [Next]_vars => EventInv'
<1> SUFFICES ASSUME EventInv, [Next]_vars PROVE EventInv'
  OBVIOUS
<1>1. CASE UNCHANGED vars
  <2>1. UNCHANGED <<at, idx, read_set, ready_set, nready, n, maxi, maxfd, clientfd, count, file,
                    up, backlog, inbox, open, refused>>
    BY <1>1 DEF vars, pool, kernel
  <2>2. TypeOK'
    BY <2>1 DEF EventInv, TypeOK
  <2>3. PoolInv'
    BY <2>1, SamePool DEF EventInv, pool
  <2>4. Reported' /\ NoReadyClientSkipped' /\ IdlePersisted' /\ NeverOversold'
    BY <2>1 DEF EventInv, Reported, Pending, NoReadyClientSkipped, IdlePersisted, NeverOversold
  <2> QED BY <2>2, <2>3, <2>4 DEF EventInv
<1>2. CASE Server
  BY <1>2, SelectInv, SelectFailsInv, NotListeningInv, AcceptInv, AcceptFailsInv, PoolFullInv, SkipClientInv,
     ServeEOFInv, ServeLineInv, EndScanInv, SyncInv DEF Server
<1> QED BY <1>1, <1>2, ClientsInv DEF Next, Exited

LEMMA EventAlways == Spec => []EventInv
BY EventInit, EventNext, PTL DEF Spec

(***************************************************************************)
(* The fields of the pool of network.c agree at every moment: every client *)
(* has a slot of its own below maxi and a watched, open descriptor below   *)
(* maxfd; nothing else is watched but the bit that FD_SET(-1) sets after a *)
(* failed accept(), and n counts the clients as long as none has failed.   *)
(***************************************************************************)
THEOREM PoolSafe == Spec => []PoolConsistent
<1>1. EventInv => PoolConsistent
  BY DEF EventInv, PoolInv, SlotsBounded, SlotsDiffer, SlotsOpen, Watched, NCounts,
         PoolConsistent
<1> QED BY <1>1, EventAlways, PTL

(***************************************************************************)
(* write_pool() ends with nready = 0: stopping early at nready = 0, or at  *)
(* maxi, never leaves a client that select() reported unserved, whether or *)
(* not accept() was called, or failed, in between.  Only when select()     *)
(* itself failed, after a failed accept(), does it end with another count. *)
(***************************************************************************)
THEOREM ScanComplete == Spec => []NoReadyClientSkipped
<1>1. EventInv => NoReadyClientSkipped
  BY DEF EventInv
<1> QED BY <1>1, EventAlways, PTL

(***************************************************************************)
(* While the server waits in select() without a client, and accept() has   *)
(* never failed, the stock file is what is in memory.                      *)
(***************************************************************************)
THEOREM IdleSafe == Spec => []IdlePersisted
<1>1. EventInv => IdlePersisted
  BY DEF EventInv
<1> QED BY <1>1, EventAlways, PTL

(***************************************************************************)
(* modify() of the event driven server never makes a count negative, with  *)
(* any amounts, although the sum it tests may wrap around.                 *)
(***************************************************************************)
THEOREM SoldSafe == Spec => []NeverOversold
<1>1. EventInv => NeverOversold
  BY DEF EventInv
<1> QED BY <1>1, EventAlways, PTL

=============================================================================
