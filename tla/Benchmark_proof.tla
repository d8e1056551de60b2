-------------------------- MODULE Benchmark_proof --------------------------
(***************************************************************************)
(* Proofs about the stock clients under the benchmark, for every length of *)
(* an answer and every size of the buffers of the library and the kernel:  *)
(* no byte of an order or of its answer is lost, doubled or reordered.     *)
(* And about the benchmark, for every number of clients and of orders:     *)
(* its clients find the server, and its times are those of the clients.    *)
(* And about the functions of the CS:APP library that both rest on.        *)
(***************************************************************************)
EXTENDS Benchmark, SequenceTheorems, WellFoundedInduction, TLAPS

Bytes == Typed \cup {NL}
Wires == Seq(Bytes)

(* A rio_t holds as many bytes as rio_cnt says. *)
IsRio(rp) ==
    rp = [rio_cnt |-> Len(rp.rio_buf), rio_buf |-> rp.rio_buf] /\ rp.rio_buf \in Wires

IsClient(k) ==
    /\ k = [pc |-> k.pc, order |-> k.order, left |-> k.left, out |-> k.out, rio |-> k.rio,
            buf |-> k.buf]
    /\ k.order \in Typed /\ k.out \in Wires /\ IsRio(k.rio)
    /\ k.buf \in Wires /\ Len(k.buf) < MAXLINE

IsService(s) ==
    /\ s = [pc |-> s.pc, rio |-> s.rio, line |-> s.line, out |-> s.out]
    /\ s.pc \in {"none", "read", "write", "closed"}
    /\ IsRio(s.rio) /\ s.line \in Wires /\ s.out \in Wires

(* The bytes of the order, and of the answer, between client k and service *)
(* s with ts and tc on the way.                                            *)
Asking(k, s, ts) ==
    (IF s.pc = "read" THEN s.line ELSE <<>>) \o s.rio.rio_buf \o ts \o k.out

Telling(k, s, tc) ==
    (IF k.pc = "read" THEN k.buf ELSE <<>>) \o k.rio.rio_buf \o tc
        \o (IF s.pc = "write" THEN s.out ELSE <<>>)

(***************************************************************************)
(* A connection is idle, or carries the line of one order, or carries its  *)
(* answer; never parts of both.  Neither end waits to write nothing.       *)
(***************************************************************************)
InUse == {"order", "write", "read"}

Carries(k, s, ts, tc) ==
    \/ k.pc = "order" /\ Asking(k, s, ts) = <<>> /\ Telling(k, s, tc) = <<>>
    \/ k.pc \in {"write", "read"} /\ Asking(k, s, ts) = Line(k.order) /\ Telling(k, s, tc) = <<>>
    \/ k.pc = "read" /\ Asking(k, s, ts) = <<>> /\ Telling(k, s, tc) = Answer(k.order)

(* What is buffered never exceeds its buffer. *)
Fits(k, ts, tc) ==
    /\ k.left \in Nat /\ Len(k.rio.rio_buf) <= RIO_BUFSIZE
    /\ Len(ts) <= SocketBuffer /\ Len(tc) <= SocketBuffer

Wire(k, s, ts, tc) ==
    /\ IsClient(k) /\ IsService(s) /\ ts \in Wires /\ tc \in Wires
    /\ k.pc = "write" <=> k.out # <<>>
    /\ s.pc = "write" => s.out # <<>>
    /\ k.pc \in InUse => s.pc # "none"
    /\ k.pc \in InUse /\ s.pc # "closed" => Carries(k, s, ts, tc)
    /\ Fits(k, ts, tc)

WireInv ==
    /\ client = [c \in Clients |-> client[c]] /\ service = [c \in Clients |-> service[c]]
    /\ toServer = [c \in Clients |-> toServer[c]] /\ toClient = [c \in Clients |-> toClient[c]]
    /\ \A c \in Clients : Wire(client[c], service[c], toServer[c], toClient[c])

(***************************************************************************)
(* The processes.  Once the server has told that it has booted, SIGUSR1    *)
(* is not sent again; a SIGCHLD that is pending while the server runs is   *)
(* that of a multiclient process that has ended.                           *)
(***************************************************************************)
ProcTyped ==
    /\ bench \in [pc : {"start", "started", "suspended", "woken", "exited"}, phase : 0 .. 3,
                  num_client : Nat, total_order : Nat]
    /\ server \in [pc : {"none", "starting", "bound", "serving", "dead"}, deaf : BOOLEAN,
                   status : {0, PathWrong}]
    /\ parent \in [pc : {"none", "fork", "wait", "exited", "killed", "failed", "reaped"},
                   num_client : Nat, per_client : Nat, query_type : {"RAND", "SHOW", "MODIFY"},
                   runprocess : Nat, waited : Nat]
    /\ parent.runprocess <= parent.num_client /\ parent.waited <= parent.num_client
    /\ parent.pc = "fork" => parent.waited = 0
    /\ pending \subseteq Signals

(* The clients that may run, by what the multiclient process does. *)
MayRun(c) ==
    CASE parent.pc = "fork"   -> c <= parent.runprocess
      [] parent.pc = "wait"   -> parent.waited < c /\ c <= parent.num_client
      [] parent.pc = "failed" -> TRUE
      [] OTHER                -> FALSE

Booting ==
    /\ parent.pc = "none" /\ "SIGCHLD" \notin pending /\ bench.pc # "exited"
    /\ ("SIGENDCLOCK" \in pending \/ bench.pc = "woken") => server.pc = "serving"
    /\ bench.pc = "woken" => "SIGENDCLOCK" \notin pending

Measuring ==
    /\ "SIGENDCLOCK" \notin pending
    /\ "SIGCHLD" \in pending =>
          parent.pc \in {"exited", "killed", "failed"} /\ bench.pc \in {"started", "suspended"}
    /\ bench.pc = "start" => parent.pc \in {"none", "reaped"}
    /\ bench.pc = "woken" => parent.pc = "reaped"

Benchmarking == program = "benchmark" /\ server.pc # "dead" /\ bench.pc # "exited"

PhaseInv ==
    /\ bench.phase > 0 => program = "benchmark" /\ server.pc \in {"serving", "dead"}
    /\ BenchAt("start") /\ bench.phase = 0 => server.pc = "none"
    /\ Benchmarking =>
         /\ bench.phase = 0 => Booting
         /\ bench.phase > 0 => Measuring
         /\ \A c \in Clients : Running(c) => MayRun(c)

-----------------------------------------------------------------------------
(***************************************************************************)
(* Sequences.  A prefix moves from one of four sequences to the one before *)
(* it, and the whole stays what it is.                                     *)
(***************************************************************************)
LEMMA EmptyWire == <<>> \in Wires /\ Len(<<>>) = 0 /\ \A a \in Wires : (Len(a) = 0) => a = <<>>
BY EmptySeq DEF Wires

LEMMA WholeTyped ==
    ASSUME NEW a \in Wires, NEW b \in Wires, NEW c \in Wires, NEW d \in Wires
    PROVE  /\ a \o b \in Wires /\ a \o b \o c \in Wires /\ a \o b \o c \o d \in Wires
           /\ Len(a \o b \o c \o d) = Len(a) + Len(b) + Len(c) + Len(d)
BY ConcatProperties DEF Wires

LEMMA WholeEmpty ==
    ASSUME NEW a \in Wires, NEW b \in Wires, NEW c \in Wires, NEW d \in Wires
    PROVE  a \o b \o c \o d = <<>> <=> a = <<>> /\ b = <<>> /\ c = <<>> /\ d = <<>>
<1>1. a \o b \in Wires /\ a \o b \o c \in Wires
  BY WholeTyped
<1> QED BY <1>1, ConcatEqualIffEmpty DEF Wires

Whole(a, b, c, d) == a \o b \o c \o d
Associates(x, y, z) == (x \o y) \o z = x \o (y \o z)
MovedToFirst(a, p, b, c, d) == (a \o p) \o b \o c \o d = a \o (p \o b) \o c \o d
MovedToSecond(a, p, b, c) == a \o p \o b \o c = a \o <<>> \o (p \o b) \o c
MovedToThird(a, b, c, p, d) == a \o b \o (c \o p) \o d = a \o b \o c \o (p \o d)

LEMMA Assoc ==
    ASSUME NEW x \in Wires, NEW y \in Wires, NEW z \in Wires
    PROVE  Associates(x, y, z)
BY ConcatAssociative DEF Wires, Associates

HasLength(a, b, c, d) ==
    /\ Whole(a, b, c, d) \in Wires
    /\ Len(Whole(a, b, c, d)) = Len(a) + Len(b) + Len(c) + Len(d)

LEMMA WholeLength ==
    ASSUME NEW a \in Wires, NEW b \in Wires, NEW c \in Wires, NEW d \in Wires
    PROVE  HasLength(a, b, c, d)
BY WholeTyped DEF Whole, HasLength

LEMMA MoveToFirst ==
    ASSUME NEW a \in Wires, NEW p \in Wires, NEW b \in Wires, NEW c \in Wires, NEW d \in Wires
    PROVE  MovedToFirst(a, p, b, c, d)
<1>1. Associates(a, p, b)
  BY Assoc
<1> QED BY <1>1, Zenon DEF MovedToFirst, Associates

LEMMA MoveToSecond ==
    ASSUME NEW a \in Wires, NEW p \in Wires, NEW b \in Wires, NEW c \in Wires
    PROVE  MovedToSecond(a, p, b, c)
<1>1. a \o <<>> = a
  BY ConcatEmptySeq DEF Wires
<1>2. Associates(a, p, b)
  BY Assoc
<1> QED BY <1>1, <1>2, Zenon DEF MovedToSecond, Associates

LEMMA MoveToThird ==
    ASSUME NEW a \in Wires, NEW b \in Wires, NEW c \in Wires, NEW p \in Wires, NEW d \in Wires
    PROVE  MovedToThird(a, b, c, p, d)
<1>1. PICK x \in Wires : x = a \o b
  BY WholeTyped
<1>2. PICK y \in Wires : y = x \o c
  BY WholeTyped
<1>3. Associates(x, c, p) /\ Associates(y, p, d)
  BY Assoc
<1> QED BY <1>1, <1>2, <1>3, Zenon DEF MovedToThird, Associates

IsCut(s, n) ==
    /\ SubSeq(s, 1, n) \in Wires /\ Len(SubSeq(s, 1, n)) = n
    /\ Drop(s, n) \in Wires /\ Len(Drop(s, n)) = Len(s) - n
    /\ SubSeq(s, 1, n) \o Drop(s, n) = s

LEMMA CutWire ==
    ASSUME NEW s \in Wires, NEW n \in 0 .. Len(s)
    PROVE  IsCut(s, n)
<1>1. Len(s) \in Nat /\ \A i \in 1 .. Len(s) : s[i] \in Bytes
  BY LenProperties, ElementOfSeq DEF Wires
<1>2. SubSeq(s, 1, n) \in Wires /\ Len(SubSeq(s, 1, n)) = n
  BY <1>1, SubSeqProperties DEF Wires
<1>3. Drop(s, n) \in Wires /\ Len(Drop(s, n)) = Len(s) - n
  BY <1>1, SubSeqProperties DEF Wires, Drop
<1>4. SubSeq(s, 1, n) \o SubSeq(s, n + 1, Len(s)) = SubSeq(s, 1, Len(s))
  <2>1. s \in Seq(Bytes) /\ 1 \in 1 .. Len(s) + 1 /\ n \in 1 - 1 .. Len(s) /\ Len(s) \in n .. Len(s)
    BY <1>1 DEF Wires
  <2> QED BY <2>1, ConcatAdjacentSubSeq
<1>5. SubSeq(s, 1, Len(s)) = s
  BY SubSeqFull DEF Wires
<1> QED BY <1>2, <1>3, <1>4, <1>5 DEF Drop, IsCut

-----------------------------------------------------------------------------
(***************************************************************************)
(* The library functions.                                                  *)
(***************************************************************************)
ReadGives(net, shut, r) ==
    /\ Drop(net, Len(r.got)) \in Wires
    /\ Refill(r).rio_buf \o Drop(net, Len(r.got)) = net
    /\ AtEOF(r) => shut
    /\ IsRio(Refill(r))

LEMMA ReadIs ==
    ASSUME NEW net \in Wires, NEW shut \in BOOLEAN, NEW n \in Nat, NEW r \in read(net, shut, n)
    PROVE  ReadGives(net, shut, r)
<1>0. Len(net) \in Nat /\ <<>> \in Wires /\ Len(<<>>) = 0
  BY LenProperties, EmptyWire DEF Wires
<1>1. CASE \E k \in 1 .. Least(n, Len(net)) : r = [rc |-> k, got |-> SubSeq(net, 1, k)]
  <2>0. 1 .. Least(n, Len(net)) \subseteq 1 .. Len(net)
    BY <1>0 DEF Least
  <2>1. PICK k \in 1 .. Len(net) : r = [rc |-> k, got |-> SubSeq(net, 1, k)]
    BY <1>1, <2>0
  <2>2. k \in 0 .. Len(net) /\ r.got = SubSeq(net, 1, k) /\ ~ AtEOF(r)
    BY <1>0, <2>1 DEF AtEOF
  <2>3. IsCut(net, k)
    BY <2>2, CutWire
  <2> QED BY <2>1, <2>2, <2>3 DEF Refill, IsRio, IsCut, ReadGives
<1>2. CASE r = EINTR \/ (r = EOF /\ net = <<>> /\ shut)
  <2>1. r.got = <<>> /\ (AtEOF(r) => shut)
    BY <1>2 DEF EINTR, EOF, AtEOF
  <2>2. 0 \in 0 .. Len(net) /\ SubSeq(net, 1, 0) = <<>>
    BY <1>0, SubSeqEmpty
  <2>3. IsCut(net, 0)
    BY <2>2, CutWire
  <2> QED BY <1>0, <2>1, <2>2, <2>3 DEF Refill, IsRio, IsCut, ReadGives
<1> QED BY <1>1, <1>2 DEF read

CopyGives(rp, n) ==
    /\ Copied(rp, n) \in Wires /\ Len(Copied(rp, n)) = Least(n, rp.rio_cnt)
    /\ IsRio(AfterCopy(rp, n))
    /\ Copied(rp, n) \o AfterCopy(rp, n).rio_buf = rp.rio_buf

LEMMA CopyIs ==
    ASSUME NEW rp, IsRio(rp), NEW n \in Nat
    PROVE  CopyGives(rp, n)
<1> DEFINE m == Least(n, rp.rio_cnt)
<1>1. rp.rio_buf \in Wires /\ rp.rio_cnt = Len(rp.rio_buf) /\ Len(rp.rio_buf) \in Nat
  BY LenProperties DEF IsRio, Wires
<1>2. m \in 0 .. Len(rp.rio_buf)
  BY <1>1 DEF Least
<1>3. /\ Copied(rp, n) = SubSeq(rp.rio_buf, 1, m)
      /\ AfterCopy(rp, n) = [rio_cnt |-> rp.rio_cnt - m, rio_buf |-> Drop(rp.rio_buf, m)]
  BY DEF Copied, AfterCopy
<1> HIDE DEF m
<1>4. /\ SubSeq(rp.rio_buf, 1, m) \in Wires /\ Len(SubSeq(rp.rio_buf, 1, m)) = m
      /\ Drop(rp.rio_buf, m) \in Wires /\ Len(Drop(rp.rio_buf, m)) = rp.rio_cnt - m
      /\ SubSeq(rp.rio_buf, 1, m) \o Drop(rp.rio_buf, m) = rp.rio_buf
  <2>1. IsCut(rp.rio_buf, m)
    BY <1>1, <1>2, CutWire
  <2> QED BY <1>1, <2>1 DEF IsCut
<1>5. IsRio(AfterCopy(rp, n)) /\ AfterCopy(rp, n).rio_buf = Drop(rp.rio_buf, m)
  BY <1>3, <1>4 DEF IsRio
<1>6. m = Least(n, rp.rio_cnt)
  BY DEF m
<1> QED BY <1>3, <1>4, <1>5, <1>6 DEF CopyGives

UnreadGives(rp) == Unread(rp) = rp.rio_buf /\ (NeedsRefill(rp) <=> rp.rio_buf = <<>>)

LEMMA UnreadIs ==
    ASSUME NEW rp, IsRio(rp)
    PROVE  UnreadGives(rp)
<1>1. rp.rio_buf \in Wires /\ rp.rio_cnt = Len(rp.rio_buf) /\ Len(rp.rio_buf) \in Nat
  BY LenProperties DEF IsRio, Wires
<1>2. SubSeq(rp.rio_buf, 1, Len(rp.rio_buf)) = rp.rio_buf
  BY <1>1, SubSeqFull DEF Wires
<1>3. Len(rp.rio_buf) > 0 \/ Len(rp.rio_buf) = 0
  BY <1>1
<1>4. rp.rio_buf = <<>> <=> Len(rp.rio_buf) = 0
  BY <1>1, EmptyWire
<1>5. Unread(rp) = rp.rio_buf
  BY <1>1, <1>2, <1>3, <1>4 DEF Unread
<1>6. NeedsRefill(rp) <=> rp.rio_buf = <<>>
  BY <1>1, <1>3, <1>4 DEF NeedsRefill
<1> QED BY <1>5, <1>6 DEF UnreadGives

LEMMA ReadLength ==
    ASSUME NEW net \in Wires, NEW shut, NEW n \in Nat, NEW r \in read(net, shut, n)
    PROVE  Len(Refill(r).rio_buf) <= n
<1>0. Len(net) \in Nat /\ <<>> \in Wires /\ Len(<<>>) = 0
  BY LenProperties, EmptyWire DEF Wires
<1>1. CASE \E k \in 1 .. Least(n, Len(net)) : r = [rc |-> k, got |-> SubSeq(net, 1, k)]
  <2>1. PICK k \in 1 .. Least(n, Len(net)) : r = [rc |-> k, got |-> SubSeq(net, 1, k)]
    BY <1>1
  <2>2. k \in 0 .. Len(net) /\ k <= n
    BY <1>0 DEF Least
  <2>3. IsCut(net, k)
    BY <2>2, CutWire
  <2> QED BY <2>1, <2>2, <2>3 DEF IsCut, Refill
<1>2. CASE r = EINTR \/ r = EOF
  BY <1>0, <1>2 DEF EINTR, EOF, Refill
<1> QED BY <1>1, <1>2 DEF read

LEMMA SuffixLength ==
    ASSUME NEW p \in Wires, NEW d \in Wires
    PROVE  Len(d) <= Len(p \o d) /\ Len(p \o d) = Len(p) + Len(d)
BY ConcatProperties, LenProperties DEF Wires

LEMMA FitsLess ==
    ASSUME NEW k, NEW ts, NEW tc, Fits(k, ts, tc), NEW d \in Wires, ts \in Wires, Len(d) <= Len(ts)
    PROVE  Fits(k, d, tc)
BY LenProperties, ClientsAssumption DEF Wires, Fits

LEMMA FitsOther ==
    ASSUME NEW k, NEW ts, NEW tc, Fits(k, ts, tc), k.rio.rio_buf \in Wires, tc \in Wires,
           NEW d \in Wires, Len(d) <= Len(tc), NEW k2, k2.left = k.left, k2.rio.rio_buf \in Wires,
           \/ Len(k2.rio.rio_buf) <= Len(k.rio.rio_buf)
           \/ Len(k2.rio.rio_buf) <= RIO_BUFSIZE
    PROVE  Fits(k2, ts, d)
BY LenProperties, ClientsAssumption, RioAssumption DEF Wires, Fits

LEMMA AnswerTyped ==
    ASSUME NEW b \in Bytes
    PROVE  Answer(b) \in Wires /\ Len(Answer(b)) = MAXLINE /\ Answer(b) # <<>>
<1>1. MAXLINE \in Nat /\ MAXLINE > 2
  BY ClientsAssumption
<1>2. Answer(b) \in [1 .. MAXLINE -> Bytes]
  BY DEF Answer
<1>3. Answer(b) \in Wires /\ Len(Answer(b)) = MAXLINE
  BY <1>1, <1>2 DEF Wires
<1> QED BY <1>1, <1>3, EmptyWire

LEMMA LineTyped ==
    ASSUME NEW o \in Typed
    PROVE  /\ Line(o) \in Wires /\ Len(Line(o)) \in {1, 2} /\ Line(o) # <<>>
           /\ Line(o)[1] = o /\ o # NL /\ o \in Bytes
<1>1. o \in Bytes /\ NL \in Bytes /\ o # NL
  BY DEF Bytes, Typed, Orders, Cut, NL
<1> QED BY <1>1 DEF Line, Wires

-----------------------------------------------------------------------------
(***************************************************************************)
(* What a step does to the connection of its client.                       *)
(***************************************************************************)
(* A line or an answer is nowhere iff it is in none of its places. *)
Parted(k, s, ts, tc) ==
    /\ s.rio.rio_buf \in Wires /\ k.rio.rio_buf \in Wires /\ s.line \in Wires
    /\ k.buf \in Wires /\ k.out \in Wires /\ s.out \in Wires
    /\ Asking(k, s, ts) = <<>> <=>
         (s.pc = "read" => s.line = <<>>) /\ s.rio.rio_buf = <<>> /\ ts = <<>> /\ k.out = <<>>
    /\ Telling(k, s, tc) = <<>> <=>
         (k.pc = "read" => k.buf = <<>>) /\ k.rio.rio_buf = <<>> /\ tc = <<>>
         /\ (s.pc = "write" => s.out = <<>>)

LEMMA Parts ==
    ASSUME NEW k, NEW s, NEW ts, NEW tc, IsClient(k), IsService(s), ts \in Wires, tc \in Wires
    PROVE  Parted(k, s, ts, tc)
<1>1. /\ s.rio.rio_buf \in Wires /\ k.rio.rio_buf \in Wires /\ s.line \in Wires
      /\ k.buf \in Wires /\ k.out \in Wires /\ s.out \in Wires /\ <<>> \in Wires
  BY EmptyWire DEF IsClient, IsService, IsRio
<1>2. PICK a \in Wires : a = IF s.pc = "read" THEN s.line ELSE <<>>
  BY <1>1
<1>3. PICK b \in Wires : b = IF k.pc = "read" THEN k.buf ELSE <<>>
  BY <1>1
<1>4. PICK d \in Wires : d = IF s.pc = "write" THEN s.out ELSE <<>>
  BY <1>1
<1>5. Asking(k, s, ts) = <<>> <=> a = <<>> /\ s.rio.rio_buf = <<>> /\ ts = <<>> /\ k.out = <<>>
  <2>1. Asking(k, s, ts) = a \o s.rio.rio_buf \o ts \o k.out
    BY <1>2 DEF Asking
  <2> QED BY <1>1, <2>1, WholeEmpty
<1>6. Telling(k, s, tc) = <<>> <=> b = <<>> /\ k.rio.rio_buf = <<>> /\ tc = <<>> /\ d = <<>>
  <2>1. Telling(k, s, tc) = b \o k.rio.rio_buf \o tc \o d
    BY <1>3, <1>4 DEF Telling
  <2> QED BY <1>1, <2>1, WholeEmpty
<1> QED BY <1>1, <1>2, <1>3, <1>4, <1>5, <1>6 DEF Parted

ClientHas(k, pc, order, left, out, rio, buf) ==
    /\ IsClient(k) /\ k.pc = pc /\ k.order = order /\ k.left = left /\ k.out = out
    /\ k.rio = rio /\ k.buf = buf

NewClient(pc, order, left, out, rio, buf) ==
    [pc |-> pc, order |-> order, left |-> left, out |-> out, rio |-> rio, buf |-> buf]

LEMMA ClientIs ==
    ASSUME NEW pc, NEW order \in Typed, NEW left, NEW out \in Wires, NEW rio, IsRio(rio),
           NEW buf \in Wires, Len(buf) < MAXLINE
    PROVE  ClientHas(NewClient(pc, order, left, out, rio, buf), pc, order, left, out, rio, buf)
<1>1. PICK k : k = NewClient(pc, order, left, out, rio, buf)
  OBVIOUS
<1>2. /\ k.pc = pc /\ k.order = order /\ k.left = left /\ k.out = out /\ k.rio = rio
      /\ k.buf = buf
  BY <1>1 DEF NewClient
<1>3. k = [pc |-> k.pc, order |-> k.order, left |-> k.left, out |-> k.out, rio |-> k.rio,
           buf |-> k.buf]
  BY <1>1, <1>2 DEF NewClient
<1> QED BY <1>1, <1>2, <1>3 DEF IsClient, ClientHas

LEMMA ClientFields ==
    ASSUME NEW k, IsClient(k)
    PROVE  /\ k = NewClient(k.pc, k.order, k.left, k.out, k.rio, k.buf)
           /\ k.order \in Typed /\ k.out \in Wires /\ IsRio(k.rio) /\ k.buf \in Wires
           /\ Len(k.buf) < MAXLINE
BY DEF IsClient, NewClient

ServiceHas(s, pc, rio, line, out) ==
    IsService(s) /\ s.pc = pc /\ s.rio = rio /\ s.line = line /\ s.out = out

NewService(pc, rio, line, out) == [pc |-> pc, rio |-> rio, line |-> line, out |-> out]

LEMMA ServiceIs ==
    ASSUME NEW pc \in {"none", "read", "write", "closed"}, NEW rio, IsRio(rio),
           NEW line \in Wires, NEW out \in Wires
    PROVE  ServiceHas(NewService(pc, rio, line, out), pc, rio, line, out)
<1>1. PICK s : s = NewService(pc, rio, line, out)
  OBVIOUS
<1>2. s.pc = pc /\ s.rio = rio /\ s.line = line /\ s.out = out
  BY <1>1 DEF NewService
<1>3. s = [pc |-> s.pc, rio |-> s.rio, line |-> s.line, out |-> s.out]
  BY <1>1, <1>2 DEF NewService
<1> QED BY <1>1, <1>2, <1>3 DEF IsService, ServiceHas

(* rio_writen() moves bytes of the line from the client to the connection. *)
LEMMA WriteWire ==
    ASSUME NEW k, NEW s, NEW ts, NEW tc, Wire(k, s, ts, tc), k.pc = "write", s.pc # "closed",
           NEW p \in Wires, NEW d \in Wires, p \o d = k.out,
           Len(ts \o p) <= SocketBuffer, NEW k2,
           k2 = NewClient(AfterOrder(d), k.order, k.left, d, k.rio, <<>>)
    PROVE  Wire(k2, s, ts \o p, tc)
<1>1. IsClient(k) /\ IsService(s) /\ ts \in Wires /\ tc \in Wires
  BY DEF Wire
<1>2. ClientHas(k2, AfterOrder(d), k.order, k.left, d, k.rio, <<>>)
  <2>1. Len(<<>>) < MAXLINE /\ <<>> \in Wires
    BY EmptyWire, ClientsAssumption
  <2>2. k.order \in Typed /\ IsRio(k.rio)
    BY <1>1, ClientFields
  <2> QED BY <2>1, <2>2, ClientIs
<1>3. /\ IsClient(k2) /\ k2.pc = AfterOrder(d) /\ k2.order = k.order /\ k2.out = d
      /\ k2.left = k.left
      /\ k2.rio = k.rio /\ k2.buf = <<>>
  BY <1>2 DEF ClientHas
<1>4. Asking(k, s, ts) = Line(k.order) /\ Telling(k, s, tc) = <<>>
  BY DEF Wire, Carries, InUse
<1>5. ts \o p \in Wires /\ Parted(k, s, ts, tc) /\ Parted(k2, s, ts, tc)
  BY <1>1, <1>3, WholeTyped, Parts
<1>6. Asking(k2, s, ts \o p) = Asking(k, s, ts)
  <2>1. PICK a \in Wires : a = IF s.pc = "read" THEN s.line ELSE <<>>
    BY <1>5, EmptyWire DEF Parted
  <2>2. PICK b \in Wires : b = s.rio.rio_buf
    BY <1>5 DEF Parted
  <2>3. MovedToThird(a, b, ts, p, d)
    BY <1>1, MoveToThird
  <2> QED BY <1>3, <2>1, <2>2, <2>3 DEF Asking, MovedToThird
<1>7. Telling(k2, s, tc) = <<>>
  BY <1>3, <1>4, <1>5 DEF Parted
<1> QED BY <1>1, <1>3, <1>4, <1>5, <1>6, <1>7 DEF Wire, Carries, InUse, AfterOrder, Fits

(* rio_readlineb() takes bytes off the connection into its buffer, or sees its end. *)
LEMMA LineRefillWire ==
    ASSUME NEW k, NEW s, NEW ts, NEW tc, Wire(k, s, ts, tc), s.pc = "read", s.rio.rio_buf = <<>>,
           NEW rio, IsRio(rio), NEW d \in Wires, rio.rio_buf \o d = ts,
           NEW pc \in {"read", "closed"}, NEW s2, s2 = NewService(pc, rio, s.line, s.out)
    PROVE  Wire(k, s2, d, tc)
<1>1. IsClient(k) /\ IsService(s) /\ ts \in Wires /\ tc \in Wires
  BY DEF Wire
<1>2. ServiceHas(s2, pc, rio, s.line, s.out)
  <2>1. s.line \in Wires /\ s.out \in Wires
    BY <1>1 DEF IsService
  <2> QED BY <2>1, ServiceIs
<1>3. IsService(s2) /\ s2.pc = pc /\ s2.rio = rio /\ s2.line = s.line /\ s2.out = s.out
  BY <1>2 DEF ServiceHas
<1>31. Len(d) <= Len(ts)
  BY SuffixLength DEF IsRio
<1>32. Fits(k, d, tc)
  BY <1>1, <1>31, FitsLess DEF Wire
<1>4. CASE pc = "closed"
  BY <1>1, <1>3, <1>32, <1>4 DEF Wire
<1>5. CASE pc = "read"
  <2>1. Asking(k, s2, d) = Asking(k, s, ts)
    <3>1. PICK a, b, e \in Wires : a = s.line /\ b = rio.rio_buf /\ e = k.out
      BY <1>1 DEF IsService, IsClient, IsRio
    <3>2. MovedToSecond(a, b, d, e)
      BY MoveToSecond
    <3>3. Asking(k, s2, d) = a \o b \o d \o e
      BY <1>3, <1>5, <3>1 DEF Asking
    <3>4. Asking(k, s, ts) = a \o <<>> \o (b \o d) \o e
      BY <3>1 DEF Asking
    <3> QED BY <3>2, <3>3, <3>4 DEF MovedToSecond
  <2>2. Telling(k, s2, tc) = Telling(k, s, tc)
    BY <1>3, <1>5 DEF Telling
  <2> QED BY <1>1, <1>3, <1>32, <1>5, <2>1, <2>2 DEF Wire, Carries
<1> QED BY <1>4, <1>5

(* rio_readlineb() takes a byte out of its buffer, and the line goes on. *)
LEMMA LineByteWire ==
    ASSUME NEW k, NEW s, NEW ts, NEW tc, Wire(k, s, ts, tc), s.pc = "read",
           NEW p \in Wires, NEW rio, IsRio(rio), p \o rio.rio_buf = s.rio.rio_buf,
           NEW s2, s2 = NewService("read", rio, s.line \o p, s.out)
    PROVE  Wire(k, s2, ts, tc)
<1>1. IsClient(k) /\ IsService(s) /\ ts \in Wires /\ tc \in Wires
  BY DEF Wire
<1>2. PICK a, b, e \in Wires : a = s.line /\ b = rio.rio_buf /\ e = k.out
  BY <1>1 DEF IsService, IsClient, IsRio
<1>3. ServiceHas(s2, "read", rio, a \o p, s.out)
  <2>1. a \o p \in Wires /\ s.out \in Wires
    BY <1>1, WholeTyped DEF IsService
  <2> QED BY <1>2, <2>1, ServiceIs
<1>4. IsService(s2) /\ s2.pc = "read" /\ s2.rio = rio /\ s2.line = a \o p /\ s2.out = s.out
  BY <1>3 DEF ServiceHas
<1>5. Asking(k, s2, ts) = Asking(k, s, ts)
  <2>1. MovedToFirst(a, p, b, ts, e)
    BY <1>1, MoveToFirst
  <2>2. Asking(k, s2, ts) = (a \o p) \o b \o ts \o e
    BY <1>2, <1>4 DEF Asking
  <2>3. Asking(k, s, ts) = a \o (p \o b) \o ts \o e
    BY <1>2 DEF Asking
  <2> QED BY <2>1, <2>2, <2>3 DEF MovedToFirst
<1>6. Telling(k, s2, tc) = Telling(k, s, tc)
  BY <1>4 DEF Telling
<1> QED BY <1>1, <1>4, <1>5, <1>6 DEF Wire, Carries

(* The newline ends the line: it is the line of the order, and nothing follows it. *)
WholeLine(o, a, b, ts, e) == a[1] = o /\ b = <<>> /\ ts = <<>> /\ e = <<>>

LEMMA LineWhole ==
    ASSUME NEW o \in Typed, NEW a \in Wires, NEW b \in Wires, NEW ts \in Wires, NEW e \in Wires,
           Whole(a, b, ts, e) = Line(o), a # <<>>, LineEnds(a, MAXLINE)
    PROVE  WholeLine(o, a, b, ts, e)
<1>1. PICK n, x, y, z \in Nat : n = Len(a) /\ x = Len(b) /\ y = Len(ts) /\ z = Len(e)
  BY LenProperties DEF Wires
<1>2. n + x + y + z \in {1, 2}
  <2>1. Len(Whole(a, b, ts, e)) = Len(a) + Len(b) + Len(ts) + Len(e)
    BY WholeTyped DEF Whole
  <2>2. Len(Line(o)) \in {1, 2}
    BY LineTyped
  <2> QED BY <1>1, <2>1, <2>2
<1>3. n # 0
  BY <1>1, EmptyWire
<1>4. a[1] = o /\ o # NL
  <2>1. PICK v \in Wires : Whole(a, b, ts, e) = a \o v
    <3>1. PICK w \in Wires : w = b \o ts
      BY WholeTyped
    <3>2. PICK v \in Wires : v = w \o e
      BY WholeTyped
    <3>3. Associates(a, b, ts) /\ Associates(a, w, e)
      BY Assoc
    <3> QED BY <3>1, <3>2, <3>3 DEF Associates, Whole
  <2>2. (a \o v)[1] = a[1]
    <3>1. 1 \in 1 .. Len(a) + Len(v) /\ 1 <= Len(a)
      BY <1>1, <1>3, LenProperties DEF Wires
    <3> QED BY <3>1, ConcatProperties DEF Wires
  <2> QED BY <2>1, <2>2, LineTyped
<1>5. n # 1
  <2>1. n = 1 => a[n] = NL \/ n = MAXLINE - 1
    BY <1>1 DEF LineEnds, NL
  <2> QED BY <1>4, <2>1, ClientsAssumption
<1>6. x = 0 /\ y = 0 /\ z = 0
  BY <1>2, <1>3, <1>5
<1> QED BY <1>1, <1>4, <1>6, EmptyWire DEF WholeLine

(* The command is executed at the end of the line. *)
LEMMA LineEndWire ==
    ASSUME NEW k, NEW s, NEW ts, NEW tc, Wire(k, s, ts, tc), s.pc = "read",
           NEW p \in Wires, p # <<>>, NEW rio, IsRio(rio), p \o rio.rio_buf = s.rio.rio_buf,
           NEW line \in Wires, line = s.line \o p, LineEnds(line, MAXLINE),
           NEW s2, s2 = NewService("write", rio, line, Answer(line[1]))
    PROVE  Wire(k, s2, ts, tc)
<1>1. IsClient(k) /\ IsService(s) /\ ts \in Wires /\ tc \in Wires
  BY DEF Wire
<1>2. PICK a, b, e \in Wires : a = s.line /\ b = rio.rio_buf /\ e = k.out
  BY <1>1 DEF IsService, IsClient, IsRio
<1>3. line # <<>> /\ line[1] \in Bytes
  <2>1. line # <<>>
    BY <1>2, ConcatEqualIffEmpty DEF Wires
  <2> QED BY <2>1, ElementOfSeq, EmptyWire, LenProperties DEF Wires
<1>4. PICK w \in Wires : w = Answer(line[1]) /\ w # <<>>
  BY <1>3, AnswerTyped
<1>5. ServiceHas(s2, "write", rio, line, w)
  BY <1>4, ServiceIs
<1>6. IsService(s2) /\ s2.pc = "write" /\ s2.rio = rio /\ s2.line = line /\ s2.out = w
  BY <1>5 DEF ServiceHas
<1>7. CASE k.pc \notin InUse
  BY <1>1, <1>4, <1>6, <1>7 DEF Wire
<1>8. CASE k.pc \in InUse
  <2>1. Asking(k, s, ts) = line \o b \o ts \o e
    <3>1. MovedToFirst(a, p, b, ts, e)
      BY <1>1, MoveToFirst
    <3>2. Asking(k, s, ts) = a \o (p \o b) \o ts \o e
      BY <1>2 DEF Asking
    <3> QED BY <1>2, <3>1, <3>2 DEF MovedToFirst
  <2>2. Asking(k, s, ts) # <<>>
    BY <1>1, <1>2, <1>3, <2>1, WholeEmpty
  <2>3. Asking(k, s, ts) = Line(k.order) /\ Telling(k, s, tc) = <<>> /\ k.pc \in {"write", "read"}
    BY <1>8, <2>2 DEF Wire, Carries
  <2>4. PICK o \in Typed : o = k.order
    BY <1>1 DEF IsClient
  <2>5. line[1] = k.order /\ b = <<>> /\ ts = <<>> /\ e = <<>>
    <3>1. Whole(line, b, ts, e) = Line(o)
      BY <2>1, <2>3, <2>4 DEF Whole
    <3>2. line \in Wires /\ b \in Wires /\ ts \in Wires /\ e \in Wires
      BY <1>1, <1>2
    <3>3. WholeLine(o, line, b, ts, e)
      BY <1>3, <3>1, <3>2, LineWhole
    <3> QED BY <2>4, <3>3 DEF WholeLine
  <2>6. k.pc = "read"
    BY <1>2, <2>3, <2>5 DEF Wire
  <2>7. Parted(k, s, ts, tc) /\ Parted(k, s2, ts, tc)
    BY <1>1, <1>6, Parts
  <2>8. Asking(k, s2, ts) = <<>>
    BY <1>2, <1>6, <2>5, <2>7 DEF Parted
  <2>9. Telling(k, s2, tc) = Answer(k.order)
    <3>1. k.buf = <<>> /\ k.rio.rio_buf = <<>> /\ tc = <<>>
      BY <2>3, <2>6, <2>7 DEF Parted
    <3>2. Telling(k, s2, tc) = <<>> \o <<>> \o <<>> \o w
      BY <1>6, <2>6, <3>1 DEF Telling
    <3> QED BY <1>4, <2>5, <3>2, ConcatEmptySeq, EmptyWire DEF Wires
  <2> QED BY <1>1, <1>4, <1>6, <2>6, <2>8, <2>9 DEF Wire, Carries
<1> QED BY <1>7, <1>8

(* rio_writen() of the server moves bytes of the answer to the connection. *)
LEMMA AnswerWriteWire ==
    ASSUME NEW k, NEW s, NEW ts, NEW tc, Wire(k, s, ts, tc), s.pc = "write",
           NEW p \in Wires, NEW d \in Wires, p \o d = s.out,
           Len(tc \o p) <= SocketBuffer,
           NEW line, line = IF d = <<>> THEN <<>> ELSE s.line,
           NEW s2, s2 = NewService(AfterAnswer(d), s.rio, line, d)
    PROVE  Wire(k, s2, ts, tc \o p)
<1>1. IsClient(k) /\ IsService(s) /\ ts \in Wires /\ tc \in Wires
  BY DEF Wire
<1>2. ServiceHas(s2, AfterAnswer(d), s.rio, line, d)
  <2>1. IsRio(s.rio) /\ line \in Wires
    BY <1>1, EmptyWire DEF IsService
  <2>2. AfterAnswer(d) \in {"none", "read", "write", "closed"}
    BY DEF AfterAnswer
  <2> QED BY <2>1, <2>2, ServiceIs
<1>3. IsService(s2) /\ s2.pc = AfterAnswer(d) /\ s2.rio = s.rio /\ s2.line = line /\ s2.out = d
  BY <1>2 DEF ServiceHas
<1>4. tc \o p \in Wires
  BY <1>1, WholeTyped
<1>41. Fits(k, ts, tc \o p)
  BY DEF Wire, Fits
<1>5. CASE k.pc \notin InUse
  BY <1>1, <1>3, <1>4, <1>41, <1>5 DEF Wire, AfterAnswer
<1>6. CASE k.pc \in InUse
  <2>1. Parted(k, s, ts, tc) /\ Parted(k, s2, ts, tc \o p)
    BY <1>1, <1>3, <1>4, Parts
  <2>2. s.out # <<>>
    BY DEF Wire
  <2>3. Telling(k, s, tc) # <<>>
    BY <2>1, <2>2 DEF Parted
  <2>4. k.pc = "read" /\ Asking(k, s, ts) = <<>> /\ Telling(k, s, tc) = Answer(k.order)
    BY <1>6, <2>3 DEF Wire, Carries
  <2>5. Asking(k, s2, ts) = <<>>
    BY <1>3, <2>1, <2>4 DEF Parted, AfterAnswer
  <2>6. Telling(k, s2, tc \o p) = Telling(k, s, tc)
    <3>1. PICK a, b \in Wires : a = k.buf /\ b = k.rio.rio_buf
      BY <2>1 DEF Parted
    <3>2. MovedToThird(a, b, tc, p, d)
      BY <1>1, <3>1, MoveToThird
    <3>3. Telling(k, s2, tc \o p) = a \o b \o (tc \o p) \o d
      BY <1>3, <2>4, <3>1 DEF Telling, AfterAnswer
    <3>4. Telling(k, s, tc) = a \o b \o tc \o (p \o d)
      BY <2>4, <3>1 DEF Telling
    <3> QED BY <3>2, <3>3, <3>4 DEF MovedToThird
  <2> QED BY <1>1, <1>3, <1>4, <1>41, <2>4, <2>5, <2>6 DEF Wire, Carries, AfterAnswer
<1> QED BY <1>5, <1>6

(* rio_readnb() takes bytes off the connection into its buffer. *)
LEMMA ReadRefillWire ==
    ASSUME NEW k, NEW s, NEW ts, NEW tc, Wire(k, s, ts, tc), k.pc = "read", k.rio.rio_buf = <<>>,
           NEW rio, IsRio(rio), NEW d \in Wires, rio.rio_buf \o d = tc,
           Len(rio.rio_buf) <= RIO_BUFSIZE,
           NEW k2, k2 = NewClient("read", k.order, k.left, k.out, rio, k.buf)
    PROVE  Wire(k2, s, ts, d)
<1>1. IsClient(k) /\ IsService(s) /\ ts \in Wires /\ tc \in Wires
  BY DEF Wire
<1>2. ClientHas(k2, "read", k.order, k.left, k.out, rio, k.buf)
  <2>1. k.order \in Typed /\ k.out \in Wires /\ k.buf \in Wires /\ Len(k.buf) < MAXLINE
    BY <1>1, ClientFields
  <2> QED BY <2>1, ClientIs
<1>3. /\ IsClient(k2) /\ k2.pc = "read" /\ k2.order = k.order /\ k2.out = k.out /\ k2.rio = rio
      /\ k2.buf = k.buf /\ k2.left = k.left
  BY <1>2 DEF ClientHas
<1>4. Asking(k2, s, ts) = Asking(k, s, ts)
  BY <1>3 DEF Asking
<1>5. Telling(k2, s, d) = Telling(k, s, tc)
  <2>1. PICK a, b, e \in Wires :
          a = k.buf /\ b = rio.rio_buf /\ e = IF s.pc = "write" THEN s.out ELSE <<>>
    BY <1>1, EmptyWire DEF IsClient, IsService, IsRio
  <2>2. MovedToSecond(a, b, d, e)
    BY <2>1, MoveToSecond
  <2>3. Telling(k2, s, d) = a \o b \o d \o e
    BY <1>3, <2>1 DEF Telling
  <2>4. Telling(k, s, tc) = a \o <<>> \o (b \o d) \o e
    BY <2>1 DEF Telling
  <2> QED BY <2>2, <2>3, <2>4 DEF MovedToSecond
<1>6. Len(d) <= Len(tc)
  BY SuffixLength DEF IsRio
<1>7. Fits(k2, ts, d)
  <2>1. Fits(k, ts, tc) /\ k.rio.rio_buf \in Wires /\ rio.rio_buf \in Wires
    BY <1>1 DEF Wire, IsClient, IsRio
  <2> QED BY <1>1, <1>3, <1>6, <2>1, FitsOther
<1> QED BY <1>1, <1>3, <1>4, <1>5, <1>7 DEF Wire, Carries

(* rio_readnb() takes bytes out of its buffer, and the client wants more. *)
LEMMA ReadCopyWire ==
    ASSUME NEW k, NEW s, NEW ts, NEW tc, Wire(k, s, ts, tc), k.pc = "read",
           NEW p \in Wires, NEW rio, IsRio(rio), p \o rio.rio_buf = k.rio.rio_buf,
           Len(k.buf) + Len(p) < MAXLINE,
           NEW k2, k2 = NewClient("read", k.order, k.left, k.out, rio, k.buf \o p)
    PROVE  Wire(k2, s, ts, tc)
<1>1. IsClient(k) /\ IsService(s) /\ ts \in Wires /\ tc \in Wires
  BY DEF Wire
<1>2. PICK a, b, e \in Wires :
        a = k.buf /\ b = rio.rio_buf /\ e = IF s.pc = "write" THEN s.out ELSE <<>>
  BY <1>1, EmptyWire DEF IsClient, IsService, IsRio
<1>3. ClientHas(k2, "read", k.order, k.left, k.out, rio, a \o p)
  <2>1. k.order \in Typed /\ k.out \in Wires
    BY <1>1, ClientFields
  <2>2. a \o p \in Wires /\ Len(a \o p) < MAXLINE
    BY <1>2, ConcatProperties DEF Wires
  <2> QED BY <1>2, <2>1, <2>2, ClientIs
<1>4. /\ IsClient(k2) /\ k2.pc = "read" /\ k2.order = k.order /\ k2.out = k.out /\ k2.rio = rio
      /\ k2.buf = a \o p /\ k2.left = k.left
  BY <1>3 DEF ClientHas
<1>5. Asking(k2, s, ts) = Asking(k, s, ts)
  BY <1>4 DEF Asking
<1>6. Telling(k2, s, tc) = Telling(k, s, tc)
  <2>1. MovedToFirst(a, p, b, tc, e)
    BY <1>1, <1>2, MoveToFirst
  <2>2. Telling(k2, s, tc) = (a \o p) \o b \o tc \o e
    BY <1>2, <1>4 DEF Telling
  <2>3. Telling(k, s, tc) = a \o (p \o b) \o tc \o e
    BY <1>2 DEF Telling
  <2> QED BY <2>1, <2>2, <2>3 DEF MovedToFirst
<1>7. Fits(k2, ts, tc)
  <2>1. Len(rio.rio_buf) <= Len(k.rio.rio_buf)
    BY SuffixLength DEF IsRio
  <2>2. Fits(k, ts, tc) /\ k.rio.rio_buf \in Wires /\ rio.rio_buf \in Wires
    BY <1>1 DEF Wire, IsClient, IsRio
  <2>3. Len(tc) <= Len(tc)
    BY <1>1, LenProperties DEF Wires
  <2> QED BY <1>1, <1>4, <2>1, <2>2, <2>3, FitsOther
<1> QED BY <1>1, <1>4, <1>5, <1>6, <1>7 DEF Wire, Carries

(* After MAXLINE bytes the client has all of the answer, and nothing follows it. *)
LEMMA ReadEndWire ==
    ASSUME NEW k, NEW s, NEW ts, NEW tc, Wire(k, s, ts, tc), k.pc = "read",
           NEW p \in Wires, NEW rio, IsRio(rio), p \o rio.rio_buf = k.rio.rio_buf,
           Len(k.buf) + Len(p) = MAXLINE,
           NEW k2, k2 = NewClient("order", "show", k.left, k.out, rio, <<>>)
    PROVE  Wire(k2, s, ts, tc)
<1>1. IsClient(k) /\ IsService(s) /\ ts \in Wires /\ tc \in Wires /\ k.out = <<>>
  BY DEF Wire
<1>2. ClientHas(k2, "order", "show", k.left, <<>>, rio, <<>>)
  <2>1. "show" \in Typed /\ <<>> \in Wires /\ Len(<<>>) < MAXLINE
    BY EmptyWire, ClientsAssumption DEF Typed, Orders
  <2> QED BY <1>1, <2>1, ClientIs
<1>3. /\ IsClient(k2) /\ k2.pc = "order" /\ k2.out = <<>> /\ k2.rio = rio
      /\ k2.left = k.left
  BY <1>2 DEF ClientHas
<1>31. Fits(k2, ts, tc)
  <2>1. Len(rio.rio_buf) <= Len(k.rio.rio_buf)
    BY SuffixLength DEF IsRio
  <2>2. Fits(k, ts, tc) /\ k.rio.rio_buf \in Wires /\ rio.rio_buf \in Wires
    BY <1>1 DEF Wire, IsClient, IsRio
  <2>3. Len(tc) <= Len(tc)
    BY <1>1, LenProperties DEF Wires
  <2> QED BY <1>1, <1>3, <2>1, <2>2, <2>3, FitsOther
<1>4. CASE s.pc = "closed"
  BY <1>1, <1>3, <1>31, <1>4 DEF Wire
<1>5. CASE s.pc # "closed"
  <2>1. PICK a, b, e \in Wires :
          a = k.buf /\ b = rio.rio_buf /\ e = IF s.pc = "write" THEN s.out ELSE <<>>
    BY <1>1, EmptyWire DEF IsClient, IsService, IsRio
  <2>2. PICK w \in Wires : w = a \o p /\ Len(w) = MAXLINE
    BY <2>1, ConcatProperties DEF Wires
  <2>3. Telling(k, s, tc) = Whole(w, b, tc, e)
    <3>1. MovedToFirst(a, p, b, tc, e)
      BY <1>1, <2>1, MoveToFirst
    <3>2. Telling(k, s, tc) = a \o (p \o b) \o tc \o e
      BY <2>1 DEF Telling
    <3> QED BY <2>2, <3>1, <3>2 DEF MovedToFirst, Whole
  <2>4. /\ Whole(w, b, tc, e) \in Wires
        /\ Len(Whole(w, b, tc, e)) = MAXLINE + Len(b) + Len(tc) + Len(e)
    <3>1. HasLength(w, b, tc, e)
      BY <1>1, <2>1, <2>2, WholeLength
    <3> QED BY <2>2, <3>1 DEF HasLength
  <2>5. Len(b) \in Nat /\ Len(tc) \in Nat /\ Len(e) \in Nat /\ MAXLINE \in Nat /\ MAXLINE > 2
    BY <1>1, <2>1, LenProperties, ClientsAssumption DEF Wires
  <2>6. Telling(k, s, tc) # <<>>
    BY <2>3, <2>4, <2>5, EmptyWire
  <2>7. Asking(k, s, ts) = <<>> /\ Telling(k, s, tc) = Answer(k.order)
    BY <1>5, <2>6 DEF Wire, Carries, InUse
  <2>8. Len(Telling(k, s, tc)) = MAXLINE
    <3>1. k.order \in Bytes
      BY <1>1, LineTyped DEF IsClient
    <3> QED BY <2>7, <3>1, AnswerTyped
  <2>9. b = <<>> /\ tc = <<>> /\ e = <<>>
    <3>1. Len(b) = 0 /\ Len(tc) = 0 /\ Len(e) = 0
      BY <2>3, <2>4, <2>5, <2>8
    <3> QED BY <1>1, <2>1, <3>1, EmptyWire
  <2>10. Parted(k2, s, ts, tc) /\ Parted(k, s, ts, tc)
    BY <1>1, <1>3, Parts
  <2>11. Asking(k2, s, ts) = <<>>
    BY <1>3, <2>7, <2>10 DEF Parted
  <2>12. Telling(k2, s, tc) = <<>>
    BY <1>3, <2>1, <2>9, <2>10 DEF Parted
  <2> QED BY <1>1, <1>3, <1>31, <1>5, <2>11, <2>12 DEF Wire, Carries, InUse
<1> QED BY <1>4, <1>5

(* A connection that the server has closed carries nothing that matters. *)
LEMMA ClosedWire ==
    ASSUME NEW k, NEW s, NEW ts, NEW tc, Wire(k, s, ts, tc), s.pc = "closed",
           NEW d \in Wires, Len(d) <= SocketBuffer,
           NEW pc, pc # "write", NEW order \in Typed, NEW left \in Nat,
           NEW rio, IsRio(rio), Len(rio.rio_buf) <= RIO_BUFSIZE,
           NEW k2, k2 = NewClient(pc, order, left, <<>>, rio, <<>>)
    PROVE  Wire(k2, s, ts, d)
<1>1. IsClient(k) /\ IsService(s) /\ ts \in Wires /\ tc \in Wires
  BY DEF Wire
<1>2. ClientHas(k2, pc, order, left, <<>>, rio, <<>>)
  <2>1. <<>> \in Wires /\ Len(<<>>) < MAXLINE
    BY EmptyWire, ClientsAssumption
  <2> QED BY <2>1, ClientIs
<1>3. IsClient(k2) /\ k2.pc = pc /\ k2.out = <<>> /\ k2.left = left /\ k2.rio = rio
  BY <1>2 DEF ClientHas
<1> QED BY <1>1, <1>3 DEF Wire, Fits

(* Nor does the connection of a client that is not there, or that has ended. *)
LEMMA IdleWire ==
    ASSUME NEW s, IsService(s), s.pc = "write" => s.out # <<>>, NEW ts \in Wires, NEW tc \in Wires,
           Len(ts) <= SocketBuffer, Len(tc) <= SocketBuffer,
           NEW pc, pc \notin InUse, NEW left \in Nat,
           NEW k2, k2 = NewClient(pc, "show", left, <<>>, rio_readinitb, <<>>)
    PROVE  Wire(k2, s, ts, tc)
<1>1. ClientHas(k2, pc, "show", left, <<>>, rio_readinitb, <<>>)
  <2>1. <<>> \in Wires /\ Len(<<>>) < MAXLINE /\ "show" \in Typed
    BY EmptyWire, ClientsAssumption DEF Typed, Orders
  <2>2. IsRio(rio_readinitb)
    BY EmptyWire DEF IsRio, rio_readinitb
  <2> QED BY <2>1, <2>2, ClientIs
<1>2. /\ IsClient(k2) /\ k2.pc = pc /\ k2.out = <<>> /\ k2.left = left
      /\ k2.rio = rio_readinitb
  BY <1>1 DEF ClientHas
<1>3. Len(rio_readinitb.rio_buf) <= RIO_BUFSIZE
  BY EmptyWire, RioAssumption DEF rio_readinitb
<1> QED BY <1>2, <1>3 DEF Wire, InUse, Fits

(* The next order. *)
LEMMA OrderWire ==
    ASSUME NEW k, NEW s, NEW ts, NEW tc, Wire(k, s, ts, tc), k.pc = "order",
           NEW order \in Typed, NEW left \in Nat,
           NEW k2, k2 = NewClient("write", order, left, Line(order), k.rio, k.buf)
    PROVE  Wire(k2, s, ts, tc)
<1>1. IsClient(k) /\ IsService(s) /\ ts \in Wires /\ tc \in Wires
  BY DEF Wire
<1>2. PICK e \in Wires : e = Line(order) /\ e # <<>>
  BY LineTyped
<1>3. ClientHas(k2, "write", order, left, e, k.rio, k.buf)
  <2>1. IsRio(k.rio) /\ k.buf \in Wires /\ Len(k.buf) < MAXLINE
    BY <1>1, ClientFields
  <2> QED BY <1>2, <2>1, ClientIs
<1>4. /\ IsClient(k2) /\ k2.pc = "write" /\ k2.order = order /\ k2.out = e /\ k2.rio = k.rio
      /\ k2.left = left
  BY <1>3 DEF ClientHas
<1>41. Fits(k2, ts, tc)
  BY <1>4 DEF Wire, Fits
<1>5. CASE s.pc = "closed"
  BY <1>1, <1>2, <1>4, <1>41, <1>5 DEF Wire
<1>6. CASE s.pc # "closed"
  <2>1. Asking(k, s, ts) = <<>> /\ Telling(k, s, tc) = <<>>
    BY <1>6 DEF Wire, Carries, InUse
  <2>2. Parted(k, s, ts, tc) /\ Parted(k2, s, ts, tc)
    BY <1>1, <1>4, Parts
  <2>3. Telling(k2, s, tc) = <<>>
    BY <1>4, <2>1, <2>2 DEF Parted
  <2>4. Asking(k2, s, ts) = e
    <3>1. Asking(k2, s, ts) = <<>> \o <<>> \o <<>> \o e
      BY <1>4, <2>1, <2>2 DEF Parted, Asking
    <3>2. <<>> \o <<>> = <<>> /\ <<>> \o e = e
      BY ConcatEmptySeq, EmptyWire DEF Wires
    <3> QED BY <3>1, <3>2
  <2> QED BY <1>1, <1>2, <1>4, <1>41, <1>6, <2>3, <2>4 DEF Wire, Carries, InUse
<1> QED BY <1>5, <1>6

(* A connection begins. *)
LEMMA OpenWire ==
    ASSUME NEW k, NEW s, NEW ts, NEW tc, Wire(k, s, ts, tc), k.pc = "connect", NEW k2, NEW s2,
           k2 = NewClient("order", k.order, k.left, k.out, rio_readinitb, k.buf),
           s2 = NewService("read", rio_readinitb, <<>>, <<>>)
    PROVE  Wire(k2, s2, <<>>, <<>>)
<1>1. IsClient(k) /\ k.out = <<>>
  BY DEF Wire
<1>2. <<>> \in Wires /\ IsRio(rio_readinitb) /\ rio_readinitb.rio_buf = <<>>
  BY EmptyWire DEF IsRio, rio_readinitb
<1>3. ClientHas(k2, "order", k.order, k.left, <<>>, rio_readinitb, k.buf)
  <2>1. k.order \in Typed /\ k.buf \in Wires /\ Len(k.buf) < MAXLINE
    BY <1>1, ClientFields
  <2> QED BY <1>1, <1>2, <2>1, ClientIs
<1>4. ServiceHas(s2, "read", rio_readinitb, <<>>, <<>>)
  BY <1>2, ServiceIs
<1>5. /\ IsClient(k2) /\ k2.pc = "order" /\ k2.out = <<>> /\ k2.rio = rio_readinitb
      /\ k2.left = k.left
      /\ IsService(s2) /\ s2.pc = "read" /\ s2.rio = rio_readinitb /\ s2.line = <<>>
  BY <1>3, <1>4 DEF ClientHas, ServiceHas
<1>6. Parted(k2, s2, <<>>, <<>>)
  BY <1>2, <1>5, Parts
<1>7. Asking(k2, s2, <<>>) = <<>> /\ Telling(k2, s2, <<>>) = <<>>
  BY <1>2, <1>5, <1>6 DEF Parted
<1>8. Fits(k2, <<>>, <<>>)
  BY <1>2, <1>5, EmptyWire, RioAssumption, ClientsAssumption DEF Wire, Fits
<1> QED BY <1>2, <1>5, <1>7, <1>8 DEF Wire, Carries, InUse

-----------------------------------------------------------------------------
(***************************************************************************)
(* The steps of the clients and of the server.                             *)
(***************************************************************************)
Puts(old, new, c, v) == new = [x \in Clients |-> IF x = c THEN v ELSE old[x]]

At(c, k, s, ts, tc) ==
    /\ k = client[c] /\ s = service[c] /\ ts = toServer[c] /\ tc = toClient[c]
    /\ Wire(k, s, ts, tc) /\ Fits(k, ts, tc)
    /\ IsClient(k) /\ IsService(s) /\ ts \in Wires /\ tc \in Wires

LEMMA WireAt ==
    ASSUME WireInv, NEW c \in Clients
    PROVE  \E k, s, ts, tc : At(c, k, s, ts, tc)
BY DEF WireInv, At, Wire

LEMMA PutsOne ==
    ASSUME NEW c \in Clients, NEW f, f = [x \in Clients |-> f[x]], NEW v,
           NEW g, g = [f EXCEPT ![c] = v]
    PROVE  Puts(f, g, c, v)
BY DEF Puts

LEMMA PutsNone ==
    ASSUME NEW c \in Clients, NEW f, f = [x \in Clients |-> f[x]], NEW g, g = f
    PROVE  Puts(f, g, c, f[c])
BY DEF Puts

LEMMA WireStep ==
    ASSUME WireInv, NEW c \in Clients, NEW k, NEW s, NEW ts, NEW tc, Wire(k, s, ts, tc),
           Puts(client, client', c, k), Puts(service, service', c, s),
           Puts(toServer, toServer', c, ts), Puts(toClient, toClient', c, tc)
    PROVE  WireInv'
<1>1. /\ client' = [x \in Clients |-> client'[x]] /\ service' = [x \in Clients |-> service'[x]]
      /\ toServer' = [x \in Clients |-> toServer'[x]]
      /\ toClient' = [x \in Clients |-> toClient'[x]]
  BY DEF Puts
<1>2. ASSUME NEW x \in Clients
      PROVE  Wire(client'[x], service'[x], toServer'[x], toClient'[x])
  <2>1. CASE x = c
    <3>1. client'[x] = k /\ service'[x] = s /\ toServer'[x] = ts /\ toClient'[x] = tc
      BY <2>1 DEF Puts
    <3> QED BY <3>1
  <2>2. CASE x # c
    <3>1. /\ client'[x] = client[x] /\ service'[x] = service[x]
          /\ toServer'[x] = toServer[x] /\ toClient'[x] = toClient[x]
      BY <2>2 DEF Puts
    <3>2. Wire(client[x], service[x], toServer[x], toClient[x])
      BY DEF WireInv
    <3> QED BY <3>1, <3>2
  <2> QED BY <2>1, <2>2
<1> QED BY <1>1, <1>2 DEF WireInv

(* The records after a step, whatever its right-hand sides are. *)
ClientUpdates(k, p, o, l, u, r, b) ==
    /\ [k EXCEPT !.pc = p, !.rio = r] = NewClient(p, k.order, k.left, k.out, r, k.buf)
    /\ [k EXCEPT !.pc = p, !.order = o, !.out = u, !.left = l]
         = NewClient(p, o, l, u, k.rio, k.buf)
    /\ [k EXCEPT !.out = u, !.pc = p, !.buf = b] = NewClient(p, k.order, k.left, u, k.rio, b)
    /\ [k EXCEPT !.pc = p, !.order = o, !.buf = b] = NewClient(p, o, k.left, k.out, k.rio, b)
    /\ [k EXCEPT !.rio = r] = NewClient(k.pc, k.order, k.left, k.out, r, k.buf)
    /\ [k EXCEPT !.buf = b] = NewClient(k.pc, k.order, k.left, k.out, k.rio, b)

LEMMA ClientUpdate ==
    ASSUME NEW k, IsClient(k), NEW p, NEW o, NEW l, NEW u, NEW r, NEW b
    PROVE  ClientUpdates(k, p, o, l, u, r, b)
<1>1. PICK p0, o0, l0, u0, r0, b0 : k = [pc |-> p0, order |-> o0, left |-> l0, out |-> u0,
                                         rio |-> r0, buf |-> b0]
  BY DEF IsClient
<1>2. k.pc = p0 /\ k.order = o0 /\ k.left = l0 /\ k.out = u0 /\ k.rio = r0 /\ k.buf = b0
  BY <1>1
<1>3. [k EXCEPT !.pc = p, !.rio = r] = NewClient(p, o0, l0, u0, r, b0)
  <2>1. PICK x : x = [k EXCEPT !.pc = p, !.rio = r]
    OBVIOUS
  <2>2. x = [[pc |-> p0, order |-> o0, left |-> l0, out |-> u0, rio |-> r0, buf |-> b0]
               EXCEPT !.pc = p, !.rio = r]
    BY <1>1, <2>1
  <2>3. x = NewClient(p, o0, l0, u0, r, b0)
    BY <2>2 DEF NewClient
  <2> QED BY <2>1, <2>3
<1>4. [k EXCEPT !.pc = p, !.order = o, !.out = u, !.left = l] = NewClient(p, o, l, u, r0, b0)
  <2>1. PICK x : x = [k EXCEPT !.pc = p, !.order = o, !.out = u, !.left = l]
    OBVIOUS
  <2>2. x = [[pc |-> p0, order |-> o0, left |-> l0, out |-> u0, rio |-> r0, buf |-> b0]
               EXCEPT !.pc = p, !.order = o, !.out = u, !.left = l]
    BY <1>1, <2>1
  <2>3. x = NewClient(p, o, l, u, r0, b0)
    BY <2>2 DEF NewClient
  <2> QED BY <2>1, <2>3
<1>5. [k EXCEPT !.out = u, !.pc = p, !.buf = b] = NewClient(p, o0, l0, u, r0, b)
  <2>1. PICK x : x = [k EXCEPT !.out = u, !.pc = p, !.buf = b]
    OBVIOUS
  <2>2. x = [[pc |-> p0, order |-> o0, left |-> l0, out |-> u0, rio |-> r0, buf |-> b0]
               EXCEPT !.out = u, !.pc = p, !.buf = b]
    BY <1>1, <2>1
  <2>3. x = NewClient(p, o0, l0, u, r0, b)
    BY <2>2 DEF NewClient
  <2> QED BY <2>1, <2>3
<1>6. [k EXCEPT !.pc = p, !.order = o, !.buf = b] = NewClient(p, o, l0, u0, r0, b)
  <2>1. PICK x : x = [k EXCEPT !.pc = p, !.order = o, !.buf = b]
    OBVIOUS
  <2>2. x = [[pc |-> p0, order |-> o0, left |-> l0, out |-> u0, rio |-> r0, buf |-> b0]
               EXCEPT !.pc = p, !.order = o, !.buf = b]
    BY <1>1, <2>1
  <2>3. x = NewClient(p, o, l0, u0, r0, b)
    BY <2>2 DEF NewClient
  <2> QED BY <2>1, <2>3
<1>7. [k EXCEPT !.rio = r] = NewClient(p0, o0, l0, u0, r, b0)
  <2>1. PICK x : x = [k EXCEPT !.rio = r]
    OBVIOUS
  <2>2. x = [[pc |-> p0, order |-> o0, left |-> l0, out |-> u0, rio |-> r0, buf |-> b0]
               EXCEPT !.rio = r]
    BY <1>1, <2>1
  <2>3. x = NewClient(p0, o0, l0, u0, r, b0)
    BY <2>2 DEF NewClient
  <2> QED BY <2>1, <2>3
<1>8. [k EXCEPT !.buf = b] = NewClient(p0, o0, l0, u0, r0, b)
  <2>1. PICK x : x = [k EXCEPT !.buf = b]
    OBVIOUS
  <2>2. x = [[pc |-> p0, order |-> o0, left |-> l0, out |-> u0, rio |-> r0, buf |-> b0]
               EXCEPT !.buf = b]
    BY <1>1, <2>1
  <2>3. x = NewClient(p0, o0, l0, u0, r0, b)
    BY <2>2 DEF NewClient
  <2> QED BY <2>1, <2>3
<1> QED BY <1>2, <1>3, <1>4, <1>5, <1>6, <1>7, <1>8 DEF ClientUpdates

ServiceUpdates(s, p, r, n, u) ==
    /\ [s EXCEPT !.rio = r, !.pc = p] = NewService(p, r, s.line, s.out)
    /\ [s EXCEPT !.rio = r, !.line = n, !.pc = p, !.out = u] = NewService(p, r, n, u)
    /\ [s EXCEPT !.out = u, !.pc = p, !.line = n] = NewService(p, s.rio, n, u)

LEMMA ServiceUpdate ==
    ASSUME NEW s, IsService(s), NEW p, NEW r, NEW n, NEW u
    PROVE  ServiceUpdates(s, p, r, n, u)
<1>1. PICK p0, r0, n0, u0 : s = [pc |-> p0, rio |-> r0, line |-> n0, out |-> u0]
  BY DEF IsService
<1>2. s.pc = p0 /\ s.rio = r0 /\ s.line = n0 /\ s.out = u0
  BY <1>1
<1>3. [s EXCEPT !.rio = r, !.pc = p] = NewService(p, r, n0, u0)
  <2>1. PICK x : x = [s EXCEPT !.rio = r, !.pc = p]
    OBVIOUS
  <2>2. x = [[pc |-> p0, rio |-> r0, line |-> n0, out |-> u0] EXCEPT !.rio = r, !.pc = p]
    BY <1>1, <2>1
  <2>3. x = NewService(p, r, n0, u0)
    BY <2>2 DEF NewService
  <2> QED BY <2>1, <2>3
<1>4. [s EXCEPT !.rio = r, !.line = n, !.pc = p, !.out = u] = NewService(p, r, n, u)
  <2>1. PICK x : x = [s EXCEPT !.rio = r, !.line = n, !.pc = p, !.out = u]
    OBVIOUS
  <2>2. x = [[pc |-> p0, rio |-> r0, line |-> n0, out |-> u0]
               EXCEPT !.rio = r, !.line = n, !.pc = p, !.out = u]
    BY <1>1, <2>1
  <2>3. x = NewService(p, r, n, u)
    BY <2>2 DEF NewService
  <2> QED BY <2>1, <2>3
<1>5. [s EXCEPT !.out = u, !.pc = p, !.line = n] = NewService(p, r0, n, u)
  <2>1. PICK x : x = [s EXCEPT !.out = u, !.pc = p, !.line = n]
    OBVIOUS
  <2>2. x = [[pc |-> p0, rio |-> r0, line |-> n0, out |-> u0]
               EXCEPT !.out = u, !.pc = p, !.line = n]
    BY <1>1, <2>1
  <2>3. x = NewService(p, r0, n, u)
    BY <2>2 DEF NewService
  <2> QED BY <2>1, <2>3
<1> QED BY <1>2, <1>3, <1>4, <1>5 DEF ServiceUpdates

LEMMA RioWritenStep ==
    ASSUME WireInv, NEW c \in Clients, RioWriten(c)
    PROVE  WireInv'
<1>1. PICK k, s, ts, tc : At(c, k, s, ts, tc)
  BY WireAt
<1>2. k.pc = "write" /\ s.pc # "closed"
  BY <1>1 DEF RioWriten, At
<1>3. PICK j \in 0 .. Least(Len(client[c].out), SocketBuffer - Len(toServer[c])) :
        /\ client' = [client EXCEPT ![c] = [client[c] EXCEPT !.out = Drop(client[c].out, j),
                        !.pc = AfterOrder(Drop(client[c].out, j)), !.buf = <<>>]]
        /\ toServer' = [toServer EXCEPT ![c] = toServer[c] \o SubSeq(client[c].out, 1, j)]
  BY DEF RioWriten, AfterWrite
<1>4. PICK u : u = k.out /\ u \in Wires /\ j \in 0 .. Len(u)
  <2>1. /\ k.out \in Wires /\ Len(k.out) \in Nat /\ Len(toServer[c]) \in Nat
        /\ SocketBuffer \in Nat
    BY <1>1, LenProperties, ClientsAssumption DEF At, IsClient, Wires
  <2> QED BY <1>1, <1>3, <2>1 DEF Least, At
<1>5. PICK p, d \in Wires : p = SubSeq(u, 1, j) /\ d = Drop(u, j) /\ p \o d = u
  <2>1. IsCut(u, j)
    BY <1>4, CutWire
  <2> QED BY <2>1 DEF IsCut
<1>6. PICK k2 : k2 = NewClient(AfterOrder(d), k.order, k.left, d, k.rio, <<>>)
  OBVIOUS
<1>61. Len(ts \o p) <= SocketBuffer
  <2>1. j \in Nat /\ j <= SocketBuffer - Len(ts) /\ Len(ts) \in Nat /\ SocketBuffer \in Nat
    BY <1>1, <1>3, <1>4, LenProperties, ClientsAssumption DEF At, Least, Wires
  <2>2. IsCut(u, j)
    BY <1>4, CutWire
  <2>3. Len(p) = j
    BY <1>5, <2>2 DEF IsCut
  <2>4. Len(ts \o p) = Len(ts) + Len(p)
    BY <1>1, SuffixLength DEF At
  <2> QED BY <2>1, <2>3, <2>4
<1>7. Wire(k2, s, ts \o p, tc)
  BY <1>61, <1>1, <1>2, <1>4, <1>5, <1>6, WriteWire DEF At
<1>8. k2 = [k EXCEPT !.out = d, !.pc = AfterOrder(d), !.buf = <<>>]
  <2>1. ClientUpdates(k, AfterOrder(d), "show", 0, d, rio_readinitb, <<>>)
    BY <1>1, ClientUpdate DEF At
  <2> QED BY <1>6, <2>1 DEF ClientUpdates
<1>9. client' = [client EXCEPT ![c] = k2] /\ toServer' = [toServer EXCEPT ![c] = ts \o p]
  BY <1>1, <1>3, <1>4, <1>5, <1>8 DEF At
<1>10. Puts(client, client', c, k2) /\ Puts(toServer, toServer', c, ts \o p)
  BY <1>9, PutsOne DEF WireInv
<1>11. Puts(service, service', c, s) /\ Puts(toClient, toClient', c, tc)
  BY <1>1, PutsNone DEF WireInv, RioWriten, At
<1> QED BY <1>7, <1>10, <1>11, WireStep

LEMMA NoClientIs ==
    ASSUME NEW p, NEW l
    PROVE  /\ [NoClient EXCEPT !.pc = p] = NewClient(p, "show", 0, <<>>, rio_readinitb, <<>>)
           /\ [NoClient EXCEPT !.pc = p, !.left = l]
                = NewClient(p, "show", l, <<>>, rio_readinitb, <<>>)
<1>1. PICK r, z : r = rio_readinitb /\ z = <<>>
  OBVIOUS
<1>2. NoClient = [pc |-> "none", order |-> "show", left |-> 0, out |-> z, rio |-> r, buf |-> z]
  BY <1>1 DEF NoClient
<1>3. [NoClient EXCEPT !.pc = p] = NewClient(p, "show", 0, z, r, z)
  <2>1. PICK x : x = [NoClient EXCEPT !.pc = p]
    OBVIOUS
  <2>2. x = [[pc |-> "none", order |-> "show", left |-> 0, out |-> z, rio |-> r, buf |-> z]
               EXCEPT !.pc = p]
    BY <1>2, <2>1
  <2>3. x = NewClient(p, "show", 0, z, r, z)
    BY <2>2 DEF NewClient
  <2> QED BY <2>1, <2>3
<1>4. [NoClient EXCEPT !.pc = p, !.left = l] = NewClient(p, "show", l, z, r, z)
  <2>1. PICK x : x = [NoClient EXCEPT !.pc = p, !.left = l]
    OBVIOUS
  <2>2. x = [[pc |-> "none", order |-> "show", left |-> 0, out |-> z, rio |-> r, buf |-> z]
               EXCEPT !.pc = p, !.left = l]
    BY <1>2, <2>1
  <2>3. x = NewClient(p, "show", l, z, r, z)
    BY <2>2 DEF NewClient
  <2> QED BY <2>1, <2>3
<1> QED BY <1>1, <1>3, <1>4

LEMMA ExitStep ==
    ASSUME WireInv, NEW c \in Clients, Exit(c), service' = service,
           NEW ts \in Wires, Len(ts) <= SocketBuffer, Puts(toServer, toServer', c, ts),
           NEW tc \in Wires, Len(tc) <= SocketBuffer, Puts(toClient, toClient', c, tc)
    PROVE  WireInv'
<1>1. PICK k, s, ts0, tc0 : At(c, k, s, ts0, tc0)
  BY WireAt
<1>2. PICK k2 : k2 = NewClient("exited", "show", 0, <<>>, rio_readinitb, <<>>)
  OBVIOUS
<1>3. Wire(k2, s, ts, tc)
  <2>1. IsService(s) /\ (s.pc = "write" => s.out # <<>>)
    BY <1>1 DEF At, Wire
  <2>2. "exited" \notin InUse
    BY DEF InUse
  <2> QED BY <1>2, <2>1, <2>2, IdleWire
<1>4. client' = [client EXCEPT ![c] = k2]
  <2>1. k2 = [NoClient EXCEPT !.pc = "exited"]
    BY <1>2, NoClientIs
  <2> QED BY <2>1 DEF Exit
<1>5. Puts(client, client', c, k2)
  BY <1>4, PutsOne DEF WireInv
<1>6. Puts(service, service', c, s)
  BY <1>1, PutsNone DEF WireInv, At
<1> QED BY <1>3, <1>5, <1>6, WireStep

LEMMA OpenStep ==
    ASSUME WireInv, NEW c \in Clients, OpenClientfd(c)
    PROVE  WireInv'
<1>1. PICK k, s, ts, tc : At(c, k, s, ts, tc)
  BY WireAt
<1>2. <<>> \in Wires /\ Puts(toServer, toServer', c, <<>>) /\ Puts(toClient, toClient', c, <<>>)
  BY PutsOne, EmptyWire DEF WireInv, OpenClientfd
<1>3. CASE server.pc \in {"bound", "serving"} /\ ~ server.deaf
  <2>1. PICK k2, s2 : /\ k2 = NewClient("order", k.order, k.left, k.out, rio_readinitb, k.buf)
                      /\ s2 = NewService("read", rio_readinitb, <<>>, <<>>)
    OBVIOUS
  <2>2. Wire(k2, s2, <<>>, <<>>)
    BY <1>1, <2>1, OpenWire DEF At, OpenClientfd
  <2>3. /\ client' = [client EXCEPT ![c] = [client[c] EXCEPT !.pc = "order", !.rio = rio_readinitb]]
        /\ service' = [service EXCEPT ![c] = [NoService EXCEPT !.pc = "read"]]
    BY <1>3 DEF OpenClientfd
  <2>4. k2 = [client[c] EXCEPT !.pc = "order", !.rio = rio_readinitb]
    <3>1. ClientUpdates(k, "order", "show", 0, <<>>, rio_readinitb, <<>>)
      BY <1>1, ClientUpdate DEF At
    <3> QED BY <1>1, <2>1, <3>1 DEF ClientUpdates, At
  <2>5. s2 = [NoService EXCEPT !.pc = "read"]
    BY <2>1 DEF NoService, NewService
  <2>6. client' = [client EXCEPT ![c] = k2] /\ service' = [service EXCEPT ![c] = s2]
    BY <2>3, <2>4, <2>5
  <2>7. Puts(client, client', c, k2) /\ Puts(service, service', c, s2)
    BY <2>6, PutsOne DEF WireInv
  <2> QED BY <1>2, <2>2, <2>7, WireStep
<1>4. CASE ~ (server.pc \in {"bound", "serving"} /\ ~ server.deaf)
  <2>1. Exit(c) /\ service' = service
    BY <1>4 DEF OpenClientfd
  <2>2. Len(<<>>) <= SocketBuffer
    BY EmptyWire, ClientsAssumption
  <2> QED BY <1>2, <2>1, <2>2, ExitStep
<1> QED BY <1>3, <1>4

LEMMA NextOrderStep ==
    ASSUME WireInv, NEW c \in Clients, NEW order \in Typed,
           client[c].pc = "order", client[c].left > 0,
           client' = [client EXCEPT ![c].pc = "write", ![c].order = order,
                                    ![c].out = Line(order),
                                    ![c].left = IF order = Cut THEN 0 ELSE @ - 1],
           UNCHANGED <<service, toServer, toClient>>
    PROVE  WireInv'
<1>1. PICK k, s, ts, tc : At(c, k, s, ts, tc)
  BY WireAt
<1>2. PICK left \in Nat : left = IF order = Cut THEN 0 ELSE client[c].left - 1
  BY <1>1 DEF At, Fits
<1>3. PICK k2 : k2 = NewClient("write", order, left, Line(order), k.rio, k.buf)
  OBVIOUS
<1>4. Wire(k2, s, ts, tc)
  BY <1>1, <1>3, OrderWire DEF At
<1>5. client' = [client EXCEPT ![c] = [client[c] EXCEPT !.pc = "write", !.order = order,
                                        !.out = Line(order), !.left = left]]
  BY <1>2
<1>6. k2 = [client[c] EXCEPT !.pc = "write", !.order = order, !.out = Line(order), !.left = left]
  <2>1. ClientUpdates(k, "write", order, left, Line(order), rio_readinitb, <<>>)
    BY <1>1, ClientUpdate DEF At
  <2> QED BY <1>1, <1>3, <2>1 DEF ClientUpdates, At
<1>7. Puts(client, client', c, k2)
  BY <1>5, <1>6, PutsOne DEF WireInv
<1>8. /\ Puts(service, service', c, s) /\ Puts(toServer, toServer', c, ts)
      /\ Puts(toClient, toClient', c, tc)
  BY <1>1, PutsNone DEF WireInv, At
<1> QED BY <1>4, <1>7, <1>8, WireStep

LEMMA WriteClosedStep ==
    ASSUME WireInv, NEW c \in Clients, WriteClosed(c)
    PROVE  WireInv'
<1>1. PICK k, s, ts, tc : At(c, k, s, ts, tc)
  BY WireAt
<1>2. /\ Puts(service, service', c, s) /\ Puts(toServer, toServer', c, ts)
      /\ Puts(toClient, toClient', c, tc)
  BY <1>1, PutsNone DEF WireInv, At, WriteClosed
<1>3. CASE client' = [client EXCEPT ![c].out = <<>>, ![c].pc = "read", ![c].buf = <<>>]
  <2>1. PICK k2 : k2 = NewClient("read", k.order, k.left, <<>>, k.rio, <<>>)
    OBVIOUS
  <2>2. Wire(k2, s, ts, tc)
    <3>1. /\ s.pc = "closed" /\ k.order \in Typed /\ IsRio(k.rio) /\ k.left \in Nat
          /\ Len(k.rio.rio_buf) <= RIO_BUFSIZE /\ Len(tc) <= SocketBuffer
      BY <1>1, ClientFields DEF WriteClosed, At, Fits
    <3> QED BY <1>1, <2>1, <3>1, ClosedWire DEF At
  <2>3. client' = [client EXCEPT ![c] = [client[c] EXCEPT !.out = <<>>, !.pc = "read",
                                                          !.buf = <<>>]]
    BY <1>3
  <2>4. k2 = [client[c] EXCEPT !.out = <<>>, !.pc = "read", !.buf = <<>>]
    <3>1. ClientUpdates(k, "read", "show", 0, <<>>, rio_readinitb, <<>>)
      BY <1>1, ClientUpdate DEF At
    <3> QED BY <1>1, <2>1, <3>1 DEF ClientUpdates, At
  <2>5. Puts(client, client', c, k2)
    BY <2>3, <2>4, PutsOne DEF WireInv
  <2> QED BY <1>2, <2>2, <2>5, WireStep
<1>4. CASE Exit(c)
  BY <1>1, <1>2, <1>4, ExitStep DEF WriteClosed, At, Fits
<1> QED BY <1>3, <1>4 DEF WriteClosed

(* After an answer, or the end of the file, the client makes up its next order. *)
LEMMA BackIs ==
    ASSUME NEW c \in Clients, IsClient(client[c]), NEW rio
    PROVE  /\ BackToOrder(c) = NewClient("order", "show", client[c].left, client[c].out,
                                         client[c].rio, <<>>)
           /\ [BackToOrder(c) EXCEPT !.rio = rio]
                = NewClient("order", "show", client[c].left, client[c].out, rio, <<>>)
<1>1. PICK l, u, r : l = client[c].left /\ u = client[c].out /\ r = client[c].rio
  OBVIOUS
<1>2. BackToOrder(c) = NewClient("order", "show", l, u, r, <<>>)
  <2>1. ClientUpdates(client[c], "order", "show", 0, <<>>, rio_readinitb, <<>>)
    BY ClientUpdate
  <2> QED BY <1>1, <2>1 DEF ClientUpdates, BackToOrder
<1>3. [BackToOrder(c) EXCEPT !.rio = rio] = NewClient("order", "show", l, u, rio, <<>>)
  <2>1. PICK x, z : x = [BackToOrder(c) EXCEPT !.rio = rio] /\ z = <<>>
    OBVIOUS
  <2>2. x = [[pc |-> "order", order |-> "show", left |-> l, out |-> u, rio |-> r, buf |-> z]
               EXCEPT !.rio = rio]
    BY <1>2, <2>1 DEF NewClient
  <2>3. x = NewClient("order", "show", l, u, rio, z)
    BY <2>2 DEF NewClient
  <2> QED BY <2>1, <2>3
<1> QED BY <1>1, <1>2, <1>3

LEMMA ReadRefillStep ==
    ASSUME WireInv, NEW c \in Clients, ReadRefill(c)
    PROVE  WireInv'
<1>1. PICK k, s, ts, tc : At(c, k, s, ts, tc)
  BY WireAt
<1>2. PICK r \in read(tc, s.pc = "closed", RIO_BUFSIZE) :
        /\ client' = [client EXCEPT ![c] =
             [IF AtEOF(r) THEN BackToOrder(c) ELSE client[c] EXCEPT !.rio = Refill(r)]]
        /\ toClient' = [toClient EXCEPT ![c] = Drop(toClient[c], Len(r.got))]
  BY <1>1 DEF ReadRefill, At
<1>3. ReadGives(tc, s.pc = "closed", r)
  <2>1. tc \in Wires /\ RIO_BUFSIZE \in Nat /\ (s.pc = "closed") \in BOOLEAN
    BY <1>1, RioAssumption DEF At
  <2> QED BY <1>2, <2>1, ReadIs
<1>4. PICK rio, d : /\ rio = Refill(r) /\ d = Drop(tc, Len(r.got))
                    /\ IsRio(rio) /\ d \in Wires /\ rio.rio_buf \o d = tc
                    /\ Len(rio.rio_buf) <= RIO_BUFSIZE
  <2>1. Len(Refill(r).rio_buf) <= RIO_BUFSIZE
    BY <1>1, <1>2, RioAssumption, ReadLength DEF At
  <2> QED BY <1>3, <2>1 DEF ReadGives
<1>5. k.pc = "read" /\ k.rio.rio_buf = <<>> /\ k.out = <<>>
  <2>1. k.pc = "read" /\ NeedsRefill(k.rio) /\ k.out = <<>> /\ IsRio(k.rio)
    BY <1>1, ClientFields DEF ReadRefill, At, Wire
  <2> QED BY <2>1, UnreadIs DEF UnreadGives
<1>6. Puts(service, service', c, s) /\ Puts(toServer, toServer', c, ts)
  BY <1>1, PutsNone DEF WireInv, At, ReadRefill
<1>7. Puts(toClient, toClient', c, d)
  <2>1. toClient' = [toClient EXCEPT ![c] = d]
    BY <1>1, <1>2, <1>4 DEF At
  <2> QED BY <2>1, PutsOne DEF WireInv
<1>8. CASE AtEOF(r)
  <2>1. PICK k2 : k2 = NewClient("order", "show", k.left, <<>>, rio, <<>>)
    OBVIOUS
  <2>2. s.pc = "closed" /\ "show" \in Typed
    BY <1>3, <1>8 DEF ReadGives, Typed, Orders
  <2>21. k.left \in Nat /\ Len(d) <= SocketBuffer
    <3>1. Len(d) <= Len(tc) /\ Len(tc) <= SocketBuffer /\ Len(d) \in Nat /\ Len(tc) \in Nat
      BY <1>1, <1>4, SuffixLength, LenProperties DEF At, Fits, IsRio, Wires
    <3> QED BY <1>1, <3>1, ClientsAssumption DEF At, Fits
  <2>3. Wire(k2, s, ts, d)
    BY <1>1, <1>4, <2>1, <2>2, <2>21, ClosedWire DEF At
  <2>4. k2 = [BackToOrder(c) EXCEPT !.rio = Refill(r)]
    BY <1>1, <1>4, <1>5, <2>1, BackIs DEF At
  <2>5. client' = [client EXCEPT ![c] = k2]
    BY <1>2, <1>8, <2>4
  <2>6. Puts(client, client', c, k2)
    BY <2>5, PutsOne DEF WireInv
  <2> QED BY <1>6, <1>7, <2>3, <2>6, WireStep
<1>9. CASE ~ AtEOF(r)
  <2>1. PICK k2 : k2 = NewClient("read", k.order, k.left, k.out, rio, k.buf)
    OBVIOUS
  <2>2. Wire(k2, s, ts, d)
    BY <1>1, <1>4, <1>5, <2>1, ReadRefillWire DEF At
  <2>3. k2 = [client[c] EXCEPT !.rio = Refill(r)]
    <3>1. ClientUpdates(k, "read", "show", 0, <<>>, rio, <<>>)
      BY <1>1, ClientUpdate DEF At
    <3> QED BY <1>1, <1>4, <1>5, <2>1, <3>1 DEF ClientUpdates, At
  <2>4. client' = [client EXCEPT ![c] = k2]
    BY <1>2, <1>9, <2>3
  <2>5. Puts(client, client', c, k2)
    BY <2>4, PutsOne DEF WireInv
  <2> QED BY <1>6, <1>7, <2>2, <2>5, WireStep
<1> QED BY <1>8, <1>9

LEMMA ReadResetStep ==
    ASSUME WireInv, NEW c \in Clients, ReadReset(c)
    PROVE  WireInv'
<1>1. PICK k, s, ts, tc : At(c, k, s, ts, tc)
  BY WireAt
<1>2. /\ Puts(service, service', c, s) /\ Puts(toServer, toServer', c, ts)
      /\ Puts(toClient, toClient', c, tc)
  BY <1>1, PutsNone DEF WireInv, At, ReadReset
<1>3. CASE client' = [client EXCEPT ![c] = BackToOrder(c)]
  <2>1. PICK k2 : k2 = NewClient("order", "show", k.left, <<>>, k.rio, <<>>)
    OBVIOUS
  <2>2. /\ s.pc = "closed" /\ k.out = <<>> /\ IsRio(k.rio) /\ "show" \in Typed
        /\ k.left \in Nat /\ Len(k.rio.rio_buf) <= RIO_BUFSIZE /\ Len(tc) <= SocketBuffer
    BY <1>1, ClientFields DEF ReadReset, At, Wire, Typed, Orders, Fits
  <2>3. Wire(k2, s, ts, tc)
    BY <1>1, <2>1, <2>2, ClosedWire DEF At
  <2>4. k2 = BackToOrder(c)
    BY <1>1, <2>1, <2>2, BackIs DEF At
  <2>5. Puts(client, client', c, k2)
    BY <1>3, <2>4, PutsOne DEF WireInv
  <2> QED BY <1>2, <2>3, <2>5, WireStep
<1>4. CASE Exit(c)
  BY <1>1, <1>2, <1>4, ExitStep DEF ReadReset, At, Fits
<1> QED BY <1>3, <1>4 DEF ReadReset

LEMMA ReadCopyStep ==
    ASSUME WireInv, NEW c \in Clients, ReadCopy(c)
    PROVE  WireInv'
<1>1. PICK k, s, ts, tc : At(c, k, s, ts, tc)
  BY WireAt
<1>2. PICK n : n = MAXLINE - Len(k.buf) /\ n \in Nat /\ Len(k.buf) \in Nat /\ k.buf \in Wires
  <2>1. IsClient(k)
    BY <1>1 DEF At
  <2>2. k.buf \in Wires /\ Len(k.buf) < MAXLINE
    BY <2>1, ClientFields
  <2>3. Len(k.buf) \in Nat /\ MAXLINE \in Nat
    BY <2>2, LenProperties, ClientsAssumption DEF Wires
  <2>4. MAXLINE - Len(k.buf) \in Nat
    BY <2>2, <2>3
  <2> QED BY <2>2, <2>3, <2>4
<1>3. PICK p, rio : /\ p = Copied(k.rio, n) /\ rio = AfterCopy(k.rio, n)
                    /\ p \in Wires /\ IsRio(rio) /\ p \o rio.rio_buf = k.rio.rio_buf
                    /\ Len(p) = Least(n, k.rio.rio_cnt)
  <2>1. CopyGives(k.rio, n)
    BY <1>1, <1>2, ClientFields, CopyIs DEF At
  <2> QED BY <2>1 DEF CopyGives
<1>4. PICK done : /\ done = (Len(p) = n)
                  /\ client' = [client EXCEPT ![c] =
                       [IF done THEN BackToOrder(c) ELSE [client[c] EXCEPT !.buf = k.buf \o p]
                          EXCEPT !.rio = rio]]
  BY <1>1, <1>2, <1>3 DEF ReadCopy, rio_readnb, At
<1>5. k.pc = "read" /\ k.out = <<>>
  BY <1>1 DEF ReadCopy, At, Wire
<1>6. /\ Puts(service, service', c, s) /\ Puts(toServer, toServer', c, ts)
      /\ Puts(toClient, toClient', c, tc)
  BY <1>1, PutsNone DEF WireInv, At, ReadCopy
<1>7. Len(p) \in Nat /\ Len(p) <= n
  BY <1>2, <1>3, LenProperties DEF Least, Wires
<1>8. CASE done
  <2>1. PICK k2 : k2 = NewClient("order", "show", k.left, k.out, rio, <<>>)
    OBVIOUS
  <2>2. Len(k.buf) + Len(p) = MAXLINE
    <3>1. Len(p) = n
      BY <1>4, <1>8
    <3>2. MAXLINE \in Nat
      BY ClientsAssumption
    <3> QED BY <1>2, <3>1, <3>2
  <2>3. Wire(k2, s, ts, tc)
    BY <1>1, <1>3, <1>5, <2>1, <2>2, ReadEndWire DEF At
  <2>4. k2 = [BackToOrder(c) EXCEPT !.rio = rio]
    BY <1>1, <2>1, BackIs DEF At
  <2>5. client' = [client EXCEPT ![c] = k2]
    BY <1>4, <1>8, <2>4
  <2>6. Puts(client, client', c, k2)
    BY <2>5, PutsOne DEF WireInv
  <2> QED BY <1>6, <2>3, <2>6, WireStep
<1>9. CASE ~ done
  <2>1. PICK b : b = k.buf \o p
    OBVIOUS
  <2>2. PICK k2 : k2 = NewClient("read", k.order, k.left, k.out, rio, b)
    OBVIOUS
  <2>3. Len(k.buf) + Len(p) < MAXLINE
    <3>1. Len(p) # n
      BY <1>4, <1>9
    <3>2. MAXLINE \in Nat
      BY ClientsAssumption
    <3> QED BY <1>2, <1>7, <3>1, <3>2
  <2>4. Wire(k2, s, ts, tc)
    BY <1>1, <1>3, <1>5, <2>1, <2>2, <2>3, ReadCopyWire DEF At
  <2>5. k2 = [[client[c] EXCEPT !.buf = b] EXCEPT !.rio = rio]
    <3>1. PICK k3 : k3 = NewClient("read", k.order, k.left, k.out, k.rio, b)
      OBVIOUS
    <3>2. k3 = [client[c] EXCEPT !.buf = b]
      <4>1. ClientUpdates(k, "read", "show", 0, <<>>, rio, b)
        BY <1>1, ClientUpdate DEF At
      <4> QED BY <1>1, <1>5, <3>1, <4>1 DEF ClientUpdates, At
    <3>3. [k3 EXCEPT !.rio = rio] = k2
      <4>1. PICK x : x = [k3 EXCEPT !.rio = rio]
        OBVIOUS
      <4>2. x = [[pc |-> "read", order |-> k.order, left |-> k.left, out |-> k.out,
                  rio |-> k.rio, buf |-> b] EXCEPT !.rio = rio]
        BY <3>1, <4>1 DEF NewClient
      <4>3. x = NewClient("read", k.order, k.left, k.out, rio, b)
        BY <4>2 DEF NewClient
      <4> QED BY <2>2, <4>1, <4>3
    <3> QED BY <3>2, <3>3
  <2>6. client' = [client EXCEPT ![c] = k2]
    BY <1>4, <1>9, <2>1, <2>5
  <2>7. Puts(client, client', c, k2)
    BY <2>6, PutsOne DEF WireInv
  <2> QED BY <1>6, <2>4, <2>7, WireStep
<1> QED BY <1>8, <1>9

LEMMA LineRefillStep ==
    ASSUME WireInv, NEW c \in Clients, LineRefill(c)
    PROVE  WireInv'
<1>1. PICK k, s, ts, tc : At(c, k, s, ts, tc)
  BY WireAt
<1>2. PICK r \in read(toServer[c], client[c].pc = "exited", RIO_BUFSIZE) :
        /\ service' = [service EXCEPT ![c].rio = Refill(r),
                         ![c].pc = IF AtEOF(r) THEN "closed" ELSE @]
        /\ toServer' = [toServer EXCEPT ![c] = Drop(@, Len(r.got))]
  BY DEF LineRefill
<1>3. ReadGives(ts, k.pc = "exited", r)
  <2>1. ts \in Wires /\ RIO_BUFSIZE \in Nat /\ (k.pc = "exited") \in BOOLEAN
    BY <1>1, RioAssumption DEF At
  <2>2. r \in read(ts, k.pc = "exited", RIO_BUFSIZE)
    BY <1>1, <1>2 DEF At
  <2> QED BY <2>1, <2>2, ReadIs
<1>4. PICK rio, d : /\ rio = Refill(r) /\ d = Drop(ts, Len(r.got))
                    /\ IsRio(rio) /\ d \in Wires /\ rio.rio_buf \o d = ts
  BY <1>3 DEF ReadGives
<1>5. s.pc = "read" /\ s.rio.rio_buf = <<>>
  <2>1. s.pc = "read" /\ NeedsRefill(s.rio) /\ IsRio(s.rio)
    BY <1>1 DEF LineRefill, At, IsService
  <2> QED BY <2>1, UnreadIs DEF UnreadGives
<1>6. PICK pc \in {"read", "closed"} : pc = IF AtEOF(r) THEN "closed" ELSE service[c].pc
  BY <1>1, <1>5 DEF At
<1>7. PICK s2 : s2 = NewService(pc, rio, s.line, s.out)
  OBVIOUS
<1>8. Wire(k, s2, d, tc)
  BY <1>1, <1>4, <1>5, <1>7, LineRefillWire DEF At
<1>9. s2 = [service[c] EXCEPT !.rio = rio, !.pc = pc]
  <2>1. ServiceUpdates(s, pc, rio, <<>>, <<>>)
    BY <1>1, ServiceUpdate DEF At
  <2> QED BY <1>1, <1>7, <2>1 DEF ServiceUpdates, At
<1>10. service' = [service EXCEPT ![c] = s2] /\ toServer' = [toServer EXCEPT ![c] = d]
  BY <1>1, <1>2, <1>4, <1>6, <1>9 DEF At
<1>11. Puts(service, service', c, s2) /\ Puts(toServer, toServer', c, d)
  BY <1>10, PutsOne DEF WireInv
<1>12. Puts(client, client', c, k) /\ Puts(toClient, toClient', c, tc)
  BY <1>1, PutsNone DEF WireInv, At, LineRefill
<1> QED BY <1>8, <1>11, <1>12, WireStep

LEMMA LineByteStep ==
    ASSUME WireInv, NEW c \in Clients, LineByte(c)
    PROVE  WireInv'
<1>1. PICK k, s, ts, tc : At(c, k, s, ts, tc)
  BY WireAt
<1>2. s.pc = "read" /\ ~ NeedsRefill(s.rio) /\ IsRio(s.rio) /\ s.line \in Wires
  BY <1>1 DEF LineByte, At, IsService
<1>3. PICK p, rio : /\ p = Copied(s.rio, 1) /\ rio = AfterCopy(s.rio, 1)
                    /\ p \in Wires /\ IsRio(rio) /\ p \o rio.rio_buf = s.rio.rio_buf
                    /\ Len(p) = Least(1, s.rio.rio_cnt)
  <2>1. CopyGives(s.rio, 1)
    BY <1>2, CopyIs
  <2> QED BY <2>1 DEF CopyGives
<1>4. PICK line \in Wires : line = s.line \o p
  BY <1>2, <1>3, WholeTyped
<1>5. PICK done : done = LineEnds(line, MAXLINE) /\ done \in BOOLEAN
  BY DEF LineEnds
<1>6. service' = [service EXCEPT ![c] = [service[c] EXCEPT !.rio = rio, !.line = line,
                    !.pc = IF done THEN "write" ELSE service[c].pc,
                    !.out = IF done THEN Answer(line[1]) ELSE service[c].out]]
  BY <1>1, <1>3, <1>4, <1>5 DEF LineByte, rio_readlineb, At
<1>7. /\ Puts(client, client', c, k) /\ Puts(toServer, toServer', c, ts)
      /\ Puts(toClient, toClient', c, tc)
  BY <1>1, PutsNone DEF WireInv, At, LineByte
<1>8. CASE done
  <2>1. PICK u : u = Answer(line[1])
    OBVIOUS
  <2>2. PICK s2 : s2 = NewService("write", rio, line, u)
    OBVIOUS
  <2>3. p # <<>>
    <3>1. Len(p) # 0
      <4>1. s.rio.rio_cnt = Len(s.rio.rio_buf) /\ Len(s.rio.rio_buf) \in Nat
        BY <1>2, LenProperties DEF IsRio, Wires
      <4> QED BY <1>2, <1>3, <4>1 DEF Least, NeedsRefill
    <3> QED BY <3>1, EmptyWire
  <2>4. Wire(k, s2, ts, tc)
    BY <1>1, <1>2, <1>3, <1>4, <1>5, <1>8, <2>1, <2>2, <2>3, LineEndWire DEF At
  <2>5. s2 = [service[c] EXCEPT !.rio = rio, !.line = line, !.pc = "write", !.out = u]
    <3>1. ServiceUpdates(s, "write", rio, line, u)
      BY <1>1, ServiceUpdate DEF At
    <3> QED BY <1>1, <2>2, <3>1 DEF ServiceUpdates, At
  <2>6. service' = [service EXCEPT ![c] = s2]
    BY <1>6, <1>8, <2>1, <2>5
  <2>7. Puts(service, service', c, s2)
    BY <2>6, PutsOne DEF WireInv
  <2> QED BY <1>7, <2>4, <2>7, WireStep
<1>9. CASE ~ done
  <2>1. PICK s2 : s2 = NewService("read", rio, line, s.out)
    OBVIOUS
  <2>2. Wire(k, s2, ts, tc)
    BY <1>1, <1>2, <1>3, <1>4, <2>1, LineByteWire DEF At
  <2>3. s2 = [service[c] EXCEPT !.rio = rio, !.line = line, !.pc = "read", !.out = service[c].out]
    <3>1. ServiceUpdates(s, "read", rio, line, s.out)
      BY <1>1, ServiceUpdate DEF At
    <3> QED BY <1>1, <2>1, <3>1 DEF ServiceUpdates, At
  <2>4. service' = [service EXCEPT ![c] = s2]
    BY <1>1, <1>2, <1>6, <1>9, <2>3 DEF At
  <2>5. Puts(service, service', c, s2)
    BY <2>4, PutsOne DEF WireInv
  <2> QED BY <1>7, <2>2, <2>5, WireStep
<1> QED BY <1>5, <1>8, <1>9

LEMMA AnswerWriteStep ==
    ASSUME WireInv, NEW c \in Clients, AnswerWrite(c)
    PROVE  WireInv'
<1>1. PICK k, s, ts, tc : At(c, k, s, ts, tc)
  BY WireAt
<1>2. s.pc = "write"
  BY <1>1 DEF AnswerWrite, At
<1>3. PICK j \in 0 .. Least(Len(service[c].out), SocketBuffer - Len(toClient[c])) :
        /\ service' = [service EXCEPT ![c] = [service[c] EXCEPT !.out = Drop(service[c].out, j),
                         !.pc = AfterAnswer(Drop(service[c].out, j)),
                         !.line = IF Drop(service[c].out, j) = <<>> THEN <<>> ELSE service[c].line]]
        /\ toClient' = [toClient EXCEPT ![c] = toClient[c] \o SubSeq(service[c].out, 1, j)]
  BY DEF AnswerWrite, AfterWrite
<1>4. PICK u : u = s.out /\ u \in Wires /\ j \in 0 .. Len(u)
  <2>1. /\ s.out \in Wires /\ Len(s.out) \in Nat /\ Len(toClient[c]) \in Nat
        /\ SocketBuffer \in Nat
    BY <1>1, LenProperties, ClientsAssumption DEF At, IsService, Wires
  <2> QED BY <1>1, <1>3, <2>1 DEF Least, At
<1>5. PICK p, d \in Wires : p = SubSeq(u, 1, j) /\ d = Drop(u, j) /\ p \o d = u
  <2>1. IsCut(u, j)
    BY <1>4, CutWire
  <2> QED BY <2>1 DEF IsCut
<1>6. PICK line : line = IF d = <<>> THEN <<>> ELSE s.line
  OBVIOUS
<1>7. PICK s2 : s2 = NewService(AfterAnswer(d), s.rio, line, d)
  OBVIOUS
<1>71. Len(tc \o p) <= SocketBuffer
  <2>1. j \in Nat /\ j <= SocketBuffer - Len(tc) /\ Len(tc) \in Nat /\ SocketBuffer \in Nat
    BY <1>1, <1>3, <1>4, LenProperties, ClientsAssumption DEF At, Least, Wires
  <2>2. IsCut(u, j)
    BY <1>4, CutWire
  <2>3. Len(p) = j
    BY <1>5, <2>2 DEF IsCut
  <2>4. Len(tc \o p) = Len(tc) + Len(p)
    BY <1>1, SuffixLength DEF At
  <2> QED BY <2>1, <2>3, <2>4
<1>8. Wire(k, s2, ts, tc \o p)
  BY <1>71, <1>1, <1>2, <1>4, <1>5, <1>6, <1>7, AnswerWriteWire DEF At
<1>9. s2 = [service[c] EXCEPT !.out = d, !.pc = AfterAnswer(d), !.line = line]
  <2>1. ServiceUpdates(s, AfterAnswer(d), s.rio, line, d)
    BY <1>1, ServiceUpdate DEF At
  <2> QED BY <1>1, <1>7, <2>1 DEF ServiceUpdates, At
<1>10. service' = [service EXCEPT ![c] = s2] /\ toClient' = [toClient EXCEPT ![c] = tc \o p]
  BY <1>1, <1>3, <1>4, <1>5, <1>6, <1>9 DEF At
<1>11. Puts(service, service', c, s2) /\ Puts(toClient, toClient', c, tc \o p)
  BY <1>10, PutsOne DEF WireInv
<1>12. Puts(client, client', c, k) /\ Puts(toServer, toServer', c, ts)
  BY <1>1, PutsNone DEF WireInv, At, AnswerWrite
<1> QED BY <1>8, <1>11, <1>12, WireStep

LEMMA ForkStep ==
    ASSUME WireInv, ProcTyped, ForkClient
    PROVE  WireInv'
<1>1. PICK c, l : c = parent.runprocess + 1 /\ l = parent.per_client /\ l \in Nat
  BY DEF ProcTyped
<1>2. PICK k2 : k2 = NewClient("connect", "show", l, <<>>, rio_readinitb, <<>>)
  OBVIOUS
<1>3. client' = [client EXCEPT ![c] = k2]
  <2>1. k2 = [NoClient EXCEPT !.pc = "connect", !.left = l]
    BY <1>2, NoClientIs
  <2> QED BY <1>1, <2>1 DEF ForkClient
<1>4. UNCHANGED <<service, toServer, toClient>>
  BY DEF ForkClient
<1>5. CASE c \in Clients
  <2>1. PICK k, s, ts, tc : At(c, k, s, ts, tc)
    BY <1>5, WireAt
  <2>2. Wire(k2, s, ts, tc)
    <3>1. /\ IsService(s) /\ (s.pc = "write" => s.out # <<>>) /\ "connect" \notin InUse
          /\ Len(ts) <= SocketBuffer /\ Len(tc) <= SocketBuffer
      BY <2>1 DEF At, Wire, InUse, Fits
    <3> QED BY <1>1, <1>2, <2>1, <3>1, IdleWire DEF At
  <2>3. Puts(client, client', c, k2)
    BY <1>3, <1>5, PutsOne DEF WireInv
  <2>4. /\ Puts(service, service', c, s) /\ Puts(toServer, toServer', c, ts)
        /\ Puts(toClient, toClient', c, tc)
    BY <1>4, <1>5, <2>1, PutsNone DEF WireInv, At
  <2> QED BY <1>5, <2>2, <2>3, <2>4, WireStep
<1>6. CASE c \notin Clients
  <2>1. client = [x \in Clients |-> client[x]]
    BY DEF WireInv
  <2>2. client' = client
    BY <1>3, <1>6, <2>1
  <2> QED BY <1>4, <2>2 DEF WireInv
<1> QED BY <1>5, <1>6

LEMMA DeadStep ==
    ASSUME WireInv, Dead, UNCHANGED <<client, toServer, toClient>>
    PROVE  WireInv'
<1>1. PICK s2 : s2 = NewService("closed", rio_readinitb, <<>>, <<>>)
  OBVIOUS
<1>2. IsService(s2) /\ s2.pc = "closed"
  <2>1. IsRio(rio_readinitb) /\ <<>> \in Wires
    BY EmptyWire DEF IsRio, rio_readinitb
  <2>2. ServiceHas(s2, "closed", rio_readinitb, <<>>, <<>>)
    BY <1>1, <2>1, ServiceIs
  <2> QED BY <2>2 DEF ServiceHas
<1>3. s2 = [NoService EXCEPT !.pc = "closed"]
  BY <1>1 DEF NoService, NewService
<1>4. service' = [x \in Clients |-> IF service[x].pc = "none" THEN service[x] ELSE s2]
  BY <1>3 DEF Dead
<1>5. ASSUME NEW x \in Clients
      PROVE  Wire(client'[x], service'[x], toServer'[x], toClient'[x])
  <2>1. PICK k, s, ts, tc : At(x, k, s, ts, tc)
    BY WireAt
  <2>2. Wire(k, s2, ts, tc)
    BY <1>2, <2>1 DEF At, Wire
  <2>3. service'[x] = s \/ service'[x] = s2
    BY <1>4, <2>1 DEF At
  <2>4. client'[x] = k /\ toServer'[x] = ts /\ toClient'[x] = tc
    BY <2>1 DEF At
  <2> QED BY <2>1, <2>2, <2>3, <2>4 DEF At
<1>6. service' = [x \in Clients |-> service'[x]]
  BY <1>4
<1> QED BY <1>5, <1>6 DEF WireInv

LEMMA StillStep ==
    ASSUME WireInv, UNCHANGED <<client, service, toServer, toClient>>
    PROVE  WireInv'
BY DEF WireInv

LEMMA ProcInit ==
    ASSUME Init
    PROVE  ProcTyped
<1>1. PICK n : n \in Settings(program) /\ bench = [pc |-> "start", phase |-> 0, num_client |-> n[1],
                                                   total_order |-> n[2]]
  BY DEF Init
<1>2. n[1] \in Nat /\ n[2] \in Nat
  BY <1>1, BenchmarkAssumption DEF Init
<1> QED BY <1>1, <1>2 DEF Init, ProcTyped, NoParent

LEMMA ParentStarts ==
    ASSUME NEW n \in Nat, NEW m \in Nat, NEW arg,
           StartParent(n, m, arg) \/ StartMulticlient(n)
    PROVE  /\ parent' \in [pc : {"none", "fork", "wait", "exited", "killed", "failed", "reaped"},
                           num_client : Nat, per_client : Nat,
                           query_type : {"RAND", "SHOW", "MODIFY"}, runprocess : Nat, waited : Nat]
           /\ parent'.runprocess = 0 /\ parent'.waited = 0
           /\ parent'.pc \in {"fork", "killed"}
<1>1. NoParent = [pc |-> "none", num_client |-> 0, per_client |-> 0, query_type |-> "RAND",
                  runprocess |-> 0, waited |-> 0]
  BY DEF NoParent
<1>2. query_type(arg) \in {"RAND", "SHOW", "MODIFY"}
  BY DEF query_type
<1>3. n # 0 => m \div n \in Nat
  OBVIOUS
<1>4. CASE StartParent(n, m, arg)
  <2>1. PICK per, pc, type : /\ per \in Nat /\ pc \in {"fork", "killed"}
                             /\ type \in {"RAND", "SHOW", "MODIFY"}
                             /\ parent' = [NoParent EXCEPT !.pc = pc, !.num_client = n,
                                             !.per_client = per, !.query_type = type]
    BY <1>2, <1>3, <1>4 DEF StartParent
  <2>2. parent' = [pc |-> pc, num_client |-> n, per_client |-> per, query_type |-> type,
                   runprocess |-> 0, waited |-> 0]
    BY <1>1, <2>1
  <2>3. /\ parent'.pc = pc /\ parent'.runprocess = 0 /\ parent'.waited = 0
    BY <2>2
  <2>4. pc \in {"none", "fork", "wait", "exited", "killed", "failed", "reaped"}
    BY <2>1
  <2>5. parent' \in [pc : {"none", "fork", "wait", "exited", "killed", "failed", "reaped"},
                     num_client : Nat, per_client : Nat,
                     query_type : {"RAND", "SHOW", "MODIFY"}, runprocess : Nat, waited : Nat]
    BY <2>1, <2>2, <2>4
  <2> QED BY <2>1, <2>3, <2>5
<1>5. CASE StartMulticlient(n)
  <2>1. parent' = [pc |-> "fork", num_client |-> n, per_client |-> ORDER_PER_CLIENT,
                   query_type |-> "RAND", runprocess |-> 0, waited |-> 0]
    BY <1>1, <1>5 DEF StartMulticlient
  <2> QED BY <2>1, ClientsAssumption
<1> QED BY <1>4, <1>5

LEMMA ProcNext ==
    ASSUME ProcTyped, [Next]_vars
    PROVE  ProcTyped'
<1>1. CASE StartServer
  BY <1>1 DEF ProcTyped, StartServer, Signals
<1>2. CASE StartClients
  <2>1. /\ server' = server /\ pending' \subseteq Signals
        /\ bench' \in [pc : {"start", "started", "suspended", "woken", "exited"}, phase : 0 .. 3,
                       num_client : Nat, total_order : Nat]
    BY <1>2 DEF ProcTyped, StartClients, Signals
  <2>2. CASE StartParent(bench.num_client, bench.total_order, "none")
    <3>1. bench.num_client \in Nat /\ bench.total_order \in Nat
      BY DEF ProcTyped
    <3> QED BY <2>1, <2>2, <3>1, ParentStarts DEF ProcTyped
  <2>3. CASE parent' = [NoParent EXCEPT !.pc = "failed"]
    BY <2>1, <2>3 DEF ProcTyped, NoParent
  <2>4. CASE parent' = parent
    BY <2>1, <2>4 DEF ProcTyped
  <2> QED BY <1>2, <2>2, <2>3, <2>4 DEF StartClients
<1>3. CASE Suspend \/ Report
  <2>1. CASE Suspend
    BY <2>1 DEF ProcTyped, Suspend
  <2>2. CASE Report
    <3>1. bench.phase + 1 \in 0 .. 3
      BY <2>2 DEF ProcTyped, Report
    <3>2. bench' = [bench EXCEPT !.pc = "start", !.phase = bench.phase + 1]
      BY <2>2 DEF Report
    <3> QED BY <2>2, <3>1, <3>2 DEF ProcTyped, Report
  <2> QED BY <1>3, <2>1, <2>2
<1>4. CASE endclock
  BY <1>4 DEF ProcTyped, endclock, Wakes
<1>5. CASE child_reaper
  BY <1>5 DEF ProcTyped, child_reaper, Wakes
<1>6. CASE Finish
  BY <1>6 DEF ProcTyped, Finish, Dead
<1>7. CASE ServerStep
  <2>1. CASE ServerListen
    <3>1. \A addr : (open_listenfd(TRUE, <<addr>>, TRUE).rc < 0) \in BOOLEAN
      OBVIOUS
    <3>2. PICK deaf \in BOOLEAN : server' = [server EXCEPT !.pc = "bound", !.deaf = deaf]
      BY <2>1, <3>1 DEF ServerListen
    <3> QED BY <2>1, <3>2 DEF ProcTyped, ServerListen, benchVars
  <2>2. CASE ServerBooted
    BY <2>2 DEF ProcTyped, ServerBooted, Signals
  <2> QED BY <1>7, <2>1, <2>2 DEF ServerStep
<1>8. CASE ServerDies
  BY <1>8 DEF ProcTyped, ServerDies, Dead, Signals
<1>9. CASE ByHand
  <2>1. bench' = bench /\ server' = server /\ pending' = pending
    BY <1>9 DEF ByHand, benchVars
  <2>2. bench.num_client \in Nat /\ bench.total_order \in Nat
    BY DEF ProcTyped
  <2>3. \E arg : StartParent(bench.num_client, bench.total_order, arg)
                   \/ StartMulticlient(bench.num_client)
    BY <1>9 DEF ByHand
  <2> QED BY <2>1, <2>2, <2>3, ParentStarts DEF ProcTyped
<1>10. CASE (ForkClient \/ AllForked \/ WaitClient) /\ UNCHANGED benchVars
  BY <1>10 DEF ProcTyped, ForkClient, AllForked, WaitClient, benchVars
<1>11. CASE ParentEnds
  BY <1>11 DEF ProcTyped, ParentEnds, ParentExit, ForkFails, Signals
<1>12. ASSUME NEW c \in Clients, ConnStep(c)
       PROVE  ProcTyped'
  <2>1. UNCHANGED <<server, parent>> /\ bench' = bench /\ pending' = pending
    BY <1>12 DEF ConnStep, ClientStep, UserStep, ServiceStep, OpenClientfd, Close, EndOfInput, random_q, modify_q, show_q,
       MulticlientOrder, TypedLine, NextOrder, RioWriten, WriteClosed, ReadRefill, ReadReset,
       ReadCopy, LineRefill, LineByte, AnswerWrite, benchVars
  <2> QED BY <2>1 DEF ProcTyped
<1>13. CASE UNCHANGED vars
  BY <1>13 DEF ProcTyped, vars
<1> QED BY <1>1, <1>2, <1>3, <1>4, <1>5, <1>6, <1>7, <1>8, <1>9, <1>10, <1>11, <1>12, <1>13
        DEF Next, Bench, ParentStep

LEMMA WireInit ==
    ASSUME Init
    PROVE  WireInv
<1>1. PICK s : s = NewService("none", rio_readinitb, <<>>, <<>>)
  OBVIOUS
<1>2. IsService(s) /\ s.pc = "none"
  <2>1. IsRio(rio_readinitb) /\ <<>> \in Wires
    BY EmptyWire DEF IsRio, rio_readinitb
  <2>2. ServiceHas(s, "none", rio_readinitb, <<>>, <<>>)
    BY <1>1, <2>1, ServiceIs
  <2> QED BY <2>2 DEF ServiceHas
<1>3. s = NoService
  BY <1>1 DEF NewService, NoService
<1>4. PICK l \in Nat : l = bench.total_order
  BY ProcInit DEF ProcTyped
<1>5. PICK k1, k2 : /\ k1 = NewClient("none", "show", 0, <<>>, rio_readinitb, <<>>)
                    /\ k2 = NewClient("connect", "show", l, <<>>, rio_readinitb, <<>>)
  OBVIOUS
<1>6. k1 = NoClient /\ k2 = [NoClient EXCEPT !.pc = "connect", !.left = bench.total_order]
  BY <1>4, <1>5, NoClientIs DEF NewClient, NoClient
<1>7. Wire(k1, s, <<>>, <<>>) /\ Wire(k2, s, <<>>, <<>>)
  <2>1. "none" \notin InUse /\ "connect" \notin InUse
    BY DEF InUse
  <2>2. Len(<<>>) <= SocketBuffer /\ <<>> \in Wires
    BY EmptyWire, ClientsAssumption
  <2> QED BY <1>2, <1>4, <1>5, <2>1, <2>2, IdleWire
<1>8. /\ client = [c \in Clients |-> IF program = "stockclient" /\ c = 1 THEN k2 ELSE k1]
      /\ service = [c \in Clients |-> s]
      /\ toServer = [c \in Clients |-> <<>>] /\ toClient = [c \in Clients |-> <<>>]
  BY <1>3, <1>6 DEF Init
<1>9. ASSUME NEW c \in Clients
      PROVE  Wire(client[c], service[c], toServer[c], toClient[c])
  <2>1. /\ client[c] = k1 \/ client[c] = k2
        /\ service[c] = s /\ toServer[c] = <<>> /\ toClient[c] = <<>>
    BY <1>8
  <2> QED BY <1>7, <2>1
<1>10. /\ client = [c \in Clients |-> client[c]] /\ service = [c \in Clients |-> service[c]]
       /\ toServer = [c \in Clients |-> toServer[c]] /\ toClient = [c \in Clients |-> toClient[c]]
  BY <1>8
<1> QED BY <1>9, <1>10 DEF WireInv

LEMMA WireNext ==
    ASSUME WireInv, ProcTyped, [Next]_vars
    PROVE  WireInv'
<1>1. CASE Bench
  <2>1. CASE Finish
    <3>1. CASE Dead
      BY <2>1, <3>1, DeadStep DEF Finish
    <3>2. CASE UNCHANGED <<server, service>>
      BY <2>1, <3>2, StillStep DEF Finish
    <3> QED BY <2>1, <3>1, <3>2 DEF Finish
  <2>2. CASE StartServer \/ StartClients \/ Suspend \/ endclock \/ child_reaper \/ Report
    <3>1. UNCHANGED connVars
      BY <2>2 DEF StartServer, StartClients, Suspend, endclock, child_reaper, Report
    <3> QED BY <3>1, StillStep DEF connVars
  <2> QED BY <1>1, <2>1, <2>2 DEF Bench
<1>2. CASE ServerStep
  BY <1>2, StillStep DEF ServerStep, ServerListen, ServerBooted, connVars
<1>3. CASE ServerDies
  BY <1>3, DeadStep DEF ServerDies
<1>4. CASE ParentStep
  <2>1. CASE ForkClient
    BY <2>1, ForkStep
  <2>2. CASE ByHand \/ AllForked \/ WaitClient \/ ParentEnds
    <3>1. UNCHANGED connVars
      BY <2>2 DEF ByHand, AllForked, WaitClient, ParentEnds, ParentExit, ForkFails
    <3> QED BY <3>1, StillStep DEF connVars
  <2> QED BY <1>4, <2>1, <2>2 DEF ParentStep
<1>5. ASSUME NEW c \in Clients, ConnStep(c)
      PROVE  WireInv'
  <2>1. CASE OpenClientfd(c)
    BY <2>1, OpenStep
  <2>2. CASE Close(c) \/ EndOfInput(c)
    <3>1. PICK k, s, ts, tc : At(c, k, s, ts, tc)
      BY WireAt
    <3>2. Puts(toServer, toServer', c, ts) /\ Puts(toClient, toClient', c, tc)
      BY <2>2, <3>1, PutsNone DEF WireInv, At, Close, EndOfInput
    <3> QED BY <2>2, <3>1, <3>2, ExitStep DEF Close, EndOfInput, At, Fits
  <2>3. CASE random_q(c) \/ modify_q(c) \/ show_q(c) \/ MulticlientOrder(c) \/ TypedLine(c)
    <3>1. \E orders \in SUBSET Typed : NextOrder(c, orders)
      BY <2>3 DEF random_q, modify_q, show_q, MulticlientOrder, TypedLine, Typed, Orders
    <3> QED BY <3>1, NextOrderStep DEF NextOrder
  <2>4. CASE RioWriten(c)
    BY <2>4, RioWritenStep
  <2>5. CASE WriteClosed(c)
    BY <2>5, WriteClosedStep
  <2>6. CASE ReadRefill(c)
    BY <2>6, ReadRefillStep
  <2>7. CASE ReadReset(c)
    BY <2>7, ReadResetStep
  <2>8. CASE ReadCopy(c)
    BY <2>8, ReadCopyStep
  <2>9. CASE LineRefill(c)
    BY <2>9, LineRefillStep
  <2>10. CASE LineByte(c)
    BY <2>10, LineByteStep
  <2>11. CASE AnswerWrite(c)
    BY <2>11, AnswerWriteStep
  <2> QED BY <1>5, <2>1, <2>2, <2>3, <2>4, <2>5, <2>6, <2>7, <2>8, <2>9, <2>10, <2>11
          DEF ConnStep, ClientStep, UserStep, ServiceStep
<1>6. CASE UNCHANGED vars
  BY <1>6, StillStep DEF vars
<1> QED BY <1>1, <1>2, <1>3, <1>4, <1>5, <1>6 DEF Next

-----------------------------------------------------------------------------
LEMMA WireIntact ==
    ASSUME WireInv
    PROVE  BytesIntact
<1> SUFFICES ASSUME NEW c \in Clients
             PROVE  LineIntact(c) /\ AnswerIntact(c)
  BY DEF BytesIntact
<1>1. PICK k, s, ts, tc : At(c, k, s, ts, tc)
  BY WireAt
<1>2. Unread(s.rio) = s.rio.rio_buf /\ Unread(k.rio) = k.rio.rio_buf
  <2>1. UnreadGives(s.rio) /\ UnreadGives(k.rio)
    BY <1>1, UnreadIs DEF At, IsService, IsClient
  <2> QED BY <2>1 DEF UnreadGives
<1>3. Asked(c) = Asking(k, s, ts) /\ Told(c) = Telling(k, s, tc)
  BY <1>1, <1>2 DEF At, Asked, Told, Asking, Telling
<1>4. LineIntact(c)
  <2>1. CASE k.pc \in {"write", "read"} /\ s.pc # "closed"
    <3>1. Carries(k, s, ts, tc)
      BY <1>1, <2>1 DEF At, Wire, InUse
    <3>2. k.order \in Typed
      BY <1>1 DEF At, IsClient
    <3>3. Answer(k.order) # <<>>
      BY <3>2, AnswerTyped, LineTyped
    <3> QED BY <1>1, <1>3, <2>1, <3>1, <3>3 DEF LineIntact, Carries, At
  <2>2. CASE ~ (k.pc \in {"write", "read"} /\ s.pc # "closed")
    BY <1>1, <2>2 DEF LineIntact, At
  <2> QED BY <2>1, <2>2
<1>5. AnswerIntact(c)
  <2>1. CASE s.pc \notin {"none", "closed"} /\ k.pc \in {"read", "order"}
    <3>1. Carries(k, s, ts, tc)
      BY <1>1, <2>1 DEF At, Wire, InUse
    <3> QED BY <1>1, <1>3, <2>1, <3>1 DEF AnswerIntact, Carries, At
  <2>2. CASE ~ (s.pc \notin {"none", "closed"} /\ k.pc \in {"read", "order"})
    BY <1>1, <2>2 DEF AnswerIntact, At
  <2> QED BY <2>1, <2>2
<1> QED BY <1>4, <1>5

(***************************************************************************)
(* No byte of an order or of its answer is lost, doubled or reordered      *)
(* between client and server: rio_writen(), rio_readlineb() and            *)
(* rio_readnb() deliver them whatever read() and write() return, for       *)
(* every length of an answer, every size of the buffers and any number of  *)
(* clients, and however the processes end.                                 *)
(***************************************************************************)
THEOREM BytesSafe == Spec => []BytesIntact
<1>1. Init => ProcTyped /\ WireInv
  BY ProcInit, WireInit
<1>2. (ProcTyped /\ WireInv) /\ [Next]_vars => (ProcTyped /\ WireInv)'
  BY ProcNext, WireNext
<1>3. WireInv => BytesIntact
  BY WireIntact
<1> QED BY <1>1, <1>2, <1>3, PTL DEF Spec

-----------------------------------------------------------------------------
(***************************************************************************)
(* The phases of the benchmark.                                            *)
(***************************************************************************)
(* The steps of the clients and of the server start no client. *)
LEMMA ConnRuns ==
    ASSUME WireInv, NEW c \in Clients, ConnStep(c), NEW x \in Clients, Running(x)'
    PROVE  Running(x)
<1>1. CASE client' = client
  BY <1>1 DEF Running
<1>2. CASE /\ client[c].pc \in {"connect", "order", "write", "read"}
           /\ \E v : client' = [client EXCEPT ![c] = v]
  <2>1. client = [y \in Clients |-> client[y]]
    BY DEF WireInv
  <2>2. x # c => client'[x] = client[x]
    BY <1>2, <2>1
  <2> QED BY <1>2, <2>2 DEF Running
<1>3. CASE ServiceStep(c)
  BY <1>1, <1>3 DEF ServiceStep, LineRefill, LineByte, AnswerWrite
<1>4. CASE OpenClientfd(c)
  BY <1>2, <1>4 DEF OpenClientfd, Exit
<1>5. CASE Close(c) \/ EndOfInput(c)
  BY <1>2, <1>5 DEF Close, EndOfInput, Exit
<1>6. CASE random_q(c) \/ modify_q(c) \/ show_q(c) \/ MulticlientOrder(c) \/ TypedLine(c)
  <2>1. \E orders : NextOrder(c, orders)
    BY <1>6 DEF random_q, modify_q, show_q, MulticlientOrder, TypedLine
  <2> QED BY <1>2, <2>1 DEF NextOrder
<1>7. CASE RioWriten(c)
  BY <1>2, <1>7 DEF RioWriten
<1>8. CASE WriteClosed(c)
  BY <1>2, <1>8 DEF WriteClosed, Exit
<1>9. CASE ReadRefill(c)
  BY <1>2, <1>9 DEF ReadRefill
<1>10. CASE ReadReset(c)
  BY <1>2, <1>10 DEF ReadReset, Exit
<1>11. CASE ReadCopy(c)
  BY <1>2, <1>11 DEF ReadCopy
<1> QED BY <1>3, <1>4, <1>5, <1>6, <1>7, <1>8, <1>9, <1>10, <1>11
        DEF ConnStep, ClientStep, UserStep

LEMMA PhaseInit ==
    ASSUME Init
    PROVE  PhaseInv
<1>1. bench.phase = 0 /\ bench.pc = "start"
  BY DEF Init
<1>2. program = "benchmark" => \A c \in Clients : ~ Running(c)
  BY DEF Init, Running, NoClient
<1> QED BY <1>1, <1>2 DEF Init, PhaseInv, Benchmarking, Booting, BenchAt, NoParent

LEMMA PhaseBench ==
    ASSUME PhaseInv, ProcTyped, Bench
    PROVE  PhaseInv'
<1> USE DEF PhaseInv, ProcTyped, Benchmarking, Booting, Measuring, Running, MayRun, BenchAt,
       connVars
<1>1. CASE StartServer
  <2>1. /\ bench.pc = "start" /\ bench.phase = 0 /\ bench'.pc = "started" /\ bench'.phase = 0
        /\ UNCHANGED <<program, parent, client>>
    BY <1>1 DEF StartServer
  <2>2. CASE server'.pc = "dead"
    BY <2>1, <2>2
  <2>3. CASE server'.pc \in {"none", "starting"} /\ UNCHANGED pending
    BY <2>1, <2>3
  <2>4. CASE UNCHANGED <<server, pending>>
    <3>1. server.pc = "none"
      BY <1>1, <2>1 DEF StartServer
    <3> QED BY <2>1, <2>3, <2>4, <3>1
  <2> QED BY <1>1, <2>2, <2>3, <2>4 DEF StartServer
<1>2. CASE StartClients
  <2>1. /\ bench.pc = "start" /\ bench.phase > 0 /\ bench'.pc = "started"
        /\ bench'.phase = bench.phase /\ UNCHANGED <<program, server, client>>
    BY <1>2 DEF StartClients
  <2>2. CASE /\ StartParent(bench.num_client, bench.total_order, "none")
             /\ pending' = IF bench.num_client = 0 THEN pending \cup {"SIGCHLD"} ELSE pending
    <3>1. /\ parent'.pc \in {"fork", "killed"}
          /\ bench.num_client = 0 => parent'.pc = "killed"
      BY <2>2 DEF StartParent, NoParent
    <3> QED BY <2>1, <2>2, <3>1
  <2>3. CASE parent' = [NoParent EXCEPT !.pc = "failed"] /\ pending' = pending \cup {"SIGCHLD"}
    BY <2>1, <2>3 DEF NoParent
  <2>4. CASE UNCHANGED <<parent, pending>>
    BY <2>1, <2>4
  <2> QED BY <1>2, <2>2, <2>3, <2>4 DEF StartClients
<1>3. CASE Suspend
  BY <1>3 DEF Suspend
<1>4. CASE endclock
  BY <1>4 DEF endclock, Wakes, Deliverable
<1>5. CASE child_reaper
  BY <1>5 DEF child_reaper, Wakes, Deliverable
<1>6. CASE Report
  BY <1>6 DEF Report
<1>7. CASE Finish
  BY <1>7 DEF Finish, Dead
<1> QED BY <1>1, <1>2, <1>3, <1>4, <1>5, <1>6, <1>7 DEF Bench

LEMMA PhaseParent ==
    ASSUME PhaseInv, ProcTyped, WireInv, ParentStep
    PROVE  PhaseInv'
<1> USE DEF PhaseInv, ProcTyped, Benchmarking, Booting, Measuring, Running, MayRun, BenchAt,
       connVars, benchVars
<1>1. CASE ByHand
  BY <1>1 DEF ByHand
<1>2. CASE ForkClient /\ UNCHANGED benchVars
  <2>1. /\ parent.pc = "fork" /\ parent'.pc = "fork"
        /\ parent'.runprocess = parent.runprocess + 1
        /\ UNCHANGED <<program, server, bench, pending>>
    BY <1>2 DEF ForkClient
  <2>2. ASSUME NEW x \in Clients, x # parent.runprocess + 1
        PROVE  client'[x] = client[x]
    <3>1. client = [y \in Clients |-> client[y]]
      BY DEF WireInv
    <3> QED BY <1>2, <2>2, <3>1 DEF ForkClient
  <2>3. ASSUME Benchmarking, NEW x \in Clients, Running(x)'
        PROVE  MayRun(x)'
    <3>1. x <= parent.runprocess + 1
      <4>1. x # parent.runprocess + 1 => x <= parent.runprocess
        BY <2>1, <2>2, <2>3
      <4> QED BY <4>1 DEF Clients
    <3> QED BY <2>1, <3>1
  <2> QED BY <2>1, <2>3
<1>3. CASE AllForked /\ UNCHANGED benchVars
  <2>1. /\ parent.pc = "fork" /\ parent'.pc = "wait" /\ parent.runprocess = parent.num_client
        /\ parent'.num_client = parent.num_client /\ parent'.waited = 0
        /\ UNCHANGED <<program, server, client, bench, pending>>
    BY <1>3 DEF AllForked
  <2>2. ASSUME Benchmarking, NEW x \in Clients, Running(x)'
        PROVE  MayRun(x)'
    <3>1. x <= parent.runprocess
      BY <2>1, <2>2
    <3> QED BY <2>1, <3>1 DEF Clients
  <2> QED BY <2>1, <2>2
<1>4. CASE WaitClient /\ UNCHANGED benchVars
  <2>1. /\ parent.pc = "wait" /\ parent'.pc = "wait" /\ parent'.waited = parent.waited + 1
        /\ parent'.num_client = parent.num_client
        /\ UNCHANGED <<program, server, client, bench, pending>>
    BY <1>4 DEF WaitClient
  <2>2. ASSUME Benchmarking, NEW x \in Clients, Running(x)'
        PROVE  MayRun(x)'
    <3>1. parent.waited < x /\ x <= parent.num_client
      BY <2>1, <2>2
    <3>2. x # parent.waited + 1
      BY <1>4, <2>1, <2>2 DEF WaitClient
    <3> QED BY <2>1, <3>1, <3>2 DEF Clients
  <2> QED BY <2>1, <2>2
<1>5. CASE ParentEnds
  <2>1. /\ parent.pc \in {"fork", "wait"} /\ UNCHANGED <<program, server, client, bench>>
        /\ pending' = IF program = "benchmark" THEN pending \cup {"SIGCHLD"} ELSE pending
    BY <1>5 DEF ParentEnds, ParentExit, ForkFails
  <2>2. ASSUME Benchmarking, NEW x \in Clients, Running(x)'
        PROVE  parent'.pc = "failed"
    <3>1. Running(x)
      BY <2>1, <2>2
    <3>2. CASE ParentExit
      <4>1. parent.waited < x /\ x <= parent.num_client /\ parent.waited = parent.num_client
        BY <2>2, <3>1, <3>2 DEF ParentExit
      <4> QED BY <4>1 DEF Clients
    <3>3. CASE ForkFails
      BY <3>3 DEF ForkFails
    <3> QED BY <1>5, <3>2, <3>3 DEF ParentEnds
  <2>3. parent'.pc \in {"exited", "failed"}
    BY <1>5 DEF ParentEnds, ParentExit, ForkFails
  <2> QED BY <2>1, <2>2, <2>3
<1> QED BY <1>1, <1>2, <1>3, <1>4, <1>5 DEF ParentStep

LEMMA PhaseNext ==
    ASSUME PhaseInv, ProcTyped, WireInv, [Next]_vars
    PROVE  PhaseInv'
<1>1. CASE ServerStep
  BY <1>1 DEF ServerStep, ServerListen, ServerBooted, PhaseInv, ProcTyped, Benchmarking, Booting,
     Measuring, Running, MayRun, BenchAt,
       connVars, benchVars
<1>2. CASE ServerDies
  BY <1>2 DEF ServerDies, Dead, PhaseInv, ProcTyped, Benchmarking, BenchAt
<1>3. ASSUME NEW c \in Clients, ConnStep(c)
      PROVE  PhaseInv'
  <2>1. UNCHANGED <<program, server, parent>> /\ bench' = bench /\ pending' = pending
    BY <1>3 DEF ConnStep, ClientStep, UserStep, ServiceStep, OpenClientfd, Close, EndOfInput, random_q, modify_q, show_q,
       MulticlientOrder, TypedLine, NextOrder, RioWriten, WriteClosed, ReadRefill, ReadReset,
       ReadCopy, LineRefill, LineByte, AnswerWrite, benchVars
  <2>2. \A x \in Clients : Running(x)' => Running(x)
    BY <1>3, ConnRuns
  <2> QED BY <2>1, <2>2 DEF PhaseInv, Benchmarking, Booting, Measuring, MayRun, BenchAt
<1>4. CASE UNCHANGED vars
  BY <1>4 DEF vars, PhaseInv, Benchmarking, Booting, Measuring, Running, MayRun, BenchAt
<1> QED BY <1>1, <1>2, <1>3, <1>4, PhaseBench, PhaseParent DEF Next

LEMMA ProcsOK ==
    ASSUME WireInv, ProcTyped
    PROVE  TypeOK
<1>1. /\ bench.pc \in {"start", "started", "suspended", "woken", "exited"}
      /\ server.pc \in {"none", "starting", "bound", "serving", "dead"}
      /\ parent.pc \in {"none", "fork", "wait", "exited", "killed", "failed", "reaped"}
      /\ parent.runprocess \in 0 .. parent.num_client /\ parent.waited \in 0 .. parent.num_client
      /\ pending \subseteq Signals
  BY DEF ProcTyped
<1>2. ASSUME NEW c \in Clients
      PROVE  /\ client[c].left \in Nat /\ Len(client[c].buf) <= MAXLINE
             /\ client[c].rio.rio_cnt \in 0 .. RIO_BUFSIZE
             /\ Len(toServer[c]) <= SocketBuffer /\ Len(toClient[c]) <= SocketBuffer
  <2>1. PICK k, s, ts, tc : At(c, k, s, ts, tc)
    BY WireAt
  <2>2. IsClient(k) /\ Fits(k, ts, tc)
    BY <2>1 DEF At, Wire
  <2>3. PICK b, n : b = k.rio.rio_buf /\ n = Len(b)
    OBVIOUS
  <2>4. k.rio.rio_cnt = n /\ n \in 0 .. RIO_BUFSIZE
    <3>1. k.rio = [rio_cnt |-> n, rio_buf |-> b] /\ b \in Wires
      BY <2>2, <2>3 DEF IsClient, IsRio
    <3>2. n \in Nat /\ n <= RIO_BUFSIZE
      BY <2>2, <2>3, <3>1, LenProperties DEF Wires, Fits
    <3> QED BY <3>1, <3>2, RioAssumption
  <2>5. Len(k.buf) <= MAXLINE
    <3>1. Len(k.buf) \in Nat /\ Len(k.buf) < MAXLINE
      BY <2>2, LenProperties DEF IsClient, Wires
    <3> QED BY <3>1, ClientsAssumption
  <2> QED BY <2>1, <2>2, <2>4, <2>5 DEF At, Fits
<1> QED BY <1>1, <1>2 DEF TypeOK

PhasesInv == ProcTyped /\ WireInv /\ PhaseInv

(* The three invariants, on which both theorems rest. *)
LEMMA PhasesSafe == Spec => []PhasesInv
<1>1. Init => PhasesInv
  BY ProcInit, WireInit, PhaseInit DEF PhasesInv
<1>2. PhasesInv /\ [Next]_vars => PhasesInv'
  BY ProcNext, WireNext, PhaseNext DEF PhasesInv
<1> QED BY <1>1, <1>2, PTL DEF Spec

(***************************************************************************)
(* benchmark.c starts no client before the server has sent its SIGUSR1 or  *)
(* has ended, whatever the uninitialised mask of sigsuspend() blocks and   *)
(* however many clients and orders it is given; and no buffer of a client  *)
(* or of the kernel ever holds more than it can.                           *)
(***************************************************************************)
THEOREM FindServer == Spec => []ClientsFindServer
<1>1. PhasesInv => ClientsFindServer
  BY ProcsOK DEF PhasesInv, PhaseInv, ClientsFindServer
<1> QED BY <1>1, PhasesSafe, PTL

(***************************************************************************)
(* While the server runs, benchmark.c takes the time of a phase only when  *)
(* the multiclient process has been reaped and none of its clients runs:   *)
(* no SIGUSR1 and no SIGCHLD of an earlier phase can wake it before that.  *)
(***************************************************************************)
THEOREM PhaseTimed == Spec => PhaseTimesClients
<1> DEFINE Timed == bench.phase > 0 /\ bench.pc = "woken" /\ bench.pc' # "woken" /\ ServerUp
                    => parent.pc = "reaped" /\ \A c \in Clients : ~ Running(c)
<1>1. PhasesInv => Timed
  BY DEF PhasesInv, PhaseInv, Benchmarking, Measuring, MayRun, ServerUp
<1>2. PhasesInv /\ [Next]_vars => [Timed]_vars
  BY <1>1
<1> QED BY <1>2, PhasesSafe, PTL DEF Spec, PhaseTimesClients

-----------------------------------------------------------------------------
(***************************************************************************)
(* The functions of the library.  They recurse over data, and what is said *)
(* of them is proved through a least counterexample.                       *)
(***************************************************************************)
(* Every set of natural numbers has a least element. *)
LEMMA LeastElement ==
    ASSUME NEW T \in SUBSET Nat, T # {} PROVE \E x \in T : \A y \in T : x <= y
<1> DEFINE R == {xy \in Nat \X Nat : xy[1] < xy[2]}
<1>1. IsWellFoundedOn(R, Nat)
  BY NatLessThanWellFounded, Zenon DEF OpToRel
<1>2. \A y, x \in Nat : y < x => <<y, x>> \in R
  OBVIOUS
<1> HIDE DEF R
<1>3. PICK x \in T : \A y \in T : ~ (<<y, x>> \in R)
  BY <1>1, WFMin
<1>4. \A y \in T : y \in Nat /\ x \in Nat /\ ~ (y < x)
  BY <1>2, <1>3
<1>5. \A y \in T : x <= y
  BY <1>4
<1> QED BY <1>5

-----------------------------------------------------------------------------
(* A list of addresses from the one at k on. *)
IsWalk(f, addrs) ==
    f = [k \in 1 .. Len(addrs) + 1 |->
            IF k > Len(addrs) \/ addrs[k] = "stuck" THEN [rc |-> -1, opened |-> 0]
            ELSE IF addrs[k] = "ok" THEN [rc |-> k, opened |-> 1]
            ELSE f[k + 1]]

Usable(addrs, k) ==
    \E j \in k .. Len(addrs) : addrs[j] = "ok" /\ \A i \in k .. j - 1 : addrs[i] # "stuck"

Passed(a) == a # "ok" /\ a # "stuck"

(* An address that is passed changes nothing. *)
LEMMA UsableLater ==
    ASSUME NEW S, NEW addrs \in Seq(S), NEW k \in 1 .. Len(addrs), Passed(addrs[k])
    PROVE  Usable(addrs, k) <=> Usable(addrs, k + 1)
<1>1. Len(addrs) \in Nat
  OBVIOUS
<1>2. ASSUME NEW j \in k .. Len(addrs), addrs[j] = "ok", \A i \in k .. j - 1 : addrs[i] # "stuck"
      PROVE  Usable(addrs, k + 1)
  <2>1. j \in k + 1 .. Len(addrs)
    BY <1>1, <1>2 DEF Passed
  <2>2. \A i \in k + 1 .. j - 1 : i \in k .. j - 1
    BY <1>1
  <2> QED BY <1>2, <2>1, <2>2 DEF Usable
<1>3. ASSUME NEW j \in k + 1 .. Len(addrs), addrs[j] = "ok",
             \A i \in k + 1 .. j - 1 : addrs[i] # "stuck"
      PROVE  Usable(addrs, k)
  <2>1. j \in k .. Len(addrs)
    BY <1>1
  <2>2. \A i \in k .. j - 1 : i = k \/ i \in k + 1 .. j - 1
    BY <1>1
  <2> QED BY <1>3, <2>1, <2>2 DEF Usable, Passed
<1> QED BY <1>2, <1>3 DEF Usable

LEMMA StuckUnusable ==
    ASSUME NEW S, NEW addrs \in Seq(S), NEW k \in 1 .. Len(addrs), addrs[k] = "stuck"
    PROVE  ~ Usable(addrs, k)
<1>1. Len(addrs) \in Nat
  OBVIOUS
<1>2. \A j \in k .. Len(addrs) : j = k \/ k \in k .. j - 1
  BY <1>1
<1>3. addrs[k] # "ok"
  OBVIOUS
<1> QED BY <1>2, <1>3 DEF Usable

LEMMA WalkExists == ASSUME NEW S, NEW addrs \in Seq(S) PROVE \E f : IsWalk(f, addrs)
<1> DEFINE First(k, j) == /\ j \in k .. Len(addrs) /\ addrs[j] = "ok"
                          /\ \A i \in k .. j - 1 : addrs[i] # "ok"
           g == [k \in 1 .. Len(addrs) + 1 |->
                    IF Usable(addrs, k) THEN [rc |-> CHOOSE j \in Nat : First(k, j), opened |-> 1]
                    ELSE [rc |-> -1, opened |-> 0]]
<1>1. Len(addrs) \in Nat
  OBVIOUS
<1>2. ASSUME NEW k \in 1 .. Len(addrs), Passed(addrs[k])
      PROVE Usable(addrs, k) <=> Usable(addrs, k + 1)
  BY <1>2, UsableLater
<1>3. ASSUME NEW k \in 1 .. Len(addrs), addrs[k] # "ok", NEW j \in Nat
      PROVE First(k, j) <=> First(k + 1, j)
  <2>1. CASE j = k
    BY <2>1, <1>1, <1>3
  <2>2. CASE j # k
    <3>1. j \in k .. Len(addrs) <=> j \in k + 1 .. Len(addrs)
      BY <2>2, <1>1
    <3>2. \A i \in k .. j - 1 : i = k \/ i \in k + 1 .. j - 1
      OBVIOUS
    <3>3. \A i \in k + 1 .. j - 1 : i \in k .. j - 1
      OBVIOUS
    <3> QED BY <3>1, <3>2, <3>3, <1>3
  <2> QED BY <2>1, <2>2
<1>4. ASSUME NEW k \in 1 .. Len(addrs), addrs[k] # "ok"
      PROVE (CHOOSE j \in Nat : First(k, j)) = CHOOSE j \in Nat : First(k + 1, j)
  BY <1>3, <1>4
<1>5. ASSUME NEW k \in 1 .. Len(addrs), addrs[k] = "ok"
      PROVE (CHOOSE j \in Nat : First(k, j)) = k
  <2>1. First(k, k)
    BY <1>1, <1>5
  <2>2. \A j \in Nat : First(k, j) => j = k
    BY <1>1, <1>5
  <2> QED BY <2>1, <2>2
<1> HIDE DEF First
<1>6. ASSUME NEW k \in 1 .. Len(addrs) + 1
      PROVE g[k] = IF k > Len(addrs) \/ addrs[k] = "stuck" THEN [rc |-> -1, opened |-> 0]
                   ELSE IF addrs[k] = "ok" THEN [rc |-> k, opened |-> 1] ELSE g[k + 1]
  <2>1. CASE k > Len(addrs)
    BY <2>1, <1>1 DEF Usable
  <2>2. CASE k <= Len(addrs) /\ addrs[k] = "ok"
    <3>1. k \in 1 .. Len(addrs) /\ Usable(addrs, k) /\ ~ (k > Len(addrs))
      BY <2>2, <1>1 DEF Usable
    <3>2. (CHOOSE j \in Nat : First(k, j)) = k
      BY <3>1, <2>2, <1>5
    <3>3. g[k] = [rc |-> k, opened |-> 1]
      BY <3>1, <3>2
    <3> QED BY <3>1, <3>3, <2>2
  <2>3. CASE k <= Len(addrs) /\ Passed(addrs[k])
    <3>1. k \in 1 .. Len(addrs) /\ k + 1 \in 1 .. Len(addrs) + 1 /\ ~ (k > Len(addrs))
      BY <2>3, <1>1
    <3>2. Usable(addrs, k) <=> Usable(addrs, k + 1)
      BY <3>1, <2>3, <1>2
    <3>3. (CHOOSE j \in Nat : First(k, j)) = CHOOSE j \in Nat : First(k + 1, j)
      BY <3>1, <2>3, <1>4 DEF Passed
    <3>4. addrs[k] # "ok" /\ addrs[k] # "stuck"
      BY <2>3 DEF Passed
    <3> QED BY <3>1, <3>2, <3>3, <3>4
  <2>4. CASE k <= Len(addrs) /\ addrs[k] = "stuck"
    <3>1. k \in 1 .. Len(addrs)
      BY <2>4, <1>1
    <3>2. ~ Usable(addrs, k)
      BY <3>1, <2>4, StuckUnusable
    <3> QED BY <3>2, <2>4
  <2> QED BY <2>1, <2>2, <2>3, <2>4, <1>1 DEF Passed
<1>7. g = [k \in 1 .. Len(addrs) + 1 |-> g[k]]
  OBVIOUS
<1> HIDE DEF g
<1>8. IsWalk(g, addrs)
  BY <1>6, <1>7 DEF IsWalk
<1> QED BY <1>8

LEMMA WalkIs ==
    ASSUME NEW S, NEW addrs \in Seq(S)
    PROVE \E f : IsWalk(f, addrs) /\ Walk(addrs) = f[1]
<1>1. PICK g : IsWalk(g, addrs)
  BY WalkExists
<1> DEFINE Try[k \in 1 .. Len(addrs) + 1] ==
              IF k > Len(addrs) \/ addrs[k] = "stuck" THEN [rc |-> -1, opened |-> 0]
              ELSE IF addrs[k] = "ok" THEN [rc |-> k, opened |-> 1]
              ELSE Try[k + 1]
<1>2. IsWalk(Try, addrs)
  BY <1>1 DEF IsWalk
<1>3. Walk(addrs) = Try[1]
  BY DEF Walk
<1> HIDE DEF Try
<1> QED BY <1>2, <1>3

WalkGives(r, addrs, k) ==
    IF Usable(addrs, k) THEN r.rc \in Nat \ {0} /\ r.opened = 1
    ELSE r = [rc |-> -1, opened |-> 0]

LEMMA WalkOpens ==
    ASSUME NEW S, NEW addrs \in Seq(S) PROVE WalkGives(Walk(addrs), addrs, 1)
<1>1. PICK f : IsWalk(f, addrs) /\ Walk(addrs) = f[1]
  BY WalkIs
<1>2. Len(addrs) \in Nat
  OBVIOUS
<1> DEFINE n == Len(addrs)
           T == {n + 1 - k : k \in {i \in 1 .. n + 1 : ~ WalkGives(f[i], addrs, i)}}
<1>3. T \in SUBSET Nat
  BY <1>2
<1>4. ASSUME T # {} PROVE FALSE
  <2>1. PICK d \in T : \A e \in T : d <= e
    BY <1>3, <1>4, LeastElement
  <2>2. PICK k \in 1 .. n + 1 : d = n + 1 - k /\ ~ WalkGives(f[k], addrs, k)
    OBVIOUS
  <2>3. f[k] = IF k > n \/ addrs[k] = "stuck" THEN [rc |-> -1, opened |-> 0]
               ELSE IF addrs[k] = "ok" THEN [rc |-> k, opened |-> 1] ELSE f[k + 1]
    BY <1>1 DEF IsWalk
  <2>4. CASE k > n
    <3>1. ~ Usable(addrs, k)
      BY <2>4, <1>2 DEF Usable
    <3> QED BY <3>1, <2>2, <2>3, <2>4 DEF WalkGives
  <2>5. CASE k <= n /\ addrs[k] = "ok"
    <3>1. Usable(addrs, k)
      BY <2>5, <1>2 DEF Usable
    <3> QED BY <3>1, <2>2, <2>3, <2>5, <1>2 DEF WalkGives
  <2>6. CASE k <= n /\ Passed(addrs[k])
    <3>1. ASSUME ~ WalkGives(f[k + 1], addrs, k + 1) PROVE FALSE
      <4>1. k + 1 \in 1 .. n + 1 /\ n + 1 - (k + 1) < d
        BY <2>2, <2>6, <1>2
      <4>2. n + 1 - (k + 1) \in T
        BY <4>1, <3>1
      <4>3. d <= n + 1 - (k + 1)
        BY <2>1, <4>2
      <4> QED BY <4>1, <4>3, <2>2, <1>2
    <3>2. Usable(addrs, k) <=> Usable(addrs, k + 1)
      <4>1. k \in 1 .. Len(addrs)
        BY <1>2, <2>6
      <4> QED BY <4>1, <2>6, UsableLater
    <3>3. f[k] = f[k + 1]
      BY <2>3, <2>6, <1>2 DEF Passed
    <3> QED BY <3>1, <3>2, <3>3, <2>2 DEF WalkGives
  <2>7. CASE k <= n /\ addrs[k] = "stuck"
    <3>1. k \in 1 .. Len(addrs)
      BY <1>2, <2>7
    <3>2. ~ Usable(addrs, k)
      BY <3>1, <2>7, StuckUnusable
    <3> QED BY <3>2, <2>2, <2>3, <2>7 DEF WalkGives
  <2> QED BY <2>4, <2>5, <2>6, <2>7, <1>2 DEF Passed
<1>5. WalkGives(f[1], addrs, 1)
  BY <1>2, <1>4
<1> QED BY <1>1, <1>5

LEMMA OpensAlways ==
    ASSUME NEW S, AddrLists \subseteq Seq(S) PROVE OpensOne
<1> SUFFICES ASSUME NEW found \in BOOLEAN, NEW listens \in BOOLEAN, NEW addrs \in AddrLists
             PROVE LET usable == found /\ Reaches(addrs)
                       cl == open_clientfd(found, addrs)
                       li == open_listenfd(found, addrs, listens)
                   IN  /\ (cl.rc > 0) = usable /\ cl.opened = IF usable THEN 1 ELSE 0
                       /\ (li.rc > 0) = (usable /\ listens)
                       /\ li.opened = IF usable /\ listens THEN 1 ELSE 0
  BY DEF OpensOne
<1>1. PICK w : w = Walk(addrs)
  OBVIOUS
<1>2. WalkGives(w, addrs, 1)
  BY <1>1, WalkOpens
<1>3. DOMAIN addrs = 1 .. Len(addrs)
  OBVIOUS
<1>4. PICK u \in BOOLEAN : u = Reaches(addrs)
  BY DEF Reaches
<1>5. IF u THEN w.rc > 0 /\ w.opened = 1 ELSE w = [rc |-> -1, opened |-> 0]
  <2>1. u <=> Usable(addrs, 1)
    BY <1>3, <1>4 DEF Usable, Reaches
  <2> QED BY <2>1, <1>2 DEF WalkGives
<1>6. PICK c : c = open_clientfd(found, addrs)
  OBVIOUS
<1>7. IF found THEN c = w ELSE c = [rc |-> -2, opened |-> 0]
  BY <1>1, <1>6 DEF open_clientfd
<1>8. PICK l : l = open_listenfd(found, addrs, listens)
  OBVIOUS
<1>9. l = IF c.rc > 0 /\ ~ listens THEN [rc |-> -1, opened |-> 0] ELSE c
  BY <1>6, <1>8 DEF open_listenfd
<1>10. c.rc > 0 <=> found /\ u
  BY <1>5, <1>7
<1>11. c.opened = IF found /\ u THEN 1 ELSE 0
  BY <1>5, <1>7
<1>12. l.rc > 0 <=> found /\ u /\ listens
  BY <1>9, <1>10
<1>13. l.opened = IF found /\ u /\ listens THEN 1 ELSE 0
  BY <1>9, <1>10, <1>11
<1> QED BY <1>4, <1>6, <1>8, <1>10, <1>11, <1>12, <1>13

-----------------------------------------------------------------------------
(* The digits of a number, the last one first. *)
DigitsOf(f, b, n) == IF n \div b > 0 THEN <<n % b>> \o f[n \div b] ELSE <<n % b>>

IsDigits(f, b) ==
    f = [n \in Nat |-> IF n \div b > 0 THEN <<n % b>> \o f[n \div b] ELSE <<n % b>>]

DigitsBelow(f, b, n) ==
    DOMAIN f = Nat /\ \A m \in Nat : m < n => f[m] = DigitsOf(f, b, m)

LEMMA Quotient ==
    ASSUME NEW b \in Nat, b >= 2, NEW n \in Nat
    PROVE /\ n \div b \in Nat /\ n % b \in Nat
          /\ n \div b > 0 => n \div b < n
<1>1. n \div b \in Nat /\ n % b \in 0 .. b - 1
  OBVIOUS
<1>3. n > 0 => n \div b < n
  OBVIOUS
<1>4. n = 0 => n \div b = 0
  OBVIOUS
<1>5. PICK q \in Nat : q = n \div b
  BY <1>1
<1>6. q > 0 => q < n
  BY <1>3, <1>4, <1>5
<1> QED BY <1>1, <1>5, <1>6

LEMMA QuotientSum ==
    ASSUME NEW b \in Nat, b >= 2, NEW n \in Nat,
           NEW q \in Nat, q = n \div b, NEW r \in Nat, r = n % b
    PROVE b * q + r = n
OBVIOUS

LEMMA Mirror == \A n \in Nat : \A i \in 1 .. n : n + 1 - i \in 1 .. n
OBVIOUS

LEMMA DigitsAgree ==
    ASSUME NEW b \in Nat, b >= 2, NEW f, NEW g, NEW n \in Nat, NEW k \in Nat,
           DigitsBelow(f, b, n), DigitsBelow(g, b, k)
    PROVE \A m \in Nat : m < n /\ m < k => f[m] = g[m]
<1> DEFINE T == {m \in Nat : m < n /\ m < k /\ f[m] # g[m]}
<1>1. ASSUME T # {} PROVE FALSE
  <2>1. PICK m \in T : \A e \in T : m <= e
    BY <1>1, LeastElement
  <2>2. m \in Nat /\ m < n /\ m < k /\ f[m] # g[m]
    OBVIOUS
  <2>3. PICK q \in Nat : q = m \div b
    BY <2>2, Quotient
  <2>4. q > 0 => q < m
    BY <2>2, <2>3, Quotient
  <2>5. q > 0 => f[q] = g[q]
    <3> SUFFICES ASSUME q > 0, f[q] # g[q] PROVE FALSE
      OBVIOUS
    <3>1. q \in T
      BY <2>2, <2>4
    <3>2. m <= q
      BY <3>1, <2>1
    <3> QED BY <3>2, <2>2, <2>4
  <2>6. DigitsOf(f, b, m) = DigitsOf(g, b, m)
    BY <2>3, <2>5 DEF DigitsOf
  <2> QED BY <2>2, <2>6 DEF DigitsBelow
<1> QED BY <1>1

LEMMA DigitsExist == ASSUME NEW b \in Nat, b >= 2 PROVE \E f : IsDigits(f, b)
<1> DEFINE T == {n \in Nat : ~ \E f : DigitsBelow(f, b, n)}
<1>1. ASSUME T # {} PROVE FALSE
  <2>1. PICK n \in T : \A e \in T : n <= e
    BY <1>1, LeastElement
  <2>2. n \in Nat /\ ~ \E f : DigitsBelow(f, b, n)
    OBVIOUS
  <2>3. CASE n = 0
    <3> DEFINE f == [m \in Nat |-> 0]
    <3>1. DigitsBelow(f, b, 0)
      BY DEF DigitsBelow
    <3> QED BY <3>1, <2>2, <2>3
  <2>4. CASE n # 0
    <3>1. PICK c \in Nat : c = n - 1
      BY <2>2, <2>4
    <3>2. c \notin T
      BY <2>1, <2>2, <3>1
    <3>3. PICK f : DigitsBelow(f, b, c)
      BY <3>2
    <3>4. PICK v : v = DigitsOf(f, b, c)
      OBVIOUS
    <3> DEFINE g == [m \in Nat |-> IF m = c THEN v ELSE f[m]]
    <3>5. g[c] = v /\ \A m \in Nat : m # c => g[m] = f[m]
      OBVIOUS
    <3>6. DOMAIN g = Nat
      OBVIOUS
    <3> HIDE DEF g
    <3>7. ASSUME NEW m \in Nat, m < n PROVE g[m] = DigitsOf(g, b, m)
      <4>1. PICK q \in Nat : q = m \div b
        BY Quotient
      <4>2. q > 0 => q < m
        BY <4>1, Quotient
      <4>3. m <= c
        BY <3>1, <3>7, <2>2
      <4>4. q > 0 => g[q] = f[q]
        BY <4>2, <4>3, <3>5
      <4>5. DigitsOf(g, b, m) = DigitsOf(f, b, m)
        BY <4>1, <4>4 DEF DigitsOf
      <4>6. CASE m = c
        BY <4>5, <4>6, <3>4, <3>5
      <4>7. CASE m # c
        BY <4>3, <4>5, <4>7, <3>3, <3>5 DEF DigitsBelow
      <4> QED BY <4>6, <4>7
    <3>8. DigitsBelow(g, b, n)
      BY <3>6, <3>7 DEF DigitsBelow
    <3> QED BY <3>8, <2>2
  <2> QED BY <2>3, <2>4
<1>2. \A n \in Nat : \E f : DigitsBelow(f, b, n)
  BY <1>1
<1> DEFINE Upto(m) == CHOOSE f : DigitsBelow(f, b, m + 1)
           g == [m \in Nat |-> Upto(m)[m]]
<1>3. \A m \in Nat : DigitsBelow(Upto(m), b, m + 1)
  BY <1>2
<1>4. \A m \in Nat : g[m] = Upto(m)[m]
  OBVIOUS
<1>5. g = [m \in Nat |-> g[m]]
  OBVIOUS
<1> HIDE DEF Upto, g
<1>6. ASSUME NEW m \in Nat PROVE g[m] = DigitsOf(g, b, m)
  <2>1. PICK q \in Nat : q = m \div b
    BY Quotient
  <2>2. q > 0 => q < m
    BY <2>1, Quotient
  <2>3. Upto(m)[m] = DigitsOf(Upto(m), b, m)
    BY <1>3 DEF DigitsBelow
  <2>4. q > 0 => Upto(m)[q] = Upto(q)[q]
    <3>1. DigitsBelow(Upto(m), b, m + 1) /\ DigitsBelow(Upto(q), b, q + 1)
      BY <1>3
    <3>2. PICK m1 \in Nat : m1 = m + 1
      OBVIOUS
    <3>3. PICK q1 \in Nat : q1 = q + 1
      OBVIOUS
    <3>4. q > 0 => q < m1 /\ q < q1
      BY <2>2, <3>2, <3>3
    <3>5. \A x \in Nat : x < m1 /\ x < q1 => Upto(m)[x] = Upto(q)[x]
      BY <3>1, <3>2, <3>3, DigitsAgree
    <3> QED BY <3>4, <3>5
  <2>5. q > 0 => Upto(m)[q] = g[q]
    BY <2>4, <1>4
  <2>6. DigitsOf(Upto(m), b, m) = DigitsOf(g, b, m)
    BY <2>1, <2>5 DEF DigitsOf
  <2> QED BY <2>3, <2>6, <1>4
<1>7. IsDigits(g, b)
  BY <1>5, <1>6 DEF IsDigits, DigitsOf
<1> QED BY <1>7

(* A digit is no sign, and there is one. *)
LEMMA DigitsType ==
    ASSUME NEW b \in Nat, b >= 2, NEW f, IsDigits(f, b)
    PROVE \A n \in Nat : f[n] \in Seq(Nat) /\ Len(f[n]) > 0
<1> DEFINE T == {n \in Nat : ~ (f[n] \in Seq(Nat) /\ Len(f[n]) > 0)}
<1>1. ASSUME T # {} PROVE FALSE
  <2>1. PICK n \in T : \A e \in T : n <= e
    BY <1>1, LeastElement
  <2>2. n \in Nat /\ ~ (f[n] \in Seq(Nat) /\ Len(f[n]) > 0)
    OBVIOUS
  <2>3. PICK q \in Nat : q = n \div b
    BY <2>2, Quotient
  <2>4. PICK r \in Nat : r = n % b
    BY <2>2, Quotient
  <2>5. f[n] = IF q > 0 THEN <<r>> \o f[q] ELSE <<r>>
    BY <2>2, <2>3, <2>4 DEF IsDigits
  <2>6. q > 0 => q < n
    BY <2>2, <2>3, Quotient
  <2>7. CASE q > 0
    <3>1. q \notin T
      BY <2>1, <2>2, <2>6, <2>7
    <3>2. f[q] \in Seq(Nat)
      BY <3>1
    <3> QED BY <3>2, <2>2, <2>5, <2>7
  <2>8. CASE ~ (q > 0)
    BY <2>2, <2>5, <2>8
  <2> QED BY <2>7, <2>8
<1> QED BY <1>1

-----------------------------------------------------------------------------
(* What the first k digits denote. *)
IsValue(f, s, b) ==
    f = [k \in 0 .. Len(s) |->
            IF k = 0 THEN 0 ELSE IF s[k] = Minus THEN 0 ELSE b * f[k - 1] + s[k]]

ValueUpTo(f, s, b, n) ==
    /\ DOMAIN f = 0 .. Len(s) /\ f = [k \in 0 .. Len(s) |-> f[k]]
    /\ \A k \in 0 .. Len(s) : k <= n =>
         f[k] = IF k = 0 THEN 0 ELSE IF s[k] = Minus THEN 0 ELSE b * f[k - 1] + s[k]

LEMMA ValueExists ==
    ASSUME NEW b, NEW s \in Seq(Int) PROVE \E f : IsValue(f, s, b)
<1>0. PICK len \in Nat : len = Len(s)
  OBVIOUS
<1> DEFINE T == {n \in Nat : ~ \E f : ValueUpTo(f, s, b, n)}
<1>1. ASSUME T # {} PROVE FALSE
  <2>1. PICK n \in T : \A e \in T : n <= e
    BY <1>1, LeastElement
  <2>2. n \in Nat /\ ~ \E f : ValueUpTo(f, s, b, n)
    OBVIOUS
  <2>3. CASE n = 0
    <3> DEFINE f == [k \in 0 .. Len(s) |-> 0]
    <3>1. ValueUpTo(f, s, b, 0)
      BY <1>0 DEF ValueUpTo
    <3> QED BY <3>1, <2>2, <2>3
  <2>4. CASE n # 0
    <3>1. PICK m \in Nat : m = n - 1 /\ n = m + 1
      BY <2>2, <2>4
    <3>2. m \notin T
      BY <2>1, <2>2, <3>1
    <3>3. PICK f : ValueUpTo(f, s, b, m)
      BY <3>2
    <3>4. PICK v : v = IF s[n] = Minus THEN 0 ELSE b * f[m] + s[n]
      OBVIOUS
    <3> DEFINE g == [k \in 0 .. Len(s) |-> IF k = n THEN v ELSE f[k]]
    <3>5. \A k \in 0 .. Len(s) : g[k] = IF k = n THEN v ELSE f[k]
      OBVIOUS
    <3>6. DOMAIN g = 0 .. Len(s) /\ g = [k \in 0 .. Len(s) |-> g[k]]
      OBVIOUS
    <3> HIDE DEF g
    <3>7. ASSUME NEW k \in 0 .. Len(s), k <= n
          PROVE g[k] = IF k = 0 THEN 0 ELSE IF s[k] = Minus THEN 0 ELSE b * g[k - 1] + s[k]
      <4>1. k # 0 => k - 1 \in 0 .. Len(s) /\ k - 1 # n /\ g[k - 1] = f[k - 1]
        <5> SUFFICES ASSUME k # 0
                     PROVE k - 1 \in 0 .. Len(s) /\ k - 1 # n /\ g[k - 1] = f[k - 1]
          OBVIOUS
        <5>1. k - 1 \in 0 .. Len(s) /\ k - 1 # n
          BY <1>0, <2>2, <3>7
        <5> QED BY <5>1, <3>5
      <4>2. CASE k = n
        <5>1. k - 1 = m /\ k # 0
          BY <4>2, <3>1, <2>4
        <5>2. g[k] = v
          BY <4>2, <3>5
        <5> QED BY <5>1, <5>2, <4>1, <4>2, <3>4
      <4>3. CASE k # n
        <5>1. k <= m
          BY <4>3, <3>1, <3>7, <1>0
        <5>2. g[k] = f[k]
          BY <4>3, <3>5
        <5>3. f[k] = IF k = 0 THEN 0 ELSE IF s[k] = Minus THEN 0 ELSE b * f[k - 1] + s[k]
          BY <5>1, <3>3 DEF ValueUpTo
        <5> QED BY <5>2, <5>3, <4>1
      <4> QED BY <4>2, <4>3
    <3>8. ValueUpTo(g, s, b, n)
      BY <3>6, <3>7 DEF ValueUpTo
    <3> QED BY <3>8, <2>2
  <2> QED BY <2>3, <2>4
<1>2. PICK f : ValueUpTo(f, s, b, len)
  BY <1>1
<1>3. \A k \in 0 .. Len(s) : k <= len
  BY <1>0
<1>4. IsValue(f, s, b)
  BY <1>2, <1>3 DEF ValueUpTo, IsValue
<1> QED BY <1>4

LEMMA DenotesIs ==
    ASSUME NEW b, NEW s \in Seq(Int)
    PROVE \E f : /\ IsValue(f, s, b)
                 /\ Denotes(s, b) = IF s[1] = Minus THEN - f[Len(s)] ELSE f[Len(s)]
<1>1. PICK g : IsValue(g, s, b)
  BY ValueExists
<1> DEFINE Value[k \in 0 .. Len(s)] ==
              IF k = 0 THEN 0 ELSE IF s[k] = Minus THEN 0 ELSE b * Value[k - 1] + s[k]
<1>2. IsValue(Value, s, b)
  BY <1>1 DEF IsValue
<1>3. Denotes(s, b) = IF s[1] = Minus THEN - Value[Len(s)] ELSE Value[Len(s)]
  BY DEF Denotes
<1> HIDE DEF Value
<1> QED BY <1>2, <1>3

(* s has the digits d behind its first c places, the last one first. *)
HasDigits(s, c, d) ==
    /\ c + Len(d) <= Len(s)
    /\ \A i \in 1 .. Len(d) : s[c + i] = d[Len(d) + 1 - i]

LEMMA DigitsDenote ==
    ASSUME NEW b \in Nat, b >= 2, NEW f, IsDigits(f, b),
           NEW s \in Seq(Int), NEW g, IsValue(g, s, b), NEW c \in Nat, g[c] = 0
    PROVE \A n \in Nat : HasDigits(s, c, f[n]) => g[c + Len(f[n])] = n
<1> DEFINE T == {n \in Nat : HasDigits(s, c, f[n]) /\ g[c + Len(f[n])] # n}
<1>1. ASSUME T # {} PROVE FALSE
  <2>1. PICK n \in T : \A e \in T : n <= e
    BY <1>1, LeastElement
  <2>2. n \in Nat /\ HasDigits(s, c, f[n]) /\ g[c + Len(f[n])] # n
    OBVIOUS
  <2>3. PICK q \in Nat : q = n \div b
    BY <2>2, Quotient
  <2>4. PICK r \in Nat : r = n % b
    BY <2>2, Quotient
  <2>5. f[n] = IF q > 0 THEN <<r>> \o f[q] ELSE <<r>>
    BY <2>2, <2>3, <2>4 DEF IsDigits
  <2>6. b * q + r = n /\ (q > 0 => q < n)
    BY <2>2, <2>3, <2>4, Quotient, QuotientSum
  <2>7. PICK d \in Seq(Nat) : d = f[n] /\ Len(d) > 0
    BY <2>2, DigitsType
  <2>8. PICK k \in Nat : k = c + Len(d) /\ k # 0 /\ k \in 0 .. Len(s)
    BY <2>2, <2>7 DEF HasDigits
  <2>9. s[k] = d[1]
    <3>1. Len(d) \in 1 .. Len(d) /\ Len(d) + 1 - Len(d) = 1
      BY <2>7
    <3> QED BY <3>1, <2>2, <2>7, <2>8 DEF HasDigits
  <2>10. d[1] = r
    <3>1. CASE q > 0
      <4>1. f[q] \in Seq(Nat)
        BY DigitsType
      <4> QED BY <4>1, <3>1, <2>5, <2>7
    <3>2. CASE ~ (q > 0)
      BY <3>2, <2>5, <2>7
    <3> QED BY <3>1, <3>2
  <2>11. g[k] = b * g[k - 1] + r
    <3>1. g[k] = IF k = 0 THEN 0 ELSE IF s[k] = Minus THEN 0 ELSE b * g[k - 1] + s[k]
      BY <2>8 DEF IsValue
    <3>2. s[k] = r /\ r # Minus
      BY <2>9, <2>10 DEF Minus
    <3> QED BY <3>1, <3>2, <2>8
  <2>12. g[k - 1] = q
    <3>1. CASE q > 0
      <4>1. PICK e \in Seq(Nat) : e = f[q] /\ Len(e) > 0
        BY DigitsType
      <4>2. d = <<r>> \o e
        BY <3>1, <4>1, <2>5, <2>7
      <4>3. Len(d) = Len(e) + 1 /\ \A i \in 1 .. Len(e) : d[i + 1] = e[i]
        BY <4>1, <4>2
      <4>4. c + Len(e) <= Len(s)
        BY <4>1, <4>3, <2>8
      <4>5. ASSUME NEW i \in 1 .. Len(e) PROVE s[c + i] = e[Len(e) + 1 - i]
        <5>1. i \in 1 .. Len(d)
          BY <4>1, <4>3
        <5>2. s[c + i] = d[Len(d) + 1 - i]
          BY <5>1, <2>2, <2>7 DEF HasDigits
        <5>3. PICK j \in 1 .. Len(e) : j = Len(e) + 1 - i
          <6>1. PICK k1 \in Nat : k1 = Len(e)
            BY <4>1
          <6> QED BY <6>1, Mirror
        <5>4. Len(d) + 1 - i = j + 1
          BY <5>3, <4>1, <4>3
        <5> QED BY <5>2, <5>3, <5>4, <4>3
      <4>6. HasDigits(s, c, f[q])
        BY <4>1, <4>4, <4>5 DEF HasDigits
      <4>7. q \notin T
        BY <2>1, <2>2, <2>6, <3>1
      <4>8. g[c + Len(f[q])] = q
        BY <4>6, <4>7
      <4>9. c + Len(f[q]) = k - 1
        BY <4>1, <4>3, <2>8
      <4> QED BY <4>8, <4>9
    <3>2. CASE ~ (q > 0)
      <4>1. d = <<r>> /\ q = 0
        BY <3>2, <2>5, <2>7
      <4>2. k - 1 = c
        BY <4>1, <2>8
      <4> QED BY <4>1, <4>2
    <3> QED BY <3>1, <3>2
  <2>13. g[k] = n
    BY <2>6, <2>11, <2>12
  <2> QED BY <2>2, <2>7, <2>8, <2>13
<1> QED BY <1>1

LEMMA LoopIs ==
    ASSUME NEW b \in Nat, b >= 2
    PROVE \E f : IsDigits(f, b) /\ \A n \in Nat : LtoaLoop(n, b) = f[n]
<1>1. PICK g : IsDigits(g, b)
  BY DigitsExist
<1> DEFINE Digits[n \in Nat] ==
              IF n \div b > 0 THEN <<n % b>> \o Digits[n \div b] ELSE <<n % b>>
<1>2. IsDigits(Digits, b)
  BY <1>1 DEF IsDigits
<1>3. \A n \in Nat : LtoaLoop(n, b) = Digits[n]
  BY DEF LtoaLoop
<1> HIDE DEF Digits
<1> QED BY <1>2, <1>3

LEMMA LtoaIs ==
    ASSUME NEW b \in Nat, b >= 2, NEW v \in Int
    PROVE \E f : /\ IsDigits(f, b)
                 /\ sio_ltoa(v, b) = sio_reverse(IF v < 0 THEN Append(f[- v], Minus) ELSE f[v])
<1>1. PICK f : IsDigits(f, b) /\ \A n \in Nat : LtoaLoop(n, b) = f[n]
  BY LoopIs
<1>2. CASE v < 0
  <2>1. LtoaLoop(-v, b) = f[- v]
    BY <1>1, <1>2
  <2> QED BY <1>1, <1>2, <2>1 DEF sio_ltoa
<1>3. CASE ~ (v < 0)
  <2>1. LtoaLoop(v, b) = f[v]
    BY <1>1, <1>3
  <2> QED BY <1>1, <1>3, <2>1 DEF sio_ltoa
<1> QED BY <1>2, <1>3

(* The two copies agree on what is not negative. *)
LEMMA ClientLtoaIs ==
    ASSUME NEW b, NEW v \in Int, v >= 0
    PROVE  client_sio_ltoa(v, b) = sio_ltoa(v, b)
BY DEF client_sio_ltoa, sio_ltoa

LEMMA ReverseIs ==
    ASSUME NEW t \in Seq(Int)
    PROVE /\ sio_reverse(t) \in Seq(Int) /\ Len(sio_reverse(t)) = Len(t)
          /\ \A i \in 1 .. Len(t) : sio_reverse(t)[i] = t[Len(t) + 1 - i]
<1>1. \A i \in 1 .. Len(t) : Len(t) + 1 - i \in 1 .. Len(t)
  OBVIOUS
<1> QED BY <1>1 DEF sio_reverse

LEMMA LtoaAlways ==
    ASSUME NEW b \in Nat, b >= 2, NEW v \in Int PROVE Denotes(sio_ltoa(v, b), b) = v
<1>1. PICK f : /\ IsDigits(f, b)
               /\ sio_ltoa(v, b) = sio_reverse(IF v < 0 THEN Append(f[- v], Minus) ELSE f[v])
  BY LtoaIs
<1>2. PICK n \in Nat : n = IF v < 0 THEN - v ELSE v
  OBVIOUS
<1>3. PICK d \in Seq(Nat) : d = f[n] /\ Len(d) > 0
  BY <1>1, DigitsType
<1>4. PICK t \in Seq(Int) : t = IF v < 0 THEN Append(d, Minus) ELSE d
  <2>1. d \in Seq(Int)
    BY <1>3
  <2>2. Append(d, Minus) \in Seq(Int)
    BY <2>1 DEF Minus
  <2> QED BY <2>1, <2>2
<1>5. PICK s \in Seq(Int) : s = sio_reverse(t)
  BY ReverseIs
<1>6. sio_ltoa(v, b) = s
  BY <1>1, <1>2, <1>3, <1>4, <1>5
<1>7. Len(s) = Len(t) /\ \A i \in 1 .. Len(t) : s[i] = t[Len(t) + 1 - i]
  BY <1>4, <1>5, ReverseIs
<1>8. PICK g : /\ IsValue(g, s, b)
               /\ Denotes(s, b) = IF s[1] = Minus THEN - g[Len(s)] ELSE g[Len(s)]
  BY DenotesIs
<1>9. \A i \in 1 .. Len(d) : d[i] \in Nat
  BY <1>3
<1>10. CASE v < 0
  <2>1. Len(t) = Len(d) + 1 /\ t[Len(t)] = Minus /\ \A i \in 1 .. Len(d) : t[i] = d[i]
    BY <1>3, <1>4, <1>10
  <2>2. s[1] = Minus
    <3>1. 1 \in 1 .. Len(t) /\ Len(t) + 1 - 1 = Len(t)
      BY <2>1, <1>3
    <3> QED BY <3>1, <2>1, <1>7
  <2>3. ASSUME NEW i \in 1 .. Len(d) PROVE s[1 + i] = d[Len(d) + 1 - i]
    <3>0. PICK k \in Nat : k = Len(d)
      BY <1>3
    <3>1. PICK j \in 1 .. Len(d) : j = Len(d) + 1 - i
      BY <3>0, Mirror
    <3>2. 1 + i \in 1 .. Len(t) /\ Len(t) + 1 - (1 + i) = j
      BY <2>1, <3>0, <3>1
    <3>3. s[1 + i] = t[j]
      BY <3>2, <1>7
    <3> QED BY <3>1, <3>3, <2>1
  <2>4. HasDigits(s, 1, f[n])
    BY <2>1, <2>3, <1>3, <1>7 DEF HasDigits
  <2>5. g[1] = 0
    <3>1. 1 \in 0 .. Len(s)
      BY <2>1, <1>3, <1>7
    <3>2. g[1] = IF 1 = 0 THEN 0 ELSE IF s[1] = Minus THEN 0 ELSE b * g[1 - 1] + s[1]
      BY <3>1, <1>8 DEF IsValue
    <3> QED BY <3>2, <2>2
  <2>6. g[1 + Len(f[n])] = n
    BY <2>4, <2>5, <1>1, <1>8, DigitsDenote
  <2>7. 1 + Len(f[n]) = Len(s)
    BY <2>1, <1>3, <1>7
  <2>8. Denotes(s, b) = - n
    BY <2>2, <2>6, <2>7, <1>8
  <2> QED BY <2>8, <1>2, <1>6, <1>10
<1>11. CASE ~ (v < 0)
  <2>1. t = d
    BY <1>4, <1>11
  <2>2. s[1] # Minus
    <3>1. 1 \in 1 .. Len(d) /\ Len(d) + 1 - 1 \in 1 .. Len(d)
      BY <1>3
    <3>2. s[1] = d[Len(d) + 1 - 1]
      BY <3>1, <2>1, <1>7
    <3>3. s[1] \in Nat
      BY <3>1, <3>2, <1>9
    <3> QED BY <3>3 DEF Minus
  <2>3. HasDigits(s, 0, f[n])
    BY <2>1, <1>3, <1>7 DEF HasDigits
  <2>4. g[0] = 0
    BY <1>8 DEF IsValue
  <2>5. g[0 + Len(f[n])] = n
    BY <2>3, <2>4, <1>1, <1>8, DigitsDenote
  <2>6. 0 + Len(f[n]) = Len(s)
    BY <2>1, <1>3, <1>7
  <2>7. Denotes(s, b) = n
    BY <2>2, <2>5, <2>6, <1>8
  <2> QED BY <2>7, <1>2, <1>6, <1>11
<1> QED BY <1>10, <1>11

(***************************************************************************)
(* open_clientfd() and open_listenfd() of csapp.c leave one descriptor     *)
(* open exactly when they succeed, whatever the addresses and close() do,  *)
(* and succeed when an address works that no failed close() keeps them     *)
(* from; and what sio_ltoa() writes denotes its argument, for every        *)
(* integer and every base, in the clients' copy for those not negative.    *)
(***************************************************************************)
THEOREM LibraryCorrect == Spec => []LibraryKeepsPromises
<1>1. OpensOne
  BY LibraryAssumption, OpensAlways
<1>2. LtoaDenotes
  <2>1. \A v \in Numbers, b \in Bases : v \in Int /\ b \in Nat /\ b >= 2
    BY LibraryAssumption
  <2>2. \A v \in Numbers, b \in Bases : Denotes(sio_ltoa(v, b), b) = v
    BY <2>1, LtoaAlways
  <2>3. \A v \in Numbers, b \in Bases : v >= 0 => client_sio_ltoa(v, b) = sio_ltoa(v, b)
    BY <2>1, ClientLtoaIs
  <2> QED BY <2>2, <2>3 DEF LtoaDenotes
<1>3. LibraryKeepsPromises
  BY <1>1, <1>2 DEF LibraryKeepsPromises
<1> QED BY <1>3, PTL

=============================================================================
