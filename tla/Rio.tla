-------------------------------- MODULE Rio --------------------------------
(***************************************************************************)
(* The buffered I/O and the connection helpers of the CS:APP library.      *)
(* There are three copies: csapp.c, the one under client/ that the stock   *)
(* clients link, and util.c of the servers.  The buffered I/O is the same  *)
(* in all of them; where the others differ, it is said below.  A system    *)
(* call is one step: what it may return is a set of results, and the loops *)
(* around it are steps of the caller.                                      *)
(***************************************************************************)
EXTENDS Integers, Sequences

CONSTANT RIO_BUFSIZE    \* size of rio_buf

ASSUME RioAssumption == RIO_BUFSIZE \in Nat \ {0}

Least(a, b) == IF a < b THEN a ELSE b
Drop(s, k) == SubSeq(s, k + 1, Len(s))

-----------------------------------------------------------------------------
(***************************************************************************)
(* read() of at most n bytes from a socket that holds the bytes net: some  *)
(* of them, the end of the file when the peer has closed, or EINTR.  With  *)
(* nothing to read only a signal makes it return.                          *)
(***************************************************************************)
EINTR == [rc |-> -1, got |-> <<>>]
EOF == [rc |-> 0, got |-> <<>>]

read(net, closed, n) ==
    {[rc |-> k, got |-> SubSeq(net, 1, k)] : k \in 1 .. Least(n, Len(net))}
    \cup {EINTR} \cup {r \in {EOF} : net = <<>> /\ closed}

(***************************************************************************)
(* A rio_t: the number of unread bytes, and these bytes.  EINTR leaves -1  *)
(* in rio_cnt, which rio_read() takes for 0.                               *)
(***************************************************************************)
rio_readinitb == [rio_cnt |-> 0, rio_buf |-> <<>>]

NeedsRefill(rp) == rp.rio_cnt <= 0

(* rio_read() after read() has returned r. *)
Refill(r) == [rio_cnt |-> Len(r.got), rio_buf |-> r.got]

(* rio_read() returns 0; after EINTR it calls read() again. *)
AtEOF(r) == r.rc = 0

(* What rio_read() copies out of the buffer, and the buffer then. *)
Copied(rp, n) == SubSeq(rp.rio_buf, 1, Least(n, rp.rio_cnt))

AfterCopy(rp, n) ==
    LET cnt == Least(n, rp.rio_cnt)
    IN  [rio_cnt |-> rp.rio_cnt - cnt, rio_buf |-> Drop(rp.rio_buf, cnt)]

(***************************************************************************)
(* One round of the loop of rio_readnb(), which wants n bytes and has buf: *)
(* it goes on until it has them all.                                       *)
(***************************************************************************)
rio_readnb(rp, buf, n) ==
    LET nleft == n - Len(buf)
        got == Copied(rp, nleft)
    IN  [rio |-> AfterCopy(rp, nleft), buf |-> buf \o got, done |-> Len(got) = nleft]

(* Variant: the newline is not looked at. *)
LineEnds_Full(line, maxlen) == Len(line) = maxlen - 1

(* A line ends with a newline, or when the buffer is full. *)
LineEnds(line, maxlen) == line[Len(line)] = "newline" \/ Len(line) = maxlen - 1

(* One round of the loop of rio_readlineb(), which reads byte by byte. *)
rio_readlineb(rp, line, maxlen) ==
    LET now == line \o Copied(rp, 1)
    IN  [rio |-> AfterCopy(rp, 1), line |-> now, done |-> LineEnds(now, maxlen)]

(* Variant: the buffer pointer is not advanced after a short write. *)
AfterWrite_Again(left, k) == SubSeq(left, 1, Len(left) - k)

(* rio_writen() after write() has taken k bytes (0 for EINTR) of left. *)
AfterWrite(left, k) == Drop(left, k)

-----------------------------------------------------------------------------
(***************************************************************************)
(* open_clientfd() and open_listenfd(): the list of addresses is walked    *)
(* until one works.  An address is "nosocket" when socket() fails,         *)
(* "refused" when connect() or bind() fails, "stuck" when then close()     *)
(* fails as well, else "ok"; opened counts the descriptors that are left   *)
(* open (the kernel frees one even when close() reports an error).  A      *)
(* close() that fails ends the walk with -1; in the clients' copy it ends  *)
(* the process, as a failing getaddrinfo() does, and in the servers' copy  *)
(* nobody looks at either.                                                 *)
(***************************************************************************)
(* Variant: a socket that could not be connected is not closed. *)
Walk_NoClose(addrs) ==
    LET Try[k \in 1 .. Len(addrs) + 1] ==
          IF k > Len(addrs) THEN [rc |-> -1, opened |-> 0]
          ELSE CASE addrs[k] = "nosocket" -> Try[k + 1]
                 [] addrs[k] \in {"refused", "stuck"} ->
                      LET t == Try[k + 1] IN [t EXCEPT !.opened = @ + 1]
                 [] addrs[k] = "ok" -> [rc |-> k, opened |-> 1]
    IN  Try[1]

Walk(addrs) ==
    LET Try[k \in 1 .. Len(addrs) + 1] ==
          IF k > Len(addrs) \/ addrs[k] = "stuck" THEN [rc |-> -1, opened |-> 0]
          ELSE IF addrs[k] = "ok" THEN [rc |-> k, opened |-> 1]
          ELSE Try[k + 1]
    IN  Try[1]

(* found: getaddrinfo() succeeds. *)
open_clientfd(found, addrs) ==
    IF found THEN Walk(addrs) ELSE [rc |-> -2, opened |-> 0]

(* A socket that listen() refuses is closed again. *)
open_listenfd(found, addrs, listens) ==
    LET w == open_clientfd(found, addrs)
    IN  IF w.rc > 0 /\ ~ listens THEN [rc |-> -1, opened |-> 0] ELSE w

-----------------------------------------------------------------------------
sio_reverse(s) == [k \in 1 .. Len(s) |-> s[Len(s) + 1 - k]]

(***************************************************************************)
(* sio_ltoa(): the digits of v in base b, the last one first, then a sign, *)
(* then the whole reversed.  A digit is its number (any base), and other   *)
(* characters are what they are less '0': '-' is the third before it.  v   *)
(* is any long but the least, whose negation overflows.                    *)
(***************************************************************************)
Minus == -3

LtoaLoop(v, b) ==
    LET Digits[n \in Nat] ==
          IF n \div b > 0 THEN <<n % b>> \o Digits[n \div b] ELSE <<n % b>>
    IN  Digits[v]

sio_ltoa(v, b) ==
    sio_reverse(IF v < 0 THEN Append(LtoaLoop(-v, b), Minus) ELSE LtoaLoop(v, b))

(* The clients' copy has no sign: of a negative number it writes one       *)
(* character, '0' less the last digit, as v / b is not positive then.      *)
client_sio_ltoa(v, b) ==
    sio_reverse(IF v < 0 THEN <<-((-v) % b)>> ELSE LtoaLoop(v, b))

(* Reference: the number that a sequence of digits stands for. *)
Denotes(s, b) ==
    LET Value[k \in 0 .. Len(s)] ==
          IF k = 0 THEN 0 ELSE IF s[k] = Minus THEN 0 ELSE b * Value[k - 1] + s[k]
    IN  IF s[1] = Minus THEN -Value[Len(s)] ELSE Value[Len(s)]

=============================================================================
