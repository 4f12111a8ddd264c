---------------------------- MODULE SockBackend ----------------------------
(***************************************************************************)
(* The backends that use the sockets of an operating system: w_nic_rx(),   *)
(* w_rx_ready(), w_rx() and w_tx() between the kernel's receive queues and *)
(* an application that serves the sockets it is told are ready.  How they  *)
(* are built is in w->backend_variant:                                     *)
(*   "mmsg"  backend_sock.c with epoll or kqueue, recvmmsg() and sendmmsg()*)
(*   "msg"   the same with recvmsg() and sendmsg()                         *)
(*   "riot"  backend_riot.c with select(), recvfrom() and sendto()         *)
(*                                                                         *)
(* Datagrams of a socket are numbered as they arrive, modulo Seqs, so that *)
(* loss and reordering show without a bound on the number of arrivals.     *)
(***************************************************************************)
EXTENDS Integers, Sequences, FiniteSets, Functions

CONSTANTS
    Sock,       \* sockets
    None,       \* no socket
    NBufs,      \* w_iovs
    EvMax,      \* size of b->ev (64)
    RecvSize,   \* RECV_SIZE (64)
    SendSize,   \* SEND_SIZE (64)
    MaxQ,       \* bound on the kernel's receive queues
    Seqs,       \* datagram numbers
    Empty,      \* the numbers of datagrams without payload
    Variants    \* the ways of building it that are looked at

Iov == 1 .. NBufs

ASSUME ConstAssumption ==
    /\ NBufs \in Nat \ {0} /\ EvMax \in Nat \ {0}
    /\ RecvSize \in Nat \ {0} /\ SendSize \in Nat \ {0}
    /\ MaxQ \in Nat \ {0} /\ Seqs \in Nat /\ Seqs > MaxQ
    /\ None \notin Sock /\ Variants \subseteq {"mmsg", "msg", "riot"}

VARIABLES
    variant,    \* w->backend_variant
    inetd,      \* the application is a loop like that of inetd.c: w_nic_rx(), then
                \* w_rx_ready(), then w_rx(), w_tx() and w_free() for each socket
    open,       \* sockets between w_bind() and w_close()
    kq,         \* external: the kernel's receive queue of each socket
    arr,        \* history: number of the last datagram that arrived
    ep,         \* external: the ready list of the epoll instance b->ep
    ev,         \* b->ev[0 .. n-1]: the events fetched but not yet reported
    told,       \* inetd.c: w_nic_rx() has returned true, w_rx_ready() is next
    socks,      \* b->socks (riot)
    fds,        \* b->fds (riot): the descriptors select() found readable
    sl,         \* the application's list of sockets to serve
    rxs,        \* the socket in w_rx(), or none
    pool,       \* w->iov: the spare w_iovs
    app,        \* w_iovs of the application
    got,        \* history: number of the last datagram w_rx() returned
    tx          \* w_tx(): its queue, the index of v, and what the kernel took

build    == <<variant, inetd>>
sockVars == <<build, open, kq, arr, ep, socks>>
evVars   == <<ev, told, fds, sl>>
vars == <<sockVars, evVars, rxs, pool, app, got, tx>>

Riot == variant = "riot"
RecvMax == IF variant = "mmsg" THEN RecvSize ELSE 1
SendMax == IF variant = "mmsg" THEN SendSize ELSE 1

NoTx == [o |-> <<>>, i |-> 1, wire |-> <<>>]
Idle == rxs = None /\ tx = NoTx

Least(a, b) == IF a < b THEN a ELSE b
Succ(n) == (n + 1) % Seqs
Prefix(s, n) == SubSeq(s, 1, n)
Rest(s, n) == SubSeq(s, n + 1, Len(s))
Reversed(s) == [i \in 1 .. Len(s) |-> s[Len(s) + 1 - i]]

\* The elements of s that are in T, in the order of s.
Select(s, T) ==
    LET I == {i \in DOMAIN s : s[i] \in T}
        rank(i) == Cardinality({h \in I : h <= i})
    IN  [k \in 1 .. Cardinality(I) |-> s[CHOOSE i \in I : rank(i) = k]]

Without(s, x) == Select(s, Range(s) \ {x})

-----------------------------------------------------------------------------
(* The kernel.                                                             *)

\* A datagram arrives on an open socket.
Arrive(s) ==
    /\ s \in open /\ Len(kq[s]) < MaxQ
    /\ arr' = [arr EXCEPT ![s] = Succ(@)]
    /\ kq' = [kq EXCEPT ![s] = Append(@, Succ(arr[s]))]
    /\ ep' = IF Riot \/ s \in Range(ep) THEN ep ELSE Append(ep, s)
    /\ UNCHANGED <<build, open, socks, evVars, rxs, pool, app, got, tx>>

\* epoll_wait(), level-triggered: what it reports goes to the end of the ready
\* list if it still has data.
Ready == Select(ep, {s \in Sock : kq[s] # <<>>})
Events == Prefix(Ready, Least(EvMax, Len(Ready)))
EpollWait == ep' = Rest(Ready, Len(Events)) \o Events

-----------------------------------------------------------------------------
(* The backend.                                                            *)

\* backend_riot.c: a socket goes to the head of b->socks, and leaves it.
SocksBound(s) == IF Riot THEN <<s>> \o socks ELSE socks
SocksClosed(s) == Without(socks, s)

\* w_bind(): socket(), bind() and EPOLL_CTL_ADD.  A descriptor that was closed is
\* used again.
Bind(s) ==
    /\ Idle /\ s \notin open
    /\ open' = open \cup {s}
    /\ socks' = SocksBound(s)
    /\ UNCHANGED <<build, kq, arr, ep, evVars, rxs, pool, app, got, tx>>

\* w_close(): EPOLL_CTL_DEL and close().  The application forgets the socket;
\* b->ev and b->fds do not.
Close(s) ==
    /\ Idle /\ s \in open /\ ~inetd
    /\ open' = open \ {s}
    /\ socks' = SocksClosed(s)
    /\ kq' = [kq EXCEPT ![s] = <<>>]
    /\ arr' = [arr EXCEPT ![s] = 0] /\ got' = [got EXCEPT ![s] = 0]
    /\ ep' = Without(ep, s)
    /\ sl' = Without(sl, s)
    /\ UNCHANGED <<build, ev, told, fds, rxs, pool, app, tx>>

\* Where the loop of inetd.c calls w_nic_rx(); what is read is freed by then.
TurnNicRx == Idle /\ (inetd => ~told /\ sl = <<>> /\ app = {})

\* w_nic_rx() with epoll_wait() ...
NicRx ==
    /\ TurnNicRx /\ ~Riot
    /\ EpollWait /\ ev' = Events
    /\ told' = (inetd /\ ev' # <<>>)
    /\ UNCHANGED <<build, open, kq, arr, socks, fds, sl, rxs, pool, app, got, tx>>

\* ... that a signal interrupts: b->n is -1.
NicRxInterrupted ==
    /\ TurnNicRx /\ ~Riot
    /\ ev' = <<>>
    /\ UNCHANGED <<sockVars, told, fds, sl, rxs, pool, app, got, tx>>

\* Mutant: bits of the last call are not cleared.
FdsKept == fds \cup {s \in Range(socks) : kq[s] # <<>>}

\* Mutant: select() is given the descriptor of the first socket as the largest.
FdsFirst == {s \in Range(socks) : s = Head(socks) /\ kq[s] # <<>>}

\* FD_ZERO(), FD_SET() of every socket, select().
FdsReady == {s \in Range(socks) : kq[s] # <<>>}

\* w_nic_rx() with select().
NicRxSelect ==
    /\ TurnNicRx /\ Riot
    /\ fds' = FdsReady
    /\ told' = (inetd /\ fds' # {})
    /\ UNCHANGED <<sockVars, ev, sl, rxs, pool, app, got, tx>>

\* w_rx_ready(): report the events at hand, or fetch some if there are none; each
\* socket goes to the head of the list.
RxReady ==
    /\ Idle /\ ~Riot /\ sl = <<>> /\ (inetd => told)
    /\ IF ev # <<>> THEN sl' = Reversed(ev) /\ UNCHANGED ep
                    ELSE EpollWait /\ sl' = Reversed(Events)
    /\ ev' = <<>> /\ told' = FALSE
    /\ UNCHANGED <<build, open, kq, arr, socks, fds, rxs, pool, app, got, tx>>

\* w_rx_ready() with FD_ISSET() of every socket.  Only w_nic_rx() clears a bit, and
\* the loop of inetd.c calls it first.
RxReadySelect ==
    /\ Idle /\ Riot /\ sl = <<>> /\ (inetd => told)
    /\ sl' = Reversed(Select(socks, fds))
    /\ told' = FALSE
    /\ UNCHANGED <<sockVars, ev, fds, rxs, pool, app, got, tx>>

\* The application calls w_rx() on the next socket of its list (a pointer to a
\* closed one, which ReadyOpen is about, is skipped here) ...
Serve ==
    /\ Idle /\ sl # <<>> /\ (inetd => app = {})
    /\ sl' = Tail(sl)
    /\ rxs' = IF Head(sl) \in open THEN Head(sl) ELSE None
    /\ UNCHANGED <<sockVars, ev, told, fds, pool, app, got, tx>>

\* ... or, as test/common.c does, on a socket of its choice.
RxAny(s) ==
    /\ Idle /\ s \in open /\ ~inetd
    /\ rxs' = s
    /\ UNCHANGED <<sockVars, evVars, pool, app, got, tx>>

\* Mutant: unused buffers are not returned.
UnusedKept(n, nbufs) == Rest(pool, nbufs)

\* w_free_iov() of v[n] .. v[nbufs-1], each to the head of the pool.
UnusedFreed(n, nbufs) ==
    [i \in 1 .. nbufs - n |-> pool[nbufs + 1 - i]] \o Rest(pool, nbufs)

\* Mutant: w_rx() inserts at the head of its result.
InsertedHead(n) == Reversed([j \in 1 .. n |-> j])

\* The order in which w_rx() appends n messages to its result.
Inserted(n) == [j \in 1 .. n |-> j]

NBufsTaken == Least(RecvMax, Len(pool))

\* One pass through w_rx()'s loop in which recvmmsg() returns n messages.
RxBatch(n) ==
    LET s == rxs IN
    /\ s # None /\ ~Riot /\ pool # <<>>
    /\ n \in 1 .. Least(NBufsTaken, Len(kq[s]))
    /\ variant = "msg" => Head(kq[s]) \notin Empty
    /\ kq' = [kq EXCEPT ![s] = Rest(@, n)]
    /\ got' = [got EXCEPT ![s] = kq[s][Inserted(n)[n]]]
    /\ app' = app \cup {pool[j] : j \in Range(Inserted(n))}
    /\ pool' = UnusedFreed(n, NBufsTaken)
    /\ rxs' = IF n = RecvMax THEN s ELSE None
    /\ UNCHANGED <<build, open, arr, ep, socks, evVars, tx>>

\* recvmsg() returns the length of the datagram: if that is zero, w_rx() takes it
\* for the end of the data.
RxEmpty ==
    LET s == rxs IN
    /\ s # None /\ variant = "msg" /\ pool # <<>>
    /\ kq[s] # <<>> /\ Head(kq[s]) \in Empty
    /\ kq' = [kq EXCEPT ![s] = Tail(@)]
    /\ got' = [got EXCEPT ![s] = Head(kq[s])]
    /\ rxs' = None
    /\ UNCHANGED <<build, open, arr, ep, socks, evVars, pool, app, tx>>

\* w_rx() with recvfrom(), which waits for a datagram.
RxFrom ==
    LET s == rxs IN
    /\ s # None /\ Riot /\ pool # <<>> /\ kq[s] # <<>>
    /\ kq' = [kq EXCEPT ![s] = Tail(@)]
    /\ got' = [got EXCEPT ![s] = Head(kq[s])]
    /\ IF Head(kq[s]) \in Empty THEN UNCHANGED <<pool, app>>
       ELSE app' = app \cup {Head(pool)} /\ pool' = Tail(pool)
    /\ rxs' = None
    /\ UNCHANGED <<build, open, arr, ep, socks, evVars, tx>>

\* recvfrom() fails: its -1 is assigned to v->len, which is unsigned.
RxFromFails ==
    /\ rxs # None /\ Riot /\ pool # <<>>
    /\ app' = app \cup {Head(pool)} /\ pool' = Tail(pool)
    /\ rxs' = None
    /\ UNCHANGED <<sockVars, evVars, got, tx>>

\* A pass that ends w_rx(): no w_iov is left, or recvmmsg() has nothing or fails.
RxNone ==
    /\ rxs # None /\ (Riot => pool = <<>>)
    /\ pool' = UnusedFreed(0, NBufsTaken)
    /\ rxs' = None
    /\ UNCHANGED <<sockVars, evVars, app, got, tx>>

\* w_tx(o)
Tx(o) ==
    /\ Idle /\ open # {} /\ o # <<>>
    /\ tx' = [o |-> o, i |-> 1, wire |-> <<>>]
    /\ UNCHANGED <<sockVars, evVars, rxs, pool, app, got>>

BatchLen == Least(SendMax, Len(tx.o) + 1 - tx.i)

\* Mutant: a batch that was cut short is sent again from its start.
NextIRetry(r) == IF r = BatchLen THEN tx.i + BatchLen ELSE tx.i

\* v moves past the whole batch, whatever sendmmsg() returned.
NextI(r) == tx.i + BatchLen

\* One pass through w_tx()'s loop, in which the kernel takes the first r messages:
\* with sendmmsg() ...
TxPass(r) ==
    /\ tx.i <= Len(tx.o) /\ r \in 0 .. BatchLen
    /\ tx' = [tx EXCEPT !.i = NextI(r),
                        !.wire = @ \o SubSeq(tx.o, tx.i, tx.i + r - 1)]
    /\ UNCHANGED <<sockVars, evVars, rxs, pool, app, got>>

TxBatch(r) == ~Riot /\ TxPass(r)

\* ... or with sendto(), whose failure is logged and no more.
TxTo(r) == Riot /\ TxPass(r)

\* w_tx() returns.
TxReturn ==
    /\ tx # NoTx /\ tx.i > Len(tx.o)
    /\ tx' = NoTx
    /\ UNCHANGED <<sockVars, evVars, rxs, pool, app, got>>

\* w_alloc_iov()
Alloc ==
    /\ Idle /\ ~inetd /\ pool # <<>>
    /\ app' = app \cup {Head(pool)} /\ pool' = Tail(pool)
    /\ UNCHANGED <<sockVars, evVars, rxs, got, tx>>

\* w_free_iov()
Free(v) ==
    /\ Idle /\ v \in app
    /\ app' = app \ {v} /\ pool' = <<v>> \o pool
    /\ UNCHANGED <<sockVars, evVars, rxs, got, tx>>

-----------------------------------------------------------------------------
\* backend_init(): the last w_iov is at the head.
InitPool == [i \in Iov |-> NBufs + 1 - i]

Init ==
    /\ variant \in Variants /\ inetd \in BOOLEAN
    /\ told = FALSE /\ socks = <<>> /\ fds = {}
    /\ open = {} /\ kq = [s \in Sock |-> <<>>] /\ arr = [s \in Sock |-> 0]
    /\ ep = <<>> /\ ev = <<>> /\ sl = <<>> /\ rxs = None
    /\ pool = InitPool /\ app = {}
    /\ got = [s \in Sock |-> 0] /\ tx = NoTx

\* The queues an application can pass to w_tx().
Queues == {o \in UNION {[1 .. n -> app] : n \in 1 .. Cardinality(app)} : IsInjective(o)}

Next ==
    \/ \E s \in Sock : Arrive(s) \/ Bind(s) \/ Close(s) \/ RxAny(s)
    \/ NicRx \/ NicRxInterrupted \/ NicRxSelect
    \/ RxReady \/ RxReadySelect \/ Serve
    \/ RxEmpty \/ RxFrom \/ RxFromFails \/ RxNone \/ Alloc \/ TxReturn
    \/ \E n \in 1 .. RecvSize : RxBatch(n)
    \/ \E o \in Queues : Tx(o)
    \/ \E r \in 0 .. SendSize : TxBatch(r) \/ TxTo(r)
    \/ \E v \in Iov : Free(v)

Spec == Init /\ [][Next]_vars

\* A call that takes a datagram of s from the kernel.
RxSome(s) == rxs = s /\ (RxEmpty \/ RxFrom \/ \E n \in 1 .. RecvSize : RxBatch(n))

\* The application's loop goes on: it serves what w_rx_ready() reports and frees
\* what it has read.  Neither does recvmmsg() fail for ever on a socket that has
\* data, nor do signals interrupt every epoll_wait().
FairSpec ==
    /\ Spec
    /\ SF_vars(NicRx) /\ SF_vars(NicRxSelect)
    /\ SF_vars(RxReady \/ RxReadySelect) /\ SF_vars(Serve) /\ WF_vars(RxNone)
    /\ WF_vars(TxReturn) /\ WF_vars(\E r \in 0 .. SendSize : TxPass(r))
    /\ \A s \in Sock : SF_vars(RxSome(s))
    /\ \A v \in Iov : SF_vars(Free(v))

-----------------------------------------------------------------------------
(* Properties.                                                             *)

TypeOK ==
    /\ variant \in Variants /\ inetd \in BOOLEAN /\ told \in BOOLEAN
    /\ open \subseteq Sock /\ fds \subseteq Sock /\ socks \in Seq(Sock)
    /\ kq \in [Sock -> Seq(0 .. Seqs - 1)]
    /\ arr \in [Sock -> 0 .. Seqs - 1] /\ got \in [Sock -> 0 .. Seqs - 1]
    /\ ep \in Seq(Sock) /\ ev \in Seq(Sock) /\ sl \in Seq(Sock)
    /\ rxs \in Sock \cup {None}
    /\ pool \in Seq(Iov) /\ app \subseteq Iov
    /\ tx.o \in Seq(Iov) /\ tx.wire \in Seq(Iov) /\ tx.i \in Nat

\* w_rx() loses and duplicates no w_iov, whatever recvmmsg() returns and however
\* few spare w_iovs there are.
IovPartition ==
    /\ TypeOK /\ IsInjective(pool)
    /\ Range(pool) \cap app = {} /\ Range(pool) \cup app = Iov

\* w_rx() takes every datagram of a socket, once and in order: the next one in
\* the kernel's queue is the successor of the last one taken.
InOrder ==
    \A s \in Sock :
      LET all == <<got[s]>> \o kq[s]
      IN  /\ \A i \in 1 .. Len(kq[s]) : all[i + 1] = Succ(all[i])
          /\ all[Len(all)] = arr[s]

\* What reaches the wire is in the order of the queue and never sent twice, even
\* if sendmmsg() takes only some messages of a batch.
TxInOrder ==
    \E pos \in [1 .. Len(tx.wire) -> 1 .. Len(tx.o)] :
      /\ \A k \in DOMAIN pos : tx.wire[k] = tx.o[pos[k]]
      /\ \A j, k \in DOMAIN pos : j < k => pos[j] < pos[k]

\* In the loop of inetd.c, recvfrom() of backend_riot.c, which waits for data,
\* is called on sockets that have some: the bits of w_rx_ready() are those of the
\* select() in the w_nic_rx() before it, and other calls in between take nothing
\* from the socket.
RxNoWait == Riot /\ inetd /\ rxs # None => kq[rxs] # <<>>

\* A socket whose queue in the kernel does not run empty is read again and again,
\* so that each datagram is taken in the end, although b->ev may be smaller than
\* the number of ready sockets, w_rx() may run out of w_iovs or return one
\* datagram only, and other sockets keep receiving, if the application is a loop
\* like that of inetd.c.
RxEventually == inetd => \A s \in Sock :
    <>[](kq[s] # <<>>) => []<><<got'[s] # got[s]>>_vars

\* What backend_sock.c says of w_rx_ready(), "Fill a w_sock_slist with pointers
\* to some sockets": every pointer it returns is one of an open socket.
ReadyOpen == [][sl = <<>> => Range(sl') \subseteq open]_vars

\* What backend_riot.c says of w_rx(), "Return any new data that has been
\* received on a socket": a w_iov for each datagram, and no other.
RxExactAll ==
    [][rxs # None /\ UNCHANGED arr =>
         Cardinality(app') - Cardinality(app) = Len(kq[rxs]) - Len(kq'[rxs])]_vars

\* What backend_sock.c says of w_tx(), "sending them all over w_sock s": when it
\* returns, the kernel has taken every w_iov of the queue.
SentAll == tx.i > Len(tx.o) => tx.wire = tx.o
=============================================================================
