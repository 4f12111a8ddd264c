----------------------------- MODULE SockTable -----------------------------
(***************************************************************************)
(* The sockets of one engine on the netmap backend: w_bind(), w_connect(), *)
(* w_close(), w_rx_ready() and the lookups of udp_rx().                    *)
(*                                                                         *)
(* The table b->sock maps a four-tuple to a w_sock.  Its keys are pointers *)
(* to the tup field of a w_sock, so an entry is only as good as the socket *)
(* its key points into.  While w_connect() waits in who_has() for the MAC  *)
(* address of the peer, frames keep arriving and are looked up.            *)
(*                                                                         *)
(* Assertions (assure) are compiled out, as in a release build: what they  *)
(* claim is stated as properties.                                          *)
(***************************************************************************)
EXTENDS Integers, Sequences, Functions

CONSTANTS
    Sock,       \* w_sock structures
    Port,       \* local addresses and ports a socket can be bound to
    RandPort,   \* what pick_local_port() returns
    Peer,       \* remote addresses and ports
    Own,        \* those of them whose IP address is one of the engine's
    None,       \* no port, no peer, no socket
    Tries,      \* how often backend_connect() looks for a free port (200)
    MaxQ        \* bound on the receive queues

ASSUME ConstAssumption ==
    /\ RandPort \subseteq Port /\ Own \subseteq Peer
    /\ None \notin Port \cup Peer \cup Sock
    /\ Tries \in 3 .. 255 /\ MaxQ \in Nat

Tuple == [loc : Port, rem : Peer \cup {None}]
Dgram == [src : Peer, dst : Port]

VARIABLES
    careful,    \* whether the application is: it asks for free ports and known
                \* address families only, and is lucky with random ports
    live,       \* sockets between w_bind() and w_close()
    tup,        \* s->tup
    table,      \* b->sock: tuple -> [key: whose tup the key is, val: the w_sock]
    iv,         \* s->iv: what each socket has received
    conn,       \* w_connect(): its socket (or NULL), where it is, and n
    drop        \* history: the datagram that the last step has dropped and how,
                \* "icmp" or "silent"

vars == <<careful, live, tup, table, iv, conn, drop>>

Bound(p) == [loc |-> p, rem |-> None]
NoTup    == [loc |-> None, rem |-> None]
NoDrop   == [d |-> None, how |-> "none"]
NoConn   == [s |-> None, at |-> "off", n |-> 0]
Idle     == conn = NoConn

-----------------------------------------------------------------------------
\* Mutant: nothing is inserted.
InsSockNot(t, s) == table' = table

\* ins_sock(): kh_put() leaves the key alone when an equal one is present.
InsSock(t, s) ==
    table' = [u \in DOMAIN table \cup {t} |->
                IF u # t THEN table[u]
                ELSE [key |-> IF t \in DOMAIN table THEN table[t].key ELSE s,
                      val |-> s]]

\* Mutant: the entry stays.
RemSockKept(t) == table' = table

\* rem_sock(): whoever the entry belongs to.
RemSock(t) == table' = Restrict(table, DOMAIN table \ {t})

\* Random ports; a careful run draws one that is free.
Draw(rem) == {p \in RandPort : careful => [loc |-> p, rem |-> rem] \notin DOMAIN table}

LocalPort(port) == IF port = None THEN Draw(None) ELSE {port}

\* w_bind(port): the socket is returned even if its port is taken.
Bind(s, port) ==
    /\ Idle /\ s \notin live
    /\ careful => Bound(port) \notin DOMAIN table
    /\ live' = live \cup {s}
    /\ iv' = [iv EXCEPT ![s] = <<>>]
    /\ \/ /\ Bound(port) \in DOMAIN table
          /\ tup' = [tup EXCEPT ![s] = Bound(port)]
          /\ UNCHANGED table
       \/ /\ Bound(port) \notin DOMAIN table
          /\ \E p \in LocalPort(port) :
               /\ tup' = [tup EXCEPT ![s] = Bound(p)]
               /\ InsSock(Bound(p), s)
    /\ drop' = NoDrop /\ UNCHANGED conn

\* w_connect() up to who_has(): the socket leaves the table.
Connect(s, peer) ==
    /\ Idle /\ s \in live /\ tup[s].rem = None
    /\ RemSock(tup[s])
    /\ tup' = [tup EXCEPT ![s].rem = peer]
    /\ conn' = [s |-> s, at |-> "who_has", n |-> 0]
    /\ drop' = NoDrop /\ UNCHANGED <<live, iv>>

\* w_connect() to an address family that w_to_waddr() does not know.
ConnectUnknown(s) ==
    /\ Idle /\ s \in live /\ tup[s].rem = None /\ ~careful
    /\ RemSock(tup[s])
    /\ drop' = NoDrop /\ UNCHANGED <<live, tup, iv, conn>>

\* who_has() returns.
Resolved ==
    /\ conn.at = "who_has"
    /\ conn' = [s |-> conn.s, at |-> "roll", n |-> Tries]
    /\ drop' = NoDrop /\ UNCHANGED <<live, tup, table, iv>>

\* The end of backend_connect() and of w_connect(), with n left.
ConnectReturn(n) ==
    /\ conn' = NoConn
    /\ IF n # 0
         THEN InsSock(tup[conn.s], conn.s) /\ UNCHANGED tup
         ELSE tup' = [tup EXCEPT ![conn.s].rem = None] /\ UNCHANGED table

\* One evaluation of while (n--), n being a uint8_t, and of the loop's body.
Roll ==
    LET s == conn.s
        n == (conn.n - 1) % 256
    IN  /\ conn.at = "roll"
        /\ IF conn.n = 0 \/ tup[s] \notin DOMAIN table
             THEN ConnectReturn(n)
             ELSE /\ \E p \in Draw(tup[s].rem) : tup' = [tup EXCEPT ![s].loc = p]
                  /\ conn' = [conn EXCEPT !.n = n]
                  /\ UNCHANGED table
        /\ drop' = NoDrop /\ UNCHANGED <<live, iv>>

\* w_close(); the w_iovs in s->iv are the subject of module Netmap.
Close(s) ==
    /\ Idle /\ s \in live
    /\ RemSock(tup[s])
    /\ live' = live \ {s}
    /\ tup' = [tup EXCEPT ![s] = NoTup]
    /\ iv' = [iv EXCEPT ![s] = <<>>]
    /\ drop' = NoDrop /\ UNCHANGED conn

-----------------------------------------------------------------------------
Connected(d) == [loc |-> d.dst, rem |-> d.src]

\* Mutant: bound-only sockets are looked up first.
LookupsSwapped(d) == <<Bound(d.dst), Connected(d)>>

\* The tuples that udp_rx() looks up, in order.
Lookups(d) == <<Connected(d), Bound(d.dst)>>

\* w_get_sock() on each of them.
Found(d) == {i \in 1 .. 2 : Lookups(d)[i] \in DOMAIN table}
Receiver(d) ==
    table[Lookups(d)[CHOOSE i \in Found(d) : \A j \in Found(d) : i <= j]].val

\* Whether a datagram that no socket wants is answered; the test looks at its sender.
Unwanted(d) == IF d.src \in Own THEN "icmp" ELSE "silent"

\* udp_rx() for a datagram that came in during w_nic_rx(), called by the
\* application or by who_has().
UdpRx(d) ==
    /\ Idle \/ conn.at = "who_has"
    /\ \/ /\ Found(d) # {} /\ Len(iv[Receiver(d)]) < MaxQ
          /\ iv' = [iv EXCEPT ![Receiver(d)] = Append(@, d)]
          /\ drop' = NoDrop
       \/ /\ Found(d) = {}
          /\ drop' = [d |-> d, how |-> Unwanted(d)]
          /\ UNCHANGED iv
    /\ UNCHANGED <<live, tup, table, conn>>

\* w_rx()
Rx(s) ==
    /\ Idle /\ s \in live /\ iv[s] # <<>>
    /\ iv' = [iv EXCEPT ![s] = <<>>]
    /\ drop' = NoDrop /\ UNCHANGED <<live, tup, table, conn>>

\* The sockets that w_rx_ready() reports.
RxReady == {s \in {table[t].val : t \in DOMAIN table} : iv[s] # <<>>}

-----------------------------------------------------------------------------
Init ==
    /\ careful \in BOOLEAN
    /\ live = {} /\ tup = [s \in Sock |-> NoTup]
    /\ table = [t \in {} |-> None]
    /\ iv = [s \in Sock |-> <<>>]
    /\ conn = NoConn /\ drop = NoDrop

Step ==
    \/ \E s \in Sock, p \in Port \cup {None} : Bind(s, p)
    \/ \E s \in Sock, p \in Peer : Connect(s, p)
    \/ \E s \in Sock : ConnectUnknown(s) \/ Close(s) \/ Rx(s)
    \/ \E d \in Dgram : UdpRx(d)
    \/ Resolved \/ Roll

Next == Step /\ UNCHANGED careful

Spec == Init /\ [][Next]_vars

-----------------------------------------------------------------------------
\* A socket in who_has() is neither bound nor connected.
Addr == [s \in Sock |-> IF s = conn.s THEN NoTup ELSE tup[s]]

\* What the sockets promise.
Demux == INSTANCE UdpDemux WITH open <- live, addr <- Addr, queue <- iv,
                               dropped <- drop.d

\* With a careful application and luck with random ports, the table of pointers
\* implements the demultiplexer of module UdpDemux: no datagram is dropped that
\* an open socket matches, and none goes to a socket that is not the best match.
DemuxSpec ==
    /\ careful => Demux!Init
    /\ [][careful => Demux!Next]_(Demux!vars)

-----------------------------------------------------------------------------
(* Properties.                                                             *)

TypeOK ==
    /\ live \subseteq Sock /\ tup \in [Sock -> Tuple \cup {NoTup}]
    /\ DOMAIN table \subseteq Tuple
    /\ table \in [DOMAIN table -> [key : Sock, val : Sock]]
    /\ iv \in [Sock -> Seq(Dgram)]
    /\ conn \in [s : Sock \cup {None}, at : {"off", "who_has", "roll"}, n : 0 .. 255]
    /\ drop \in [d : Dgram, how : {"icmp", "silent"}] \cup {NoDrop}

\* Whatever the application binds, connects and closes, the key of an entry
\* points into an open socket and so does its value, and both sockets have the
\* entry's tuple: no lookup touches freed memory or a tuple that has changed
\* since it was hashed.
TableSound ==
    \A t \in DOMAIN table :
      \A s \in {table[t].key, table[t].val} :
        s \in live /\ tup[s] = t /\ s # conn.s

\* udp_rx() gives a datagram to a socket that is bound to its destination, and
\* to one connected to its sender if the table has one.
RightSocket ==
    [][\A s \in Sock :
         Len(iv'[s]) > Len(iv[s]) =>
           LET d == iv'[s][Len(iv'[s])]
           IN  /\ s \in live
               /\ tup[s] \in {Connected(d), Bound(d.dst)}
               /\ Connected(d) \in DOMAIN table => tup[s] = Connected(d)]_vars

\* What backend_netmap.c says of w_rx_ready(), "insert all sockets with pending
\* inbound data": for a careful application, no open socket with data is left out
\* between calls.
ReadyComplete == careful /\ Idle => RxReady = {s \in live : iv[s] # <<>>}

\* What the assertion of ins_sock() says, "inserted is": it adds an entry and
\* never takes over one that is there.
InsertsFresh == [][\A t \in DOMAIN table \cap DOMAIN table' :
                     table'[t] = table[t]]_vars

\* What the assertion of rem_sock() says, "found": the socket that w_close()
\* closes has an entry.
RemovesFound == [][\A s \in live \ live' : tup[s] \in DOMAIN table]_vars

\* What backend_netmap.c says of w_connect(), "Zero on success", "four-tuple
\* exists, reroll sport": two connected sockets never have the same four-tuple.
FourTupleUnique ==
    Idle => \A s, u \in live :
              s # u /\ tup[s].rem # None => tup[s] # tup[u]

\* What udp.c says, "nobody bound to this port locally / send an ICMP unreachable
\* reply, if this was not a broadcast": no datagram is dropped in silence.
PortUnreachable == drop.how # "silent"
=============================================================================
