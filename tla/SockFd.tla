------------------------------- MODULE SockFd -------------------------------
(***************************************************************************)
(* Sockets on the backends that use the sockets of an operating system:    *)
(* what a w_sock says of itself (its descriptor, options, address, port    *)
(* and peer) next to what the kernel has, over w_bind(), w_set_sockopt(),  *)
(* w_connect(), w_close() and w_cleanup(), with calls that fail.           *)
(*                                                                         *)
(* Ports and peers are numbers, zero being none.  A port is taken on one   *)
(* local address and free on the others.  Descriptors are those the kernel *)
(* hands out, the lowest free one first.                                   *)
(***************************************************************************)
EXTENDS Integers, FiniteSetsExt, Functions

CONSTANTS
    OsSock,     \* w_sock structures
    Fd,         \* descriptors of the process
    OsAddr4,    \* the IPv4 addresses in w->ifaddr
    OsAddr6,    \* the IPv6 ones; on RIOT only one, and no IPv4 address
    OsPort,     \* ports
    OsPeer      \* remote addresses and ports

ASSUME FdAssumption ==
    /\ OsAddr4 \cap OsAddr6 = {}
    /\ OsPort \subseteq Nat \ {0} /\ OsPeer \subseteq Nat \ {0} /\ Fd \subseteq Nat /\ Fd # {}

VARIABLES
    os,         \* "sock" (backend_sock.c with epoll or kqueue) or "riot"
    wsl,        \* setsockopt() of IP_TOS and IPV6_TCLASS fails
    sk,         \* the w_socks between w_bind() and w_close()
    kfd,        \* external: the kernel's sockets by descriptor
    ep,         \* b->ep: its descriptor and the descriptors added to it
    lost        \* history: open descriptors that warpcore has forgotten

fdVars == <<os, wsl, sk, kfd, ep, lost>>

OsRiot == os = "riot"
Opt == [zero_cksum : BOOLEAN, ecn : BOOLEAN]
NoOpt == [zero_cksum |-> FALSE, ecn |-> FALSE]

\* s->ws_laddr and its address family, s->ws_af.
OsAddr == OsAddr4 \cup OsAddr6
Af(addr) == IF addr \in OsAddr4 THEN "ip4" ELSE "ip6"

Put(f, x, y) == [z \in DOMAIN f \cup {x} |-> IF z = x THEN y ELSE f[z]]
Drop(f, S) == Restrict(f, DOMAIN f \ S)

-----------------------------------------------------------------------------
(* The kernel.                                                             *)

FreeFd == Fd \ (DOMAIN kfd \cup {ep.fd} \cup lost)
NewFd == Min(FreeFd)
KSock(addr, port) == [addr |-> addr, port |-> port, peer |-> 0, tos |-> FALSE, nocheck |-> FALSE]
FreePorts(addr) == {p \in OsPort : \A f \in DOMAIN kfd : kfd[f].addr = addr => kfd[f].port # p}

\* What bind() may bind to; RIOT waits for connect() to choose a port.
BindPorts(addr, port) ==
    IF port # 0 THEN {port} \cap FreePorts(addr) ELSE IF OsRiot THEN {0} ELSE FreePorts(addr)

-----------------------------------------------------------------------------
(* Socket options.                                                         *)

\* w_set_sockopt(): s->opt, if it was o.
SetOpt(o, addr, opt) ==
    IF OsRiot THEN opt
    ELSE [zero_cksum |-> IF Af(addr) = "ip4" THEN opt.zero_cksum ELSE o.zero_cksum,
          ecn |-> opt.ecn]

\* Mutant: an option is only ever switched on.
KSetOptOn(k, o, opt) ==
    IF OsRiot THEN k
    ELSE [k EXCEPT !.nocheck = IF Af(k.addr) = "ip4" /\ opt.zero_cksum THEN TRUE ELSE @,
                   !.tos = IF opt.ecn /\ ~wsl THEN TRUE ELSE @]

\* w_set_sockopt(): the kernel's socket k, told of what differs from s->opt.
KSetOpt(k, o, opt) ==
    IF OsRiot THEN k
    ELSE [k EXCEPT !.nocheck = IF Af(k.addr) = "ip4" /\ o.zero_cksum # opt.zero_cksum
                                 THEN opt.zero_cksum ELSE @,
                   !.tos = IF o.ecn # opt.ecn /\ ~wsl THEN opt.ecn ELSE @]

OsSetSockopt(s, opt) ==
    /\ s \in DOMAIN sk
    /\ sk' = [sk EXCEPT ![s].opt = SetOpt(@, sk[s].addr, opt)]
    /\ kfd' = [kfd EXCEPT ![sk[s].fd] = KSetOpt(@, sk[s].opt, opt)]
    /\ UNCHANGED <<os, wsl, ep, lost>>

-----------------------------------------------------------------------------
(* The life of a socket.                                                   *)

\* EPOLL_CTL_ADD
EpAdd(f) == IF OsRiot THEN ep ELSE [ep EXCEPT !.watched = @ \cup {f}]

\* getsockname() for a random port, which on RIOT is not known yet.
LocalPortKnown(port, p) == IF port # 0 \/ OsRiot THEN port ELSE p

\* w_bind(); on RIOT, opt is left for later.
OsBind(s, addr, port, opt) ==
    LET o == IF OsRiot THEN NoOpt ELSE opt IN
    /\ s \notin DOMAIN sk /\ FreeFd # {} /\ (OsRiot => addr \in OsAddr6)
    /\ \E p \in BindPorts(addr, port) :
         /\ kfd' = Put(kfd, NewFd, KSetOpt(KSock(addr, p), NoOpt, o))
         /\ sk' = Put(sk, s, [addr |-> addr, fd |-> NewFd, lport |-> LocalPortKnown(port, p),
                              rport |-> 0, opt |-> SetOpt(NoOpt, addr, o)])
    /\ ep' = EpAdd(NewFd)
    /\ UNCHANGED <<os, wsl, lost>>

\* socket() fails.
OsNoSocket(s) == s \notin DOMAIN sk /\ UNCHANGED fdVars

\* bind() fails: backend_bind() returns and w_bind() frees s.
OsBindFails(s, addr, port) ==
    /\ s \notin DOMAIN sk /\ FreeFd # {} /\ (OsRiot => addr \in OsAddr6)
    /\ port # 0 /\ BindPorts(addr, port) = {}
    /\ lost' = lost \cup {NewFd}
    /\ UNCHANGED <<os, wsl, sk, kfd, ep>>

\* w_connect(); RIOT chooses the port now, and asks for it.
OsConnect(s, peer) ==
    LET f == sk[s].fd IN
    /\ s \in DOMAIN sk /\ sk[s].rport = 0
    /\ \E p \in IF kfd[f].port = 0 THEN FreePorts(kfd[f].addr) ELSE {kfd[f].port} :
         /\ kfd' = [kfd EXCEPT ![f].peer = peer, ![f].port = p]
         /\ sk' = [sk EXCEPT ![s].rport = peer, ![s].lport = IF @ = 0 THEN p ELSE @]
    /\ UNCHANGED <<os, wsl, ep, lost>>

\* Mutant: s->ws_rem is left as it is.
RemAfterErrorKept(peer) == peer

\* memset() of s->ws_rem after an error.
RemAfterError(peer) == 0

\* connect() fails, or the address family is not known.
OsConnectFails(s, peer) ==
    /\ s \in DOMAIN sk /\ sk[s].rport = 0
    /\ sk' = [sk EXCEPT ![s].rport = RemAfterError(peer)]
    /\ UNCHANGED <<os, wsl, kfd, ep, lost>>

\* Mutant: backend_close() without close().
ClosedKept(f) == kfd

Closed(f) == Drop(kfd, {f})

\* w_close()
OsClose(s) ==
    /\ s \in DOMAIN sk
    /\ kfd' = Closed(sk[s].fd)
    /\ sk' = Drop(sk, {s})
    /\ ep' = [ep EXCEPT !.watched = @ \ {sk[s].fd}]
    /\ UNCHANGED <<os, wsl, lost>>

\* The sockets w_cleanup() closes: none; or, on RIOT, all that a loop comes across
\* which reads the link to the next socket from one that it has freed.
CleanupCloses == IF OsRiot THEN {S \in SUBSET DOMAIN sk : sk = <<>> \/ S # {}} ELSE {{}}

\* w_cleanup(), and w_init() of another engine with an epoll instance of its own.
\* A descriptor left open keeps its port.
OsCleanup ==
    /\ OsRiot \/ FreeFd # {}
    /\ \E S \in CleanupCloses :
         /\ kfd' = Drop(kfd, {sk[s].fd : s \in S})
         /\ lost' = lost \cup {sk[s].fd : s \in DOMAIN sk \ S} \cup ({ep.fd} \ {-1})
    /\ sk' = <<>>
    /\ ep' = [fd |-> IF OsRiot THEN -1 ELSE NewFd, watched |-> {}]
    /\ UNCHANGED <<os, wsl>>

-----------------------------------------------------------------------------
FdInit ==
    /\ os \in {"sock", "riot"} /\ wsl \in BOOLEAN
    /\ sk = <<>> /\ kfd = <<>> /\ lost = {}
    /\ ep = [fd |-> IF OsRiot THEN -1 ELSE Min(Fd), watched |-> {}]

FdNext ==
    \/ \E s \in OsSock, opt \in Opt :
         \/ OsSetSockopt(s, opt)
         \/ \E addr \in OsAddr, port \in OsPort \cup {0} : OsBind(s, addr, port, opt)
    \/ \E s \in OsSock, addr \in OsAddr, port \in OsPort : OsBindFails(s, addr, port)
    \/ \E s \in OsSock, peer \in OsPeer : OsConnect(s, peer) \/ OsConnectFails(s, peer)
    \/ \E s \in OsSock : OsClose(s) \/ OsNoSocket(s)
    \/ OsCleanup

FdSpec == FdInit /\ [][FdNext]_fdVars

-----------------------------------------------------------------------------
(* Properties.                                                             *)

FdTypeOK ==
    /\ \A s \in DOMAIN sk : sk[s] \in [addr : OsAddr, fd : Fd, lport : OsPort \cup {0},
                                       rport : OsPeer \cup {0}, opt : Opt]
    /\ \A f \in DOMAIN kfd : kfd[f] \in [addr : OsAddr, port : OsPort \cup {0},
                                         peer : OsPeer \cup {0}, tos : BOOLEAN, nocheck : BOOLEAN]
    /\ ep.fd \in Fd \cup {-1} /\ ep.watched \subseteq Fd /\ lost \subseteq Fd

\* Every open descriptor belongs to one w_sock only, and epoll watches exactly
\* those: whatever is closed and bound again under the same descriptor, no event is
\* for a socket that is gone and none of an open one is missed.  Descriptors are
\* forgotten after a bind() that fails and in w_cleanup(), and nowhere else.
FdsOwned ==
    LET fds == {sk[s].fd : s \in DOMAIN sk}
    IN  /\ FdTypeOK
        /\ \A s, t \in DOMAIN sk : sk[s].fd = sk[t].fd => s = t
        /\ fds \subseteq DOMAIN kfd /\ DOMAIN kfd \ fds \subseteq lost
        /\ ep.watched = (IF OsRiot THEN {} ELSE fds)
        /\ fds \cap lost = {} /\ ep.fd \notin fds \cup lost

\* The options that w_get_sockopt() returns are those the kernel applies, after
\* any sequence of calls that tell it of differences only: ECN on packets, and no
\* UDP checksums on IPv4 sockets, never on IPv6 ones.
OptsApplied ==
    ~OsRiot /\ ~wsl => \A s \in DOMAIN sk :
      LET k == kfd[sk[s].fd]
      IN  /\ k.tos = sk[s].opt.ecn /\ k.nocheck = sk[s].opt.zero_cksum
          /\ Af(k.addr) = "ip6" => ~k.nocheck

\* A socket is connected for w_connected() exactly if it is for the kernel, and to
\* the same peer, although w_connect() stores the peer before it calls connect().
\* Its address and port are those the kernel has bound, the port chosen by it or
\* not.  No two open sockets share both; on different addresses they may share the
\* port, as the sockets of inetd do.
AddrsKnown ==
    \A s \in DOMAIN sk :
      /\ sk[s].rport = kfd[sk[s].fd].peer
      /\ sk[s].addr = kfd[sk[s].fd].addr /\ sk[s].lport = kfd[sk[s].fd].port
      /\ (OsRiot /\ sk[s].rport = 0) \/ sk[s].lport # 0
      /\ \A t \in DOMAIN sk \ {s} :
           sk[t].addr = sk[s].addr /\ sk[t].lport = sk[s].lport => sk[s].lport = 0

\* What warpcore.c says of w_cleanup(), "Shut a warpcore engine down cleanly", and
\* of w_bind(), which returns no socket after an error: no descriptor stays open.
NoFdLost == lost = {}

\* What warpcore.h says of w_get_sockopt(), "Return the current socket options",
\* on a system that refuses ECN.
OptsCurrent == ~OsRiot => \A s \in DOMAIN sk : kfd[sk[s].fd].tos = sk[s].opt.ecn
=============================================================================
