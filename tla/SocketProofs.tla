---------------------------- MODULE SocketProofs ----------------------------
(***************************************************************************)
(* Proofs about the sockets of both backends.  The sockets of an operating *)
(* system, for any number of sockets, descriptors, ports and peers.  The   *)
(* table of the sockets of a netmap engine, for any number of sockets,     *)
(* ports, peers and tries: the first invariant holds whatever the          *)
(* application does, the second one for a careful application.             *)
(***************************************************************************)
EXTENDS SockTable, SockFd, TLAPS

-----------------------------------------------------------------------------
(* The sockets of an operating system.  FdInv is inductive: beyond the     *)
(* properties it says that ports are apart on each address among all the   *)
(* descriptors the kernel has open, those that warpcore has forgotten      *)
(* included.                                                               *)

\* What the kernel knows of a descriptor.
KernelSock == [addr : OsAddr, port : OsPort \cup {0}, peer : OsPeer \cup {0},
               tos : BOOLEAN, nocheck : BOOLEAN]

\* What warpcore knows of it.
WSock == [addr : OsAddr, fd : Fd, lport : OsPort \cup {0}, rport : OsPeer \cup {0}, opt : Opt]

\* The kernel applies the options o to its socket k.
OptAgrees(o, k) ==
    k.tos = o.ecn /\ k.nocheck = o.zero_cksum /\ (Af(k.addr) = "ip6" => ~k.nocheck)

USE DEF KernelSock, WSock, OptAgrees

\* Types; an engine has an epoll descriptor on the backend that uses epoll.
FdTypes ==
    /\ os \in {"sock", "riot"} /\ wsl \in BOOLEAN
    /\ ep \in [fd : Fd \cup {-1}, watched : SUBSET Fd]
    /\ (OsRiot <=> ep.fd = -1)
    /\ FdTypeOK

\* FdsOwned: every descriptor the kernel has open belongs to one socket or is
\* forgotten, and neither is the one of the epoll instance.
FdsApart ==
    LET fds == {sk[s].fd : s \in DOMAIN sk}
    IN  /\ \A s, t \in DOMAIN sk : sk[s].fd = sk[t].fd => s = t
        /\ \A s \in DOMAIN sk : sk[s].fd \in DOMAIN kfd /\ sk[s].fd \notin lost
        /\ DOMAIN kfd \subseteq fds \cup lost
        /\ ep.watched = (IF OsRiot THEN {} ELSE fds)
        /\ ep.fd \notin fds \cup lost

\* What a w_sock says of itself is what the kernel has.
SockAgrees(s, k) ==
    /\ s.addr = k.addr /\ s.rport = k.peer /\ s.lport = k.port
    /\ (OsRiot /\ s.rport = 0) \/ s.lport # 0
    /\ (~OsRiot /\ ~wsl) => OptAgrees(s.opt, k)

\* What both know is the same.
FdsAgree ==
    \A s \in DOMAIN sk : SockAgrees(sk[s], kfd[sk[s].fd])

\* No two sockets of the kernel share an address and a port, those that warpcore has
\* forgotten included: w_bind() of what they hold fails.
PortsApart ==
    \A f, g \in DOMAIN kfd :
      f # g /\ kfd[f].addr = kfd[g].addr /\ kfd[f].port = kfd[g].port => kfd[f].port = 0

\* The inductive invariant.
FdInv == FdTypes /\ FdsApart /\ FdsAgree /\ PortsApart

\* It is strong enough for the three properties.
LEMMA FdInvImplies == FdInv => FdsOwned /\ OptsApplied /\ AddrsKnown
  <1> SUFFICES ASSUME FdInv PROVE FdsOwned /\ OptsApplied /\ AddrsKnown
    BY Zenon
  <1>1. FdsOwned
    BY SMTT(60) DEF FdInv, FdTypes, FdsApart, FdsOwned
  <1>2. OptsApplied
    BY Zenon DEF FdInv, FdsAgree, SockAgrees, OptsApplied
  <1>3. ASSUME NEW s \in DOMAIN sk, NEW t \in DOMAIN sk \ {s},
               sk[t].addr = sk[s].addr, sk[t].lport = sk[s].lport
        PROVE  sk[s].lport = 0
    <2>1. sk[s].fd # sk[t].fd /\ sk[s].fd \in DOMAIN kfd /\ sk[t].fd \in DOMAIN kfd
      BY Zenon, <1>3 DEF FdInv, FdsApart
    <2>2. SockAgrees(sk[s], kfd[sk[s].fd]) /\ SockAgrees(sk[t], kfd[sk[t].fd])
      BY Zenon, <1>3 DEF FdInv, FdsAgree
    <2> QED
      BY Zenon, <1>3, <2>1, <2>2 DEF FdInv, PortsApart, SockAgrees
  <1>4. AddrsKnown
    BY Zenon, <1>3 DEF FdInv, FdsAgree, SockAgrees, AddrsKnown
  <1> QED
    BY Zenon, <1>1, <1>2, <1>4

\* It holds when w_init() returns.
LEMMA FdInitInv == ASSUME FdInit, Min(Fd) \in Fd PROVE FdInv
  <1>1. DOMAIN sk = {} /\ DOMAIN kfd = {}
    BY SMTT(60) DEF FdInit
  <1> QED
    BY <1>1, FdAssumption DEF FdInit, FdInv, FdTypes, FdTypeOK, FdsApart, FdsAgree, PortsApart, OsRiot

\* w_set_sockopt(): the kernel, told of what differs, ends up with what s->opt says.
LEMMA SetOptTypes ==
  ASSUME NEW k \in KernelSock,
         NEW o \in Opt, NEW opt \in Opt
  PROVE  /\ KSetOpt(k, o, opt) \in KernelSock
         /\ KSetOpt(k, o, opt).addr = k.addr /\ KSetOpt(k, o, opt).port = k.port
         /\ KSetOpt(k, o, opt).peer = k.peer
         /\ SetOpt(o, k.addr, opt) \in Opt
         /\ (~OsRiot /\ ~wsl /\ OptAgrees(o, k)) => OptAgrees(SetOpt(o, k.addr, opt), KSetOpt(k, o, opt))
  <1>1. CASE OsRiot
    BY Zenon, <1>1 DEF KSetOpt, SetOpt
  <1>2. CASE ~OsRiot
    <2>1. /\ KSetOpt(k, o, opt).addr = k.addr /\ KSetOpt(k, o, opt).port = k.port
          /\ KSetOpt(k, o, opt).peer = k.peer
          /\ KSetOpt(k, o, opt).nocheck = IF Af(k.addr) = "ip4" /\ o.zero_cksum # opt.zero_cksum
                                 THEN opt.zero_cksum ELSE k.nocheck
          /\ KSetOpt(k, o, opt).tos = IF o.ecn # opt.ecn /\ ~wsl THEN opt.ecn ELSE k.tos
      BY Zenon, <1>2 DEF KSetOpt
    <2>2. KSetOpt(k, o, opt) \in KernelSock
      BY Zenon, <1>2 DEF KSetOpt, Opt
    <2>3. SetOpt(o, k.addr, opt) \in Opt
      BY Zenon, <1>2 DEF SetOpt, Opt
    <2>4. Af(k.addr) \in {"ip4", "ip6"}
      BY Zenon DEF Af
    <2>5. /\ SetOpt(o, k.addr, opt).ecn = opt.ecn
          /\ SetOpt(o, k.addr, opt).zero_cksum
               = IF Af(k.addr) = "ip4" THEN opt.zero_cksum ELSE o.zero_cksum
      BY Zenon, <1>2 DEF SetOpt
    <2> QED
      BY Zenon, <2>1, <2>2, <2>3, <2>4, <2>5 DEF Opt
  <1> QED
    BY Zenon, <1>1, <1>2

\* w_set_sockopt() of one socket leaves the others alone.
LEMMA SetSockoptInv ==
  ASSUME FdInv, NEW s \in OsSock, NEW opt \in Opt, OsSetSockopt(s, opt)
  PROVE  FdInv'
  <1> DEFINE f == sk[s].fd
             k == KSetOpt(kfd[f], sk[s].opt, opt)
             r == [sk[s] EXCEPT !.opt = SetOpt(sk[s].opt, sk[s].addr, opt)]
  <1>1. s \in DOMAIN sk /\ f \in DOMAIN kfd
    BY Zenon DEF OsSetSockopt, FdInv, FdsApart
  <1>2. /\ DOMAIN sk' = DOMAIN sk /\ DOMAIN kfd' = DOMAIN kfd
        /\ sk'[s] = r /\ kfd'[f] = k
        /\ \A t \in DOMAIN sk \ {s} : sk'[t] = sk[t]
        /\ \A g \in DOMAIN kfd \ {f} : kfd'[g] = kfd[g]
    BY Zenon, <1>1 DEF OsSetSockopt
  <1>3. UNCHANGED <<os, wsl, ep, lost>>
    BY Zenon DEF OsSetSockopt
  <1>4. /\ sk[s] \in WSock
        /\ kfd[f] \in KernelSock
        /\ SockAgrees(sk[s], kfd[f])
    BY Zenon, <1>1 DEF FdInv, FdTypes, FdTypeOK, FdsAgree
  <1>5. sk[s].addr = kfd[f].addr
    BY Zenon, <1>4 DEF SockAgrees
  <1>6. /\ SetOpt(sk[s].opt, sk[s].addr, opt) \in Opt
        /\ k \in KernelSock
        /\ k.addr = kfd[f].addr /\ k.port = kfd[f].port /\ k.peer = kfd[f].peer
        /\ (~OsRiot /\ ~wsl) => OptAgrees(SetOpt(sk[s].opt, sk[s].addr, opt), k)
    <2> DEFINE kk == kfd[f]
               o == sk[s].opt
    <2>1. o \in Opt /\ kk \in KernelSock
      BY Zenon, <1>4
    <2>2. (~OsRiot /\ ~wsl) => OptAgrees(o, kk)
      BY Zenon, <1>4 DEF SockAgrees
    <2>3. k = KSetOpt(kk, o, opt) /\ SetOpt(sk[s].opt, sk[s].addr, opt) = SetOpt(o, kk.addr, opt)
      BY Zenon, <1>5
    <2> HIDE DEF kk, o, k
    <2>4. /\ KSetOpt(kk, o, opt) \in KernelSock
          /\ KSetOpt(kk, o, opt).addr = kk.addr /\ KSetOpt(kk, o, opt).port = kk.port
          /\ KSetOpt(kk, o, opt).peer = kk.peer
          /\ SetOpt(o, kk.addr, opt) \in Opt
          /\ (~OsRiot /\ ~wsl) => OptAgrees(SetOpt(o, kk.addr, opt), KSetOpt(kk, o, opt))
      BY ZenonT(60), <2>1, <2>2, SetOptTypes
    <2> QED
      BY ZenonT(60), <2>3, <2>4 DEF kk
  <1>7. /\ r \in WSock
        /\ r.addr = sk[s].addr /\ r.fd = f /\ r.lport = sk[s].lport /\ r.rport = sk[s].rport
        /\ r.opt = SetOpt(sk[s].opt, sk[s].addr, opt)
    BY Zenon, <1>4, <1>6
  <1>8. (~OsRiot /\ ~wsl) => OptAgrees(r.opt, k)
    BY ZenonT(60), <1>6, <1>7
  <1> HIDE DEF f, k, r
  <1>9. SockAgrees(r, k)
    BY Zenon, <1>4, <1>6, <1>7, <1>8 DEF SockAgrees
  <1>10. \A t \in DOMAIN sk : sk'[t].fd = sk[t].fd
    BY Zenon, <1>2, <1>7 DEF f
  <1>11. \A t \in DOMAIN sk \ {s} : sk[t].fd \in DOMAIN kfd \ {f}
    BY Zenon, <1>1 DEF FdInv, FdsApart, f
  <1>12. FdTypes'
    BY <1>2, <1>3, <1>6, <1>7 DEF FdInv, FdTypes, FdTypeOK, OsRiot
  <1>13. FdsApart'
    <2>1. {sk'[t].fd : t \in DOMAIN sk'} = {sk[t].fd : t \in DOMAIN sk}
      BY Zenon, <1>2, <1>10
    <2> QED
      BY ZenonT(60), <1>2, <1>3, <1>10, <2>1 DEF FdInv, FdsApart, OsRiot
  <1>14. FdsAgree'
    <2> SUFFICES ASSUME NEW t \in DOMAIN sk PROVE SockAgrees(sk[t], kfd[sk[t].fd])'
      BY Zenon, <1>2 DEF FdsAgree
    <2>1. CASE t = s
      BY ZenonT(60), <2>1, <1>2, <1>3, <1>7, <1>9 DEF SockAgrees, OsRiot
    <2>2. CASE t # s
      <3>1. sk'[t] = sk[t] /\ kfd'[sk[t].fd] = kfd[sk[t].fd]
        BY Zenon, <2>2, <1>2, <1>11
      <3>2. SockAgrees(sk[t], kfd[sk[t].fd])
        BY Zenon DEF FdInv, FdsAgree
      <3> QED
        BY ZenonT(60), <3>1, <3>2, <1>3 DEF SockAgrees, OsRiot
    <2> QED
      BY Zenon, <2>1, <2>2
  <1>15. PortsApart'
    <2>1. \A g \in DOMAIN kfd : kfd'[g].addr = kfd[g].addr /\ kfd'[g].port = kfd[g].port
      BY Zenon, <1>2, <1>6
    <2> QED
      BY Zenon, <1>2, <2>1 DEF FdInv, PortsApart
  <1> QED
    BY Zenon, <1>12, <1>13, <1>14, <1>15 DEF FdInv

\* w_bind() takes a descriptor and a port that no other socket has.
LEMMA BindInv ==
  ASSUME FdInv, NewFd \in FreeFd,
         NEW s \in OsSock, NEW addr \in OsAddr, NEW port \in OsPort \cup {0}, NEW opt \in Opt,
         OsBind(s, addr, port, opt)
  PROVE  FdInv'
  <1> DEFINE o == IF OsRiot THEN NoOpt ELSE opt
             f == NewFd
  <1>1. PICK p \in BindPorts(addr, port) :
         /\ kfd' = Put(kfd, f, KSetOpt(KSock(addr, p), NoOpt, o))
         /\ sk' = Put(sk, s, [addr |-> addr, fd |-> f, lport |-> LocalPortKnown(port, p),
                              rport |-> 0, opt |-> SetOpt(NoOpt, addr, o)])
    BY Zenon DEF OsBind
  <1> DEFINE k == KSetOpt(KSock(addr, p), NoOpt, o)
             r == [addr |-> addr, fd |-> f, lport |-> LocalPortKnown(port, p),
                   rport |-> 0, opt |-> SetOpt(NoOpt, addr, o)]
  <1>2. s \notin DOMAIN sk /\ UNCHANGED <<os, wsl, lost>> /\ ep' = EpAdd(f)
    BY Zenon DEF OsBind
  <1>3. f \in Fd /\ f \notin DOMAIN kfd /\ f # ep.fd /\ f \notin lost
    BY Zenon DEF FreeFd
  <1>4. o \in Opt /\ NoOpt \in Opt
    BY Zenon DEF NoOpt, Opt
  <1>5. p \in OsPort \cup {0} /\ (p # 0 => p \in FreePorts(addr)) /\ LocalPortKnown(port, p) = p
        /\ (OsRiot \/ p # 0)
    BY Zenon, FdAssumption DEF BindPorts, FreePorts, LocalPortKnown
  <1>6. KSock(addr, p) \in KernelSock
        /\ KSock(addr, p).addr = addr /\ KSock(addr, p).port = p /\ KSock(addr, p).peer = 0
        /\ KSock(addr, p).tos = FALSE /\ KSock(addr, p).nocheck = FALSE
        /\ NoOpt.ecn = FALSE /\ NoOpt.zero_cksum = FALSE
    BY Zenon, <1>5 DEF KSock, NoOpt
  <1> HIDE DEF o, f
  <1>7. /\ k \in KernelSock
        /\ k.addr = addr /\ k.port = p /\ k.peer = 0 /\ SetOpt(NoOpt, addr, o) \in Opt
        /\ (~OsRiot /\ ~wsl) => OptAgrees(SetOpt(NoOpt, addr, o), k)
    <2> DEFINE kk == KSock(addr, p)
    <2> HIDE DEF kk
    <2>1. kk.addr = addr /\ kk.port = p /\ kk.peer = 0
          /\ kk.tos = NoOpt.ecn /\ kk.nocheck = NoOpt.zero_cksum /\ ~kk.nocheck
          /\ kk \in KernelSock
      BY <1>6, Zenon DEF kk
    <2>2. k = KSetOpt(kk, NoOpt, o)
      BY Zenon DEF kk
    <2> HIDE DEF k
    <2>4. /\ KSetOpt(kk, NoOpt, o) \in KernelSock
          /\ KSetOpt(kk, NoOpt, o).addr = kk.addr /\ KSetOpt(kk, NoOpt, o).port = kk.port
          /\ KSetOpt(kk, NoOpt, o).peer = kk.peer
          /\ SetOpt(NoOpt, kk.addr, o) \in Opt
          /\ (~OsRiot /\ ~wsl) => OptAgrees(SetOpt(NoOpt, kk.addr, o), KSetOpt(kk, NoOpt, o))
      BY ZenonT(60), <1>4, <2>1, SetOptTypes
    <2> QED
      BY <2>1, <2>2, <2>4, Zenon
  <1>8. r \in WSock
        /\ r.addr = addr /\ r.fd = f /\ r.lport = p /\ r.rport = 0 /\ r.opt = SetOpt(NoOpt, addr, o)
    BY ZenonT(60), <1>3, <1>5, <1>7
  <1>9. /\ DOMAIN sk' = DOMAIN sk \cup {s} /\ DOMAIN kfd' = DOMAIN kfd \cup {f}
        /\ sk'[s] = r /\ kfd'[f] = k
        /\ \A t \in DOMAIN sk : sk'[t] = sk[t]
        /\ \A g \in DOMAIN kfd : kfd'[g] = kfd[g]
    BY Zenon, <1>1, <1>2, <1>3 DEF Put
  <1> HIDE DEF k, r
  <1>10. SockAgrees(r, k)
    BY Zenon, <1>5, <1>7, <1>8 DEF SockAgrees
  <1>11. \A t \in DOMAIN sk : sk[t].fd \in DOMAIN kfd /\ sk[t].fd # f /\ sk'[t].fd = sk[t].fd
    BY ZenonT(60), <1>3, <1>9 DEF FdInv, FdsApart
  <1>12. FdTypes'
    <2>1. FdTypeOK'
      BY ZenonT(60), <1>2, <1>3, <1>7, <1>8, <1>9 DEF FdInv, FdTypes, FdTypeOK, EpAdd
    <2>2. ep' \in [fd : Fd \cup {-1}, watched : SUBSET Fd] /\ ep'.fd = ep.fd
      BY Zenon, <1>2, <1>3 DEF EpAdd, FdInv, FdTypes
    <2> QED
      BY Zenon, <1>2, <2>1, <2>2 DEF FdInv, FdTypes, OsRiot
  <1>13. FdsApart'
    <2>1. {sk'[t].fd : t \in DOMAIN sk'} = {sk[t].fd : t \in DOMAIN sk} \cup {f}
      BY <1>2, <1>8, <1>9
    <2>2. ep'.fd = ep.fd /\ ep'.watched = IF OsRiot THEN ep.watched ELSE ep.watched \cup {f}
      BY Zenon, <1>2 DEF EpAdd, FdInv, FdTypes
    <2>3. \A t, u \in DOMAIN sk' : sk'[t].fd = sk'[u].fd => t = u
      BY <1>8, <1>9, <1>11 DEF FdInv, FdsApart
    <2>4. \A t \in DOMAIN sk' : sk'[t].fd \in DOMAIN kfd' /\ sk'[t].fd \notin lost'
      BY ZenonT(60), <1>2, <1>3, <1>8, <1>9, <1>11 DEF FdInv, FdsApart
    <2> QED
      BY ZenonT(60), <1>2, <1>3, <1>9, <2>1, <2>2, <2>3, <2>4 DEF FdInv, FdsApart, OsRiot
  <1>14. FdsAgree'
    <2> SUFFICES ASSUME NEW t \in DOMAIN sk' PROVE SockAgrees(sk[t], kfd[sk[t].fd])'
      BY Zenon DEF FdsAgree
    <2>1. CASE t = s
      BY Zenon, <2>1, <1>2, <1>8, <1>9, <1>10 DEF SockAgrees, OsRiot
    <2>2. CASE t # s
      <3>1. t \in DOMAIN sk /\ sk'[t] = sk[t] /\ kfd'[sk[t].fd] = kfd[sk[t].fd]
        BY Zenon, <2>2, <1>9, <1>11
      <3>2. SockAgrees(sk[t], kfd[sk[t].fd])
        BY Zenon, <3>1 DEF FdInv, FdsAgree
      <3> QED
        BY Zenon, <3>1, <3>2, <1>2 DEF SockAgrees, OsRiot
    <2> QED
      BY Zenon, <2>1, <2>2
  <1>15. PortsApart'
    BY SMTT(60), <1>5, <1>7, <1>9 DEF FdInv, PortsApart, FreePorts
  <1> QED
    BY Zenon, <1>12, <1>13, <1>14, <1>15 DEF FdInv

\* A bind() that fails forgets a descriptor that no socket has.
LEMMA BindFailsInv ==
  ASSUME FdInv, NewFd \in FreeFd,
         NEW s \in OsSock, NEW addr \in OsAddr, NEW port \in OsPort, OsBindFails(s, addr, port)
  PROVE  FdInv'
  <1>1. UNCHANGED <<os, wsl, sk, kfd, ep>> /\ lost' = lost \cup {NewFd}
    BY Zenon DEF OsBindFails
  <1>2. NewFd \in Fd /\ NewFd \notin DOMAIN kfd /\ NewFd # ep.fd
    BY Zenon DEF FreeFd
  <1>3. FdTypes'
    BY Zenon, <1>1, <1>2 DEF FdInv, FdTypes, FdTypeOK, OsRiot
  <1>4. FdsApart'
    BY ZenonT(60), <1>1, <1>2 DEF FdInv, FdsApart, OsRiot
  <1>5. FdsAgree' /\ PortsApart'
    BY Zenon, <1>1 DEF FdInv, FdsAgree, SockAgrees, PortsApart, OsRiot
  <1> QED
    BY Zenon, <1>3, <1>4, <1>5 DEF FdInv

\* w_connect() stores the peer and, on RIOT, the port that the kernel has taken.
LEMMA ConnectInv ==
  ASSUME FdInv, NEW s \in OsSock, NEW peer \in OsPeer, OsConnect(s, peer)
  PROVE  FdInv'
  <1> DEFINE f == sk[s].fd
  <1>1. PICK p \in IF kfd[f].port = 0 THEN FreePorts(kfd[f].addr) ELSE {kfd[f].port} :
         /\ kfd' = [kfd EXCEPT ![f].peer = peer, ![f].port = p]
         /\ sk' = [sk EXCEPT ![s].rport = peer, ![s].lport = IF @ = 0 THEN p ELSE @]
    BY ZenonT(60) DEF OsConnect
  <1>2. UNCHANGED <<os, wsl, ep, lost>> /\ s \in DOMAIN sk /\ f \in DOMAIN kfd
    BY Zenon DEF OsConnect, FdInv, FdsApart
  <1>3. /\ sk[s] \in WSock
        /\ kfd[f] \in KernelSock
        /\ SockAgrees(sk[s], kfd[f])
    BY Zenon, <1>2 DEF FdInv, FdTypes, FdTypeOK, FdsAgree
  <1>4. p \in OsPort /\ p # 0 /\ (kfd[f].port = 0 => p \in FreePorts(kfd[f].addr))
        /\ (kfd[f].port # 0 => p = kfd[f].port)
    BY Zenon, <1>1, <1>3, FdAssumption DEF FreePorts
  <1>5. /\ DOMAIN sk' = DOMAIN sk /\ DOMAIN kfd' = DOMAIN kfd
        /\ \A t \in DOMAIN sk \ {s} : sk'[t] = sk[t]
        /\ \A g \in DOMAIN kfd \ {f} : kfd'[g] = kfd[g]
    BY Zenon, <1>1, <1>2
  <1>6. /\ kfd'[f] \in KernelSock
        /\ kfd'[f].addr = kfd[f].addr /\ kfd'[f].port = p /\ kfd'[f].peer = peer
        /\ kfd'[f].tos = kfd[f].tos /\ kfd'[f].nocheck = kfd[f].nocheck
    <2>1. kfd'[f] = [[kfd[f] EXCEPT !.peer = peer] EXCEPT !.port = p]
      BY Zenon, <1>1, <1>2
    <2> QED
      BY Zenon, <1>3, <1>4, <2>1
  <1>7. /\ sk'[s] \in WSock
        /\ sk'[s].addr = sk[s].addr /\ sk'[s].fd = sk[s].fd /\ sk'[s].opt = sk[s].opt
        /\ sk'[s].rport = peer /\ sk'[s].lport = p
    <2> DEFINE q == [sk[s] EXCEPT !.rport = peer]
    <2>1. sk'[s] = [q EXCEPT !.lport = IF q.lport = 0 THEN p ELSE q.lport]
      BY Zenon, <1>1, <1>2
    <2>2. sk[s].lport = kfd[f].port
      BY ZenonT(60), <1>3 DEF SockAgrees
    <2>3. q.lport = sk[s].lport
      BY Zenon, <1>3
    <2> QED
      BY ZenonT(60), <1>3, <1>4, <2>1, <2>2, <2>3
  <1>8. SockAgrees(sk[s], kfd[f])'
    BY SMTT(60), <1>2, <1>3, <1>4, <1>6, <1>7 DEF SockAgrees, OsRiot
  <1> HIDE DEF f
  <1>9. \A t \in DOMAIN sk : sk'[t].fd = sk[t].fd
    BY Zenon, <1>5, <1>7
  <1>10. \A t \in DOMAIN sk \ {s} : sk[t].fd \in DOMAIN kfd \ {f}
    BY Zenon, <1>2 DEF FdInv, FdsApart, f
  <1>11. FdTypes'
    BY ZenonT(60), <1>2, <1>5, <1>6, <1>7 DEF FdInv, FdTypes, FdTypeOK, OsRiot
  <1>12. FdsApart'
    <2>1. {sk'[t].fd : t \in DOMAIN sk'} = {sk[t].fd : t \in DOMAIN sk}
      BY ZenonT(60), <1>5, <1>9
    <2> QED
      BY ZenonT(60), <1>2, <1>5, <1>9, <2>1 DEF FdInv, FdsApart, OsRiot
  <1>13. FdsAgree'
    <2> SUFFICES ASSUME NEW t \in DOMAIN sk PROVE SockAgrees(sk[t], kfd[sk[t].fd])'
      BY Zenon, <1>5 DEF FdsAgree
    <2>1. CASE t = s
      BY Zenon, <2>1, <1>7, <1>8 DEF f
    <2>2. CASE t # s
      <3>1. sk'[t] = sk[t] /\ kfd'[sk[t].fd] = kfd[sk[t].fd]
        BY Zenon, <2>2, <1>5, <1>10
      <3>2. SockAgrees(sk[t], kfd[sk[t].fd])
        BY Zenon DEF FdInv, FdsAgree
      <3> QED
        BY ZenonT(60), <3>1, <3>2, <1>2 DEF SockAgrees, OsRiot
    <2> QED
      BY ZenonT(60), <2>1, <2>2
  <1>14. PortsApart'
    <2> SUFFICES ASSUME NEW g \in DOMAIN kfd, NEW h \in DOMAIN kfd, g # h,
                        kfd'[g].addr = kfd'[h].addr, kfd'[g].port = kfd'[h].port
                 PROVE  kfd'[g].port = 0
      BY Zenon, <1>5 DEF PortsApart
    <2>1. CASE kfd[f].port # 0
      <3>1. \A x \in DOMAIN kfd : kfd'[x].addr = kfd[x].addr /\ kfd'[x].port = kfd[x].port
        BY Zenon, <2>1, <1>4, <1>5, <1>6
      <3> QED
        BY Zenon, <3>1 DEF FdInv, PortsApart
    <2>2. CASE kfd[f].port = 0
      <3>1. \A x \in DOMAIN kfd \ {f} : kfd[x].addr = kfd[f].addr => kfd[x].port # p
        BY Zenon, <2>2, <1>4 DEF FreePorts
      <3>2. \A x \in DOMAIN kfd : kfd'[x].addr = kfd[x].addr
        BY Zenon, <1>5, <1>6
      <3>3. g # f /\ h # f
        BY <3>1, <3>2, <1>5, <1>6
      <3> QED
        BY Zenon, <3>3, <1>5 DEF FdInv, PortsApart
    <2> QED
      BY Zenon, <2>1, <2>2
  <1> QED
    BY Zenon, <1>11, <1>12, <1>13, <1>14 DEF FdInv

\* A w_connect() that fails leaves the socket as it was.
LEMMA ConnectFailsInv ==
  ASSUME FdInv, NEW s \in OsSock, NEW peer \in OsPeer, OsConnectFails(s, peer)
  PROVE  FdInv'
  <1>1. s \in DOMAIN sk /\ UNCHANGED <<os, wsl, kfd, ep, lost>>
    BY Zenon DEF OsConnectFails
  <1>2. sk[s] \in WSock /\ sk[s].rport = 0
    BY Zenon, <1>1 DEF FdInv, FdTypes, FdTypeOK, OsConnectFails
  <1>3. [sk[s] EXCEPT !.rport = 0] = sk[s]
    BY Zenon, <1>2
  <1>4. DOMAIN sk' = DOMAIN sk /\ \A t \in DOMAIN sk : sk'[t] = sk[t]
    BY Zenon, <1>1, <1>3 DEF OsConnectFails, RemAfterError
  <1>5. FdTypes'
    BY Zenon, <1>1, <1>4 DEF FdInv, FdTypes, FdTypeOK, OsRiot
  <1>6. FdsApart'
    <2>1. {sk'[t].fd : t \in DOMAIN sk'} = {sk[t].fd : t \in DOMAIN sk}
      BY Zenon, <1>4
    <2> QED
      BY ZenonT(60), <1>1, <1>4, <2>1 DEF FdInv, FdsApart, OsRiot
  <1>7. FdsAgree' /\ PortsApart'
    <2>1. PortsApart'
      BY Zenon, <1>1 DEF FdInv, PortsApart
    <2>2. ASSUME NEW t \in DOMAIN sk PROVE SockAgrees(sk[t], kfd[sk[t].fd])'
      <3>1. sk'[t] = sk[t] /\ UNCHANGED <<kfd, os, wsl>>
        BY Zenon, <1>1, <1>4
      <3>2. SockAgrees(sk[t], kfd[sk[t].fd])
        BY Zenon DEF FdInv, FdsAgree
      <3> QED
        BY ZenonT(60), <3>1, <3>2 DEF SockAgrees, OsRiot
    <2> QED
      BY Zenon, <1>4, <2>1, <2>2 DEF FdsAgree
  <1> QED
    BY Zenon, <1>5, <1>6, <1>7 DEF FdInv

\* w_close() closes the descriptor of the socket and no other.
LEMMA CloseInv ==
  ASSUME FdInv, NEW s \in OsSock, OsClose(s)
  PROVE  FdInv'
  <1>1. s \in DOMAIN sk /\ UNCHANGED <<os, wsl, lost>>
        /\ ep' = [ep EXCEPT !.watched = @ \ {sk[s].fd}]
    BY Zenon DEF OsClose
  <1>2. /\ DOMAIN sk' = DOMAIN sk \ {s} /\ DOMAIN kfd' = DOMAIN kfd \ {sk[s].fd}
        /\ \A t \in DOMAIN sk' : sk'[t] = sk[t]
        /\ \A g \in DOMAIN kfd' : kfd'[g] = kfd[g]
    BY Zenon DEF OsClose, Closed, Drop, Restrict
  <1>3. ep' \in [fd : Fd \cup {-1}, watched : SUBSET Fd] /\ ep'.fd = ep.fd
        /\ ep'.watched = ep.watched \ {sk[s].fd}
    BY Zenon, <1>1 DEF FdInv, FdTypes
  <1>4. \A t \in DOMAIN sk' : sk'[t].fd \in DOMAIN kfd'
    BY Zenon, <1>1, <1>2 DEF FdInv, FdsApart
  <1>5. FdTypes'
    BY Zenon, <1>1, <1>2, <1>3 DEF FdInv, FdTypes, FdTypeOK, OsRiot
  <1>6. FdsApart'
    <2>1. {sk'[t].fd : t \in DOMAIN sk'} = {sk[t].fd : t \in DOMAIN sk} \ {sk[s].fd}
      BY <1>1, <1>2 DEF FdInv, FdsApart
    <2> QED
      BY <1>1, <1>2, <1>3, <1>4, <2>1 DEF FdInv, FdsApart, OsRiot
  <1>7. FdsAgree' /\ PortsApart'
    BY SMTT(60), <1>1, <1>2, <1>4 DEF FdInv, FdsAgree, SockAgrees, PortsApart, OsRiot
  <1> QED
    BY Zenon, <1>5, <1>6, <1>7 DEF FdInv

\* w_cleanup() forgets the descriptors it does not close, and the next engine gets
\* an epoll descriptor that is none of them.
LEMMA CleanupInv ==
  ASSUME FdInv, ~OsRiot => NewFd \in FreeFd, OsCleanup
  PROVE  FdInv'
  <1>1. PICK S \in CleanupCloses :
         /\ kfd' = Drop(kfd, {sk[s].fd : s \in S})
         /\ lost' = lost \cup {sk[s].fd : s \in DOMAIN sk \ S} \cup ({ep.fd} \ {-1})
    BY ZenonT(60) DEF OsCleanup
  <1>2. S \subseteq DOMAIN sk /\ UNCHANGED <<os, wsl>> /\ DOMAIN sk' = {}
        /\ ep' = [fd |-> IF OsRiot THEN -1 ELSE NewFd, watched |-> {}]
    BY SMTT(60) DEF OsCleanup, CleanupCloses
  <1>3. DOMAIN kfd' = DOMAIN kfd \ {sk[s].fd : s \in S}
        /\ \A g \in DOMAIN kfd' : kfd'[g] = kfd[g]
    BY Zenon, <1>1 DEF Drop, Restrict
  <1>4. ~OsRiot => NewFd \in Fd /\ NewFd \notin DOMAIN kfd /\ NewFd \notin lost /\ NewFd # ep.fd
    BY Zenon DEF FreeFd
  <1>5. lost' \subseteq Fd /\ -1 \notin Fd
    <2>1. lost \subseteq Fd /\ ep.fd \in Fd \cup {-1} /\ \A s \in DOMAIN sk : sk[s].fd \in Fd
      BY Zenon DEF FdInv, FdTypes, FdTypeOK
    <2>2. -1 \notin Fd
      BY SMTT(60), FdAssumption
    <2> QED
      BY ZenonT(60), <1>1, <2>1, <2>2
  <1>6. ~OsRiot => NewFd \notin lost'
    BY <1>1, <1>4 DEF FdInv, FdsApart
  <1>7. DOMAIN kfd' \subseteq lost'
    BY ZenonT(60), <1>1, <1>2, <1>3 DEF FdInv, FdsApart
  <1>8. FdTypes'
    BY Zenon, <1>2, <1>3, <1>4, <1>5 DEF FdInv, FdTypes, FdTypeOK, OsRiot
  <1>9. FdsApart'
    BY Zenon, <1>2, <1>5, <1>6, <1>7 DEF FdsApart, OsRiot
  <1>10. FdsAgree' /\ PortsApart'
    BY Zenon, <1>2, <1>3 DEF FdInv, FdsAgree, PortsApart
  <1> QED
    BY Zenon, <1>8, <1>9, <1>10 DEF FdInv

-----------------------------------------------------------------------------
INSTANCE WellFoundedInduction

\* A set of natural numbers that is not empty has a least element.
LEMMA MinNat == ASSUME NEW T \in SUBSET Nat, T # {} PROVE Min(T) \in T
  <1> DEFINE R == OpToRel(<, Nat)
  <1>1. R = {ss \in Nat \X Nat : ss[1] < ss[2]}
    BY Zenon DEF OpToRel
  <1>2. IsWellFoundedOn(R, Nat)
    BY NatLessThanWellFounded, Zenon
  <1> HIDE DEF R
  <1>3. PICK m \in T : \A n \in T : ~(<<n, m>> \in R)
    BY Zenon, <1>2, WFMin
  <1>4. \A n \in T : ~(n < m)
    BY Zenon, <1>1, <1>3
  <1>5. \A n \in T : m <= n
    BY <1>4
  <1> QED
    BY Zenon, <1>5 DEF Min

\* The invariant holds in every state.
LEMMA FdInvariant == FdSpec => []FdInv
  <1>1. FdInit => FdInv
    BY Zenon, MinNat, FdAssumption, FdInitInv
  <1>2. FdInv /\ [FdNext]_fdVars => FdInv'
    <2> SUFFICES ASSUME FdInv, [FdNext]_fdVars PROVE FdInv'
      BY Zenon
    <2>1. FreeFd # {} => NewFd \in FreeFd
      <3>1. FreeFd \in SUBSET Nat
        BY Zenon, FdAssumption DEF FreeFd
      <3> QED
        BY Zenon, <3>1, MinNat DEF NewFd
    <2>2. ASSUME NEW s \in OsSock, NEW opt \in Opt, OsSetSockopt(s, opt) PROVE FdInv'
      BY Zenon, <2>2, SetSockoptInv
    <2>3. ASSUME NEW s \in OsSock, NEW addr \in OsAddr, NEW port \in OsPort \cup {0},
                 NEW opt \in Opt, OsBind(s, addr, port, opt) PROVE FdInv'
      <3>1. NewFd \in FreeFd
        BY Zenon, <2>1, <2>3 DEF OsBind
      <3> QED
        BY Zenon, <2>3, <3>1, BindInv
    <2>4. ASSUME NEW s \in OsSock, NEW addr \in OsAddr, NEW port \in OsPort,
                 OsBindFails(s, addr, port) PROVE FdInv'
      <3>1. NewFd \in FreeFd
        BY Zenon, <2>1, <2>4 DEF OsBindFails
      <3> QED
        BY Zenon, <2>4, <3>1, BindFailsInv
    <2>5. ASSUME NEW s \in OsSock, NEW peer \in OsPeer, OsConnect(s, peer) PROVE FdInv'
      BY Zenon, <2>5, ConnectInv
    <2>6. ASSUME NEW s \in OsSock, NEW peer \in OsPeer, OsConnectFails(s, peer) PROVE FdInv'
      BY Zenon, <2>6, ConnectFailsInv
    <2>7. ASSUME NEW s \in OsSock, OsClose(s) PROVE FdInv'
      BY Zenon, <2>7, CloseInv
    <2>8. CASE OsCleanup
      <3>1. ~OsRiot => NewFd \in FreeFd
        BY Zenon, <2>1, <2>8 DEF OsCleanup
      <3> QED
        BY Zenon, <2>8, <3>1, CleanupInv
    <2>9. CASE UNCHANGED fdVars
      <3>1. UNCHANGED <<os, wsl, sk, kfd, ep, lost>>
        BY Zenon, <2>9 DEF fdVars
      <3>2. FdTypes'
        BY Zenon, <3>1 DEF FdInv, FdTypes, FdTypeOK, OsRiot
      <3>3. FdsApart'
        BY SMTT(60), <3>1 DEF FdInv, FdsApart, OsRiot
      <3>4. PortsApart'
        BY Zenon, <3>1 DEF FdInv, PortsApart
      <3>5. FdsAgree'
        BY SMTT(60), <3>1 DEF FdInv, FdsAgree, SockAgrees, OsRiot
      <3> QED
        BY Zenon, <3>2, <3>3, <3>4, <3>5 DEF FdInv
    <2> QED
      BY Zenon, <2>2, <2>3, <2>4, <2>5, <2>6, <2>7, <2>8, <2>9 DEF FdNext, OsNoSocket
  <1> QED
    BY <1>1, <1>2, PTL DEF FdSpec

\* However many sockets, descriptors and ports there are, and whichever calls fail,
\* every open descriptor belongs to exactly one w_sock and is watched by the epoll
\* instance, and only a bind() that fails and w_cleanup() forget any.
THEOREM FdsAreOwned == FdSpec => []FdsOwned
  BY FdInvariant, FdInvImplies, PTL

\* After any sequence of w_bind(), w_set_sockopt(), w_connect() and w_close(), the
\* options that w_get_sockopt() returns are those that the kernel applies.
THEOREM OptsAreApplied == FdSpec => []OptsApplied
  BY FdInvariant, FdInvImplies, PTL

\* The address, the port and the peer that w_bind() and w_connect() store are those of
\* the kernel, and no two open sockets share an address and a port.
THEOREM AddrsAreKnown == FdSpec => []AddrsKnown
  BY FdInvariant, FdInvImplies, PTL

-----------------------------------------------------------------------------
(* The table of sockets.                                                   *)

\* Where w_connect() is, and what a socket's tuple looks like meanwhile.
ConnInv ==
    /\ conn.at = "off" => conn = NoConn
    /\ conn.at # "off" => conn.s \in live /\ tup[conn.s].rem \in Peer
    /\ \A s \in Sock : IF s \in live THEN tup[s] \in Tuple ELSE tup[s] = NoTup

\* Inductive whatever the application does.
SoundInv == TypeOK /\ ConnInv /\ TableSound

\* An entry of the table: a pointer to a tuple, and a socket.
Entry == [key : Sock, val : Sock]

\* ins_sock() adds or takes over one entry, and its value is the socket.
LEMMA InsFacts ==
  ASSUME TypeOK, NEW t \in Tuple, NEW s \in Sock, InsSock(t, s)
  PROVE  /\ DOMAIN table' = DOMAIN table \cup {t}
         /\ \A u \in DOMAIN table : u # t => table'[u] = table[u]
         /\ table'[t].val = s
         /\ table'[t].key = IF t \in DOMAIN table THEN table[t].key ELSE s
         /\ DOMAIN table' \subseteq Tuple /\ table' \in [DOMAIN table' -> Entry]
  BY SMTT(60) DEF TypeOK, InsSock, Entry

\* rem_sock() removes at most one entry.
LEMMA RemFacts ==
  ASSUME TypeOK, NEW t, RemSock(t)
  PROVE  /\ DOMAIN table' = DOMAIN table \ {t}
         /\ \A u \in DOMAIN table' : table'[u] = table[u]
         /\ DOMAIN table' \subseteq Tuple /\ table' \in [DOMAIN table' -> Entry]
  BY Zenon DEF TypeOK, RemSock, Restrict, Entry

\* What ins_sock() does to TableSound when the socket has the tuple.
LEMMA InsSound ==
  ASSUME SoundInv, NEW s \in Sock, NEW t \in Tuple, InsSock(t, s),
         s \in live', tup'[s] = t, s # conn'.s, live \subseteq live',
         \A u \in live \ {s} : tup'[u] = tup[u],
         \A u \in live : u # s => (u # conn.s => u # conn'.s),
         s \in live => s = conn.s
  PROVE  TableSound'
  <1> SUFFICES ASSUME NEW u \in DOMAIN table', NEW e \in {table'[u].key, table'[u].val}
               PROVE  e \in live' /\ tup'[e] = u /\ e # conn'.s
    BY Zenon DEF TableSound
  <1>1. CASE u \in DOMAIN table /\ e \in {table[u].key, table[u].val}
    BY <1>1, InsFacts DEF SoundInv, TableSound
  <1>2. CASE e = s /\ u = t
    BY Zenon, <1>2
  <1>3. TypeOK
    BY Zenon DEF SoundInv
  <1>4. CASE u # t
    <2>0. /\ DOMAIN table' = DOMAIN table \cup {t}
          /\ \A w \in DOMAIN table : w # t => table'[w] = table[w]
      BY Zenon, <1>3, InsFacts
    <2>1. u \in DOMAIN table /\ table'[u] = table[u]
      BY Zenon, <1>4, <2>0
    <2> QED
      BY Zenon, <2>1, <1>1
  <1>5. CASE u = t
    <2>1. /\ table'[t].val = s
          /\ table'[t].key = IF t \in DOMAIN table THEN table[t].key ELSE s
      BY ZenonT(60), <1>3, InsFacts
    <2> QED
      BY Zenon, <2>1, <1>1, <1>2, <1>5
  <1> QED
    BY Zenon, <1>4, <1>5

\* What rem_sock() of a socket's tuple does to TableSound.
LEMMA RemSound ==
  ASSUME SoundInv, NEW s \in live, RemSock(tup[s]),
         live \ {s} \subseteq live',
         \A u \in live \ {s} : tup'[u] = tup[u] /\ (u # conn.s => u # conn'.s)
  PROVE  TableSound'
  <1>1. TypeOK
    BY Zenon DEF SoundInv
  <1> SUFFICES ASSUME NEW u \in DOMAIN table', NEW e \in {table'[u].key, table'[u].val}
               PROVE  e \in live' /\ tup'[e] = u /\ e # conn'.s
    BY Zenon DEF TableSound
  <1>2. u \in DOMAIN table /\ u # tup[s] /\ table'[u] = table[u]
    BY ZenonT(60), <1>1, RemFacts
  <1>3. e \in live /\ tup[e] = u /\ e # conn.s
    BY <1>2 DEF SoundInv, TableSound
  <1> QED
    BY Zenon, <1>2, <1>3

-----------------------------------------------------------------------------
(* Whatever the application does.                                          *)

\* The initial state: no socket, no entry.
LEMMA SoundInit == Init => SoundInv
  BY ConstAssumption
  DEF Init, SoundInv, TypeOK, ConnInv, TableSound, NoConn, NoTup

\* w_bind(), whether or not the port is taken.
LEMMA SoundBind ==
  ASSUME SoundInv, NEW s \in Sock, NEW port \in Port \cup {None}, Bind(s, port)
  PROVE  SoundInv'
  <1> USE DEF SoundInv
  <1>1. /\ s \notin live /\ live' = live \cup {s} /\ conn' = conn /\ drop' = NoDrop
        /\ conn.s # s /\ Idle
    BY Zenon, ConstAssumption DEF Bind, ConnInv, Idle, NoConn
  <1>2. iv' \in [Sock -> Seq(Dgram)]
    BY DEF Bind, TypeOK
  <1>3. CASE Bound(port) \in DOMAIN table /\ table' = table
             /\ tup' = [tup EXCEPT ![s] = Bound(port)]
    <2>1. Bound(port) \in Tuple
      BY Zenon, <1>3 DEF TypeOK
    <2>2. TypeOK' /\ ConnInv'
      BY <1>1, <1>2, <1>3, <2>1 DEF TypeOK, ConnInv
    <2>3. TableSound'
      BY SMTT(60), <1>1, <1>3 DEF TypeOK, TableSound
    <2> QED
      BY Zenon, <2>2, <2>3
  <1>4. ASSUME NEW p \in LocalPort(port), tup' = [tup EXCEPT ![s] = Bound(p)],
               InsSock(Bound(p), s), Bound(port) \notin DOMAIN table
        PROVE  SoundInv'
    <2>1. Bound(p) \in Tuple
      BY Zenon, ConstAssumption DEF LocalPort, Draw, Bound, Tuple
    <2>2. DOMAIN table' \subseteq Tuple /\ table' \in [DOMAIN table' -> Entry]
      BY ZenonT(60), <1>4, <2>1, InsFacts
    <2>3. TypeOK' /\ ConnInv'
      BY ZenonT(60), <1>1, <1>2, <1>4, <2>1, <2>2 DEF TypeOK, ConnInv, Entry
    <2>4. /\ s \in live' /\ tup'[s] = Bound(p) /\ s # conn'.s
          /\ \A u \in live \ {s} : tup'[u] = tup[u]
      BY SMTT(60), <1>1, <1>4 DEF TypeOK
    <2>5. TableSound'
      BY Zenon, <1>1, <1>4, <2>1, <2>4, InsSound
    <2> QED
      BY Zenon, <2>3, <2>5
  <1> QED
    BY Zenon, <1>3, <1>4 DEF Bind

\* w_connect() up to who_has().
LEMMA SoundConnect ==
  ASSUME SoundInv, NEW s \in Sock, NEW peer \in Peer, Connect(s, peer)
  PROVE  SoundInv'
  <1> USE DEF SoundInv
  <1>1. /\ s \in live /\ RemSock(tup[s]) /\ live' = live /\ iv' = iv /\ drop' = NoDrop
        /\ tup' = [tup EXCEPT ![s].rem = peer]
        /\ conn' = [s |-> s, at |-> "who_has", n |-> 0]
    BY Zenon DEF Connect
  <1>2. DOMAIN table' \subseteq Tuple /\ table' \in [DOMAIN table' -> Entry]
    BY ZenonT(60), <1>1, RemFacts
  <1>3. tup'[s] \in Tuple /\ tup'[s].rem = peer
        /\ \A u \in Sock \ {s} : tup'[u] = tup[u]
    <2>1. tup[s] \in Tuple
      BY Zenon, <1>1 DEF ConnInv
    <2>2. tup'[s] = [tup[s] EXCEPT !.rem = peer]
          /\ \A u \in Sock \ {s} : tup'[u] = tup[u]
      BY Zenon, <1>1 DEF TypeOK
    <2> QED
      BY Zenon, <2>1, <2>2 DEF Tuple
  <1>4. tup' \in [Sock -> Tuple \cup {NoTup}]
    BY Zenon, <1>1, <1>3 DEF TypeOK
  <1>5. TypeOK'
    BY SMTT(60), <1>1, <1>2, <1>4 DEF TypeOK, Entry
  <1>6. ConnInv'
    BY SMTT(60), <1>1, <1>3 DEF ConnInv, TypeOK
  <1>7. TableSound'
    BY Zenon, <1>1, <1>3, RemSound DEF TypeOK
  <1> QED
    BY Zenon, <1>5, <1>6, <1>7

\* w_connect() to an unknown address family: the socket stays out of the table.
LEMMA SoundUnknown ==
  ASSUME SoundInv, NEW s \in Sock, ConnectUnknown(s)
  PROVE  SoundInv'
  <1> USE DEF SoundInv
  <1>1. s \in live /\ RemSock(tup[s]) /\ UNCHANGED <<live, tup, iv, conn>> /\ drop' = NoDrop
    BY Zenon DEF ConnectUnknown
  <1>2. DOMAIN table' \subseteq Tuple /\ table' \in [DOMAIN table' -> Entry]
    BY ZenonT(60), <1>1, RemFacts
  <1>3. TypeOK' /\ ConnInv'
    BY Zenon, <1>1, <1>2 DEF TypeOK, ConnInv, Entry
  <1>4. TableSound'
    BY Zenon, <1>1, RemSound
  <1> QED
    BY Zenon, <1>3, <1>4

\* w_close(): the entry of the socket's tuple goes before the socket does.
LEMMA SoundClose ==
  ASSUME SoundInv, NEW s \in Sock, Close(s)
  PROVE  SoundInv'
  <1> USE DEF SoundInv
  <1>1. /\ s \in live /\ RemSock(tup[s]) /\ live' = live \ {s}
        /\ tup' = [tup EXCEPT ![s] = NoTup] /\ iv' = [iv EXCEPT ![s] = <<>>]
        /\ conn' = conn /\ drop' = NoDrop /\ conn = NoConn
    BY Zenon DEF Close, Idle
  <1>2. DOMAIN table' \subseteq Tuple /\ table' \in [DOMAIN table' -> Entry]
    BY ZenonT(60), <1>1, RemFacts
  <1>3. iv' \in [Sock -> Seq(Dgram)]
    BY <1>1 DEF TypeOK
  <1>4. TypeOK' /\ ConnInv'
    BY ZenonT(60), <1>1, <1>2, <1>3 DEF TypeOK, ConnInv, Entry, NoConn
  <1>5. TableSound'
    BY ZenonT(60), <1>1, RemSound DEF TypeOK
  <1> QED
    BY Zenon, <1>4, <1>5

\* n-- on a uint8_t.
LEMMA ByteDec == ASSUME NEW k \in 0 .. 255 PROVE (k - 1) % 256 \in 0 .. 255
  BY SMTT(60)

\* A reroll, and the end of backend_connect().
LEMMA SoundRoll == ASSUME SoundInv, Roll PROVE SoundInv'
  <1> USE DEF SoundInv
  <1> DEFINE s == conn.s
             n == (conn.n - 1) % 256
  <1>1. /\ conn.at = "roll" /\ s \in live /\ s \in Sock /\ tup[s] \in Tuple
        /\ tup[s].rem \in Peer /\ UNCHANGED <<live, iv>> /\ drop' = NoDrop
    BY Zenon DEF Roll, ConnInv, TypeOK
  <1>2. n \in 0 .. 255
    <2>1. conn.n \in 0 .. 255
      BY Zenon DEF TypeOK
    <2> QED
      BY Zenon, <2>1, ByteDec
  <1>3. CASE ConnectReturn(n) /\ n # 0
    <2>1. conn' = NoConn /\ InsSock(tup[s], s) /\ tup' = tup
      BY Zenon, <1>3 DEF ConnectReturn
    <2>2. DOMAIN table' \subseteq Tuple /\ table' \in [DOMAIN table' -> Entry]
      BY ZenonT(60), <1>1, <2>1, InsFacts
    <2>3. TypeOK' /\ ConnInv'
      BY SMTT(60), <1>1, <2>1, <2>2 DEF TypeOK, ConnInv, Entry, NoConn
    <2>4. TableSound'
      BY ZenonT(60), <1>1, <2>1, ConstAssumption, InsSound DEF NoConn, TypeOK
    <2> QED
      BY Zenon, <2>3, <2>4
  <1>4. CASE ConnectReturn(n) /\ n = 0
    <2>1. conn' = NoConn /\ tup' = [tup EXCEPT ![s].rem = None] /\ table' = table
      BY Zenon, <1>4 DEF ConnectReturn
    <2>2. tup'[s] = [tup[s] EXCEPT !.rem = None] /\ \A u \in Sock \ {s} : tup'[u] = tup[u]
      BY Zenon, <1>1, <2>1 DEF TypeOK
    <2>3. tup'[s] \in Tuple
      BY Zenon, <1>1, <2>2 DEF Tuple
    <2>4. tup' \in [Sock -> Tuple \cup {NoTup}]
      BY ZenonT(60), <2>1, <2>3 DEF TypeOK
    <2>5. TypeOK'
      BY <1>1, <2>1, <2>4 DEF TypeOK, NoConn
    <2>6. ConnInv'
      BY <1>1, <2>1, <2>2, <2>3 DEF ConnInv, TypeOK, NoConn
    <2>7. TableSound'
      BY SMTT(60), <1>1, <2>1, <2>2, ConstAssumption DEF TableSound, TypeOK, NoConn
    <2> QED
      BY Zenon, <2>5, <2>6, <2>7
  <1>5. ASSUME NEW p \in Draw(tup[s].rem), tup' = [tup EXCEPT ![s].loc = p],
               conn' = [conn EXCEPT !.n = n], table' = table
        PROVE  SoundInv'
    <2>1. p \in Port
      BY Zenon, ConstAssumption DEF Draw
    <2>2. tup'[s] = [tup[s] EXCEPT !.loc = p] /\ \A u \in Sock \ {s} : tup'[u] = tup[u]
      BY Zenon, <1>1, <1>5 DEF TypeOK
    <2>3. tup'[s] \in Tuple /\ tup'[s].rem = tup[s].rem
      BY Zenon, <1>1, <2>1, <2>2 DEF Tuple
    <2>4. tup' \in [Sock -> Tuple \cup {NoTup}]
      BY ZenonT(60), <1>5, <2>3 DEF TypeOK
    <2>5. conn'.s = s /\ conn'.at = "roll"
          /\ conn' \in [s : Sock \cup {None}, at : {"off", "who_has", "roll"}, n : 0 .. 255]
      BY ZenonT(60), <1>1, <1>2, <1>5 DEF TypeOK
    <2>6. TypeOK'
      BY Zenon, <1>1, <1>5, <2>4, <2>5 DEF TypeOK
    <2>7. ConnInv'
      BY ZenonT(60), <1>1, <2>2, <2>3, <2>5 DEF ConnInv, TypeOK
    <2>8. TableSound'
      <3> SUFFICES ASSUME NEW t \in DOMAIN table, NEW u \in {table[t].key, table[t].val}
                   PROVE  u \in live' /\ tup'[u] = t /\ u # conn'.s
        BY Zenon, <1>5 DEF TableSound
      <3>1. u \in live /\ tup[u] = t /\ u # s
        BY Zenon DEF TableSound
      <3>2. u \in Sock \ {s}
        BY Zenon, <3>1 DEF TypeOK
      <3> QED
        BY Zenon, <1>1, <2>2, <2>5, <3>1, <3>2
    <2> QED
      BY Zenon, <2>6, <2>7, <2>8
  <1> QED
    BY ZenonT(60), <1>3, <1>4, <1>5 DEF Roll

\* udp_rx() finds open sockets only, and the lookup order is the code's.
LEMMA FoundFacts ==
  ASSUME SoundInv, NEW d \in Dgram, Found(d) # {}
  PROVE  /\ Receiver(d) \in live /\ Receiver(d) # conn.s
         /\ IF Connected(d) \in DOMAIN table
              THEN Receiver(d) = table[Connected(d)].val /\ tup[Receiver(d)] = Connected(d)
              ELSE /\ Bound(d.dst) \in DOMAIN table
                   /\ Receiver(d) = table[Bound(d.dst)].val
                   /\ tup[Receiver(d)] = Bound(d.dst)
  <1> DEFINE i == CHOOSE i \in Found(d) : \A j \in Found(d) : i <= j
  <1>1. CASE Connected(d) \in DOMAIN table
    <2>1. 1 \in Found(d) /\ Found(d) \subseteq {1, 2}
      BY <1>1 DEF Found, Lookups
    <2>2. \A j \in Found(d) : 1 <= j
      BY <2>1
    <2>3. i \in Found(d) /\ i <= 1
      BY Zenon, <2>1, <2>2
    <2>4. i = 1
      BY <2>1, <2>3
    <2>5. Receiver(d) = table[Lookups(d)[1]].val
      BY ZenonT(60), <2>4 DEF Receiver
    <2>6. Receiver(d) = table[Connected(d)].val
      BY Zenon, <2>5 DEF Lookups
    <2> QED
      BY Zenon, <1>1, <2>6 DEF SoundInv, TableSound
  <1>2. CASE Connected(d) \notin DOMAIN table
    <2>1. Found(d) = {2} /\ Bound(d.dst) \in DOMAIN table
      BY <1>2 DEF Found, Lookups
    <2>2. i = 2
      BY <2>1
    <2> QED
      BY <1>2, <2>1, <2>2 DEF Receiver, Lookups, SoundInv, TableSound
  <1> QED
    BY Zenon, <1>1, <1>2

\* What udp_rx() notes of a datagram that it drops.
LEMMA DropFact ==
  ASSUME NEW d \in Dgram, drop' = [d |-> d, how |-> Unwanted(d)]
  PROVE  drop'.d = d /\ drop' \in [d : Dgram, how : {"icmp", "silent"}]
  <1>1. Unwanted(d) \in {"icmp", "silent"}
    BY Zenon DEF Unwanted
  <1> QED
    BY SMTT(60), <1>1

\* udp_rx(), w_rx() and the return of who_has() leave table and tuples alone.
LEMMA SoundRest ==
  ASSUME SoundInv,
         (\E d \in Dgram : UdpRx(d)) \/ (\E s \in Sock : Rx(s)) \/ Resolved
           \/ UNCHANGED vars
  PROVE  SoundInv'
  <1> USE DEF SoundInv
  <1>1. ASSUME NEW d \in Dgram, UdpRx(d) PROVE SoundInv'
    <2>1. /\ UNCHANGED <<live, tup, table, conn>>
          /\ drop' \in [d : Dgram, how : {"icmp", "silent"}] \cup {NoDrop}
      <3>1. drop' = NoDrop \/ drop' = [d |-> d, how |-> Unwanted(d)]
        BY Zenon, <1>1 DEF UdpRx
      <3>2. UNCHANGED <<live, tup, table, conn>>
        BY Zenon, <1>1 DEF UdpRx
      <3> QED
        BY Zenon, <3>1, <3>2, DropFact
    <2>2. iv' \in [Sock -> Seq(Dgram)]
      <3>1. CASE Found(d) # {} /\ iv' = [iv EXCEPT ![Receiver(d)] = Append(@, d)]
        <4>1. Receiver(d) \in Sock
          BY Zenon, <3>1, FoundFacts DEF TypeOK
        <4>2. iv[Receiver(d)] \in Seq(Dgram)
          BY Zenon, <4>1 DEF TypeOK
        <4>3. Append(iv[Receiver(d)], d) \in Seq(Dgram)
          BY <4>2
        <4> QED
          BY ZenonT(60), <3>1, <4>3 DEF TypeOK
      <3>2. CASE iv' = iv
        BY Zenon, <3>2 DEF TypeOK
      <3> QED
        BY Zenon, <1>1, <3>1, <3>2 DEF UdpRx
    <2>3. TypeOK'
      BY Zenon, <2>1, <2>2 DEF TypeOK
    <2>4. ConnInv'
      BY SMTT(60), <2>1 DEF ConnInv
    <2>5. TableSound'
      BY SMTT(60), <2>1 DEF TableSound
    <2> QED
      BY Zenon, <2>3, <2>4, <2>5
  <1>2. ASSUME NEW s \in Sock, Rx(s) PROVE SoundInv'
    <2>1. UNCHANGED <<live, tup, table, conn>> /\ drop' = NoDrop /\ iv' = [iv EXCEPT ![s] = <<>>]
      BY Zenon, <1>2 DEF Rx
    <2>2. iv' \in [Sock -> Seq(Dgram)]
      BY SMTT(60), <2>1 DEF TypeOK
    <2>3. TypeOK'
      BY Zenon, <2>1, <2>2 DEF TypeOK
    <2>4. ConnInv'
      BY SMTT(60), <2>1 DEF ConnInv
    <2>5. TableSound'
      BY SMTT(60), <2>1 DEF TableSound
    <2> QED
      BY Zenon, <2>3, <2>4, <2>5
  <1>3. CASE Resolved
    <2>1. /\ UNCHANGED <<live, tup, table, iv>> /\ drop' = NoDrop
          /\ conn' = [s |-> conn.s, at |-> "roll", n |-> Tries] /\ conn.at = "who_has"
      BY Zenon, <1>3 DEF Resolved
    <2>2. conn'.s = conn.s /\ conn'.at = "roll"
          /\ conn' \in [s : Sock \cup {None}, at : {"off", "who_has", "roll"}, n : 0 .. 255]
      <3>1. conn.s \in Sock \cup {None}
        BY Zenon DEF TypeOK
      <3>2. Tries \in 0 .. 255
        BY ONLY SMTT(60), ConstAssumption
      <3> QED
        BY ONLY SMTT(60), <2>1, <3>1, <3>2
    <2>3. TypeOK'
      BY Zenon, <2>1, <2>2 DEF TypeOK
    <2>4. conn'.at # "off" /\ conn.at # "off"
      BY Zenon, <2>1, <2>2
    <2>5. ConnInv'
      BY SMTT(60), <2>1, <2>2, <2>4 DEF ConnInv
    <2>6. TableSound'
      BY SMTT(60), <2>1, <2>2 DEF TableSound
    <2> QED
      BY Zenon, <2>3, <2>5, <2>6
  <1>4. CASE UNCHANGED vars
    <2>1. UNCHANGED <<live, tup, table, conn, iv, drop, careful>>
      BY Zenon, <1>4 DEF vars
    <2>2. TypeOK'
      BY Zenon, <2>1 DEF TypeOK
    <2>3. ConnInv'
      BY SMTT(60), <2>1 DEF ConnInv
    <2>4. TableSound'
      BY SMTT(60), <2>1 DEF TableSound
    <2> QED
      BY Zenon, <2>2, <2>3, <2>4
  <1> QED
    BY Zenon, <1>1, <1>2, <1>3, <1>4

\* The inductive invariant behind TableSound.
LEMMA SoundInvariant == Spec => []SoundInv
  <1>1. SoundInv /\ [Next]_vars => SoundInv'
    BY Zenon, SoundBind, SoundConnect, SoundUnknown, SoundClose, SoundRoll, SoundRest
    DEF Next, Step
  <1> QED
    BY <1>1, SoundInit, PTL DEF Spec

\* No lookup touches a closed socket or a tuple that changed after hashing,
\* whatever the application binds, connects and closes.
THEOREM TableIsSound == Spec => []TableSound
  BY SoundInvariant, PTL DEF SoundInv

\* The variables keep their types; n of backend_connect() stays a uint8_t.
THEOREM SockTableType == Spec => []TypeOK
  BY SoundInvariant, PTL DEF SoundInv

-----------------------------------------------------------------------------
(* A careful application.                                                  *)

\* Every socket but the one in w_connect() is in the table under its tuple, and
\* backend_connect() rerolls at most once.
CarefulInv ==
    /\ \A s \in live : s # conn.s => tup[s] \in DOMAIN table /\ table[tup[s]].val = s
    /\ conn.at = "roll" =>
         \/ conn.n = Tries
         \/ conn.n = Tries - 1 /\ tup[conn.s] \notin DOMAIN table

\* A tuple is missing from the table exactly when no socket has it as address.
LEMMA FreeFacts ==
  ASSUME SoundInv, CarefulInv, NEW t \in Tuple
  PROVE  t \notin DOMAIN table <=> Demux!Free(t)
  <1>1. ASSUME t \notin DOMAIN table, NEW s \in Sock PROVE Addr[s] # t
    BY <1>1, ConstAssumption DEF SoundInv, ConnInv, CarefulInv, Addr, NoTup, Tuple
  <1>2. ASSUME t \in DOMAIN table PROVE \E s \in Sock : Addr[s] = t
    <2>1. table[t].val \in Sock /\ tup[table[t].val] = t /\ table[t].val # conn.s
      BY Zenon, <1>2 DEF SoundInv, TableSound, TypeOK
    <2> QED
      BY Zenon, <2>1 DEF Addr
  <1> QED
    BY Zenon, <1>1, <1>2 DEF Demux!Free

\* A bound or connected socket has its tuple as address, the others have none.
LEMMA AddrFacts ==
  ASSUME SoundInv
  PROVE  /\ \A s \in Sock : Addr[s] = IF s = conn.s THEN NoTup ELSE tup[s]
         /\ \A s \in Sock \ live : Addr[s] = NoTup
         /\ NoTup = Demux!NoAddress
         /\ Tuple = Demux!Address /\ Dgram = Demux!Datagram
  BY Zenon DEF SoundInv, ConnInv, Addr, NoTup, Demux!NoAddress, Demux!Address, Tuple,
         Dgram, Demux!Datagram

\* A step that drops no datagram says so.
LEMMA NoDropFact == drop' = NoDrop => drop'.d = None
  <1>1. NoDrop.d = None
    BY Zenon DEF NoDrop
  <1> QED
    BY Zenon, <1>1

\* w_bind() on a free port binds the socket.
LEMMA CarefulBind ==
  ASSUME careful, SoundInv, CarefulInv, NEW s \in Sock,
         NEW port \in Port \cup {None}, Bind(s, port)
  PROVE  CarefulInv' /\ Demux!Next
  <1>1. PICK p \in LocalPort(port) :
          tup' = [tup EXCEPT ![s] = Bound(p)] /\ InsSock(Bound(p), s)
    BY Zenon DEF Bind
  <1>2. /\ s \notin live /\ live' = live \cup {s} /\ conn' = conn /\ conn = NoConn
        /\ iv' = [iv EXCEPT ![s] = <<>>] /\ Bound(port) \notin DOMAIN table
        /\ drop'.d = None
    BY Zenon, NoDropFact DEF Bind, Idle
  <1>3. Bound(p) \in Tuple /\ Bound(p) \notin DOMAIN table
    BY ZenonT(60), <1>1, <1>2, ConstAssumption DEF LocalPort, Draw, Bound, Tuple
  <1>4. /\ DOMAIN table' = DOMAIN table \cup {Bound(p)}
        /\ \A u \in DOMAIN table : u # Bound(p) => table'[u] = table[u]
        /\ table'[Bound(p)].val = s
    BY Zenon, <1>1, <1>3, InsFacts DEF SoundInv
  <1>5. tup'[s] = Bound(p) /\ \A u \in Sock \ {s} : tup'[u] = tup[u]
    BY Zenon, <1>1 DEF SoundInv, TypeOK
  <1>6. CarefulInv'
    <2>1. ASSUME NEW u \in live', u # conn'.s
          PROVE  tup'[u] \in DOMAIN table' /\ table'[tup'[u]].val = u
      <3>1. CASE u = s
        BY Zenon, <3>1, <1>4, <1>5
      <3>2. CASE u # s
        <4>1. u \in Sock /\ tup'[u] = tup[u] /\ u \in live /\ u # conn.s
          BY Zenon, <1>2, <1>5, <2>1, <3>2 DEF SoundInv, TypeOK
        <4>2. tup[u] \in DOMAIN table /\ table[tup[u]].val = u
          BY Zenon, <4>1 DEF CarefulInv
        <4> QED
          BY Zenon, <1>3, <1>4, <4>1, <4>2
      <3> QED
        BY Zenon, <3>1, <3>2
    <2>2. conn'.at # "roll"
      BY Zenon, <1>2 DEF NoConn
    <2> QED
      BY Zenon, <2>1, <2>2 DEF CarefulInv
  <1>7. s # conn.s
    BY Zenon, <1>2, ConstAssumption DEF NoConn
  <1>8. Addr' = [Addr EXCEPT ![s] = Bound(p)]
    BY ZenonT(60), <1>2, <1>5, <1>7 DEF Addr
  <1>9. Demux!Bind(s, Bound(p))
    BY Zenon, <1>2, <1>3, <1>8, FreeFacts DEF Demux!Bind, Bound
  <1> QED
    BY Zenon, <1>3, <1>6, <1>9, AddrFacts DEF Demux!Next

\* w_connect() takes the socket's address away for the time of who_has().
LEMMA CarefulConnect ==
  ASSUME careful, SoundInv, CarefulInv, NEW s \in Sock, NEW peer \in Peer,
         Connect(s, peer)
  PROVE  CarefulInv' /\ Demux!Next
  <1>1. /\ s \in live /\ RemSock(tup[s]) /\ live' = live /\ iv' = iv
        /\ tup' = [tup EXCEPT ![s].rem = peer] /\ tup[s].rem = None
        /\ conn' = [s |-> s, at |-> "who_has", n |-> 0] /\ conn = NoConn
        /\ drop'.d = None
    BY Zenon, NoDropFact DEF Connect, Idle
  <1>2. /\ DOMAIN table' = DOMAIN table \ {tup[s]}
        /\ \A u \in DOMAIN table' : table'[u] = table[u]
    BY ZenonT(60), <1>1, RemFacts DEF SoundInv
  <1>3. \A u \in Sock \ {s} : tup'[u] = tup[u]
    BY Zenon, <1>1 DEF SoundInv, TypeOK
  <1>4. s # conn.s /\ s = conn'.s
    BY Zenon, <1>1, ConstAssumption DEF NoConn
  <1>5. CarefulInv'
    <2>1. ASSUME NEW u \in live', u # conn'.s
          PROVE  tup'[u] \in DOMAIN table' /\ table'[tup'[u]].val = u
      <3>1. u \in Sock /\ u # s /\ tup'[u] = tup[u] /\ u # conn.s
        BY <1>1, <1>3, <1>4, <2>1, ConstAssumption DEF SoundInv, TypeOK, NoConn
      <3>2. /\ tup[u] \in DOMAIN table /\ table[tup[u]].val = u
            /\ tup[s] \in DOMAIN table /\ table[tup[s]].val = s
        BY Zenon, <1>1, <1>4, <2>1, <3>1 DEF CarefulInv
      <3> QED
        BY Zenon, <1>2, <3>1, <3>2
    <2> QED
      BY Zenon, <1>1, <2>1 DEF CarefulInv
  <1>6. Addr' = [Addr EXCEPT ![s] = NoTup]
    BY ZenonT(60), <1>1, <1>3, <1>4, ConstAssumption DEF Addr, NoConn
  <1>7. Demux!Detach(s)
    BY Zenon, <1>1, <1>4, <1>6, AddrFacts DEF Demux!Detach
  <1> QED
    BY Zenon, <1>5, <1>7 DEF Demux!Next

\* w_close() of a socket that has an address.
LEMMA CarefulClose ==
  ASSUME careful, SoundInv, CarefulInv, NEW s \in Sock, Close(s)
  PROVE  CarefulInv' /\ Demux!Next
  <1>1. /\ s \in live /\ RemSock(tup[s]) /\ live' = live \ {s}
        /\ tup' = [tup EXCEPT ![s] = NoTup] /\ iv' = [iv EXCEPT ![s] = <<>>]
        /\ conn' = conn /\ conn = NoConn /\ drop'.d = None
    BY Zenon, NoDropFact DEF Close, Idle
  <1>2. /\ DOMAIN table' = DOMAIN table \ {tup[s]}
        /\ \A u \in DOMAIN table' : table'[u] = table[u]
    BY ZenonT(60), <1>1, RemFacts DEF SoundInv
  <1>3. tup'[s] = NoTup /\ \A u \in Sock \ {s} : tup'[u] = tup[u]
    BY Zenon, <1>1 DEF SoundInv, TypeOK
  <1>4. s # conn.s
    BY Zenon, <1>1, ConstAssumption DEF NoConn
  <1>5. CarefulInv'
    <2>1. ASSUME NEW u \in live', u # conn'.s
          PROVE  tup'[u] \in DOMAIN table' /\ table'[tup'[u]].val = u
      <3>1. u \in Sock /\ u # s /\ tup'[u] = tup[u]
        BY Zenon, <1>1, <1>3, <2>1 DEF SoundInv, TypeOK
      <3>2. /\ tup[u] \in DOMAIN table /\ table[tup[u]].val = u
            /\ tup[s] \in DOMAIN table /\ table[tup[s]].val = s
        BY Zenon, <1>1, <1>4, <2>1, <3>1 DEF CarefulInv
      <3> QED
        BY Zenon, <1>2, <3>1, <3>2
    <2> QED
      BY Zenon, <1>1, <2>1 DEF CarefulInv, NoConn
  <1>6. Addr' = [Addr EXCEPT ![s] = NoTup]
    BY ZenonT(60), <1>1, <1>3, <1>4 DEF Addr
  <1>7. tup[s] # NoTup
    BY <1>1, ConstAssumption DEF SoundInv, ConnInv, Tuple, NoTup
  <1>8. Demux!Close(s)
    BY Zenon, <1>1, <1>4, <1>6, <1>7, AddrFacts DEF Demux!Close
  <1> QED
    BY Zenon, <1>5, <1>8 DEF Demux!Next

\* backend_connect() rerolls at most once, and then finds a free four-tuple.
LEMMA CarefulRoll ==
  ASSUME careful, SoundInv, CarefulInv, Roll
  PROVE  CarefulInv' /\ Demux!Next
  <1> DEFINE s == conn.s
             n == (conn.n - 1) % 256
  <1>1. /\ conn.at = "roll" /\ s \in live /\ s \in Sock /\ tup[s] \in Tuple
        /\ tup[s].rem \in Peer /\ live' = live /\ iv' = iv
        /\ drop'.d = None
    BY Zenon, NoDropFact DEF Roll, SoundInv, ConnInv, TypeOK
  <1>2. conn.n \in {Tries, Tries - 1} /\ n = conn.n - 1 /\ n # 0 /\ conn.n # 0
    BY SMTT(60), <1>1, ConstAssumption DEF CarefulInv
  <1>3. CASE tup[s] \notin DOMAIN table
    <2>1. conn' = NoConn /\ InsSock(tup[s], s) /\ tup' = tup
      BY Zenon, <1>2, <1>3 DEF Roll, ConnectReturn
    <2>2. /\ DOMAIN table' = DOMAIN table \cup {tup[s]}
          /\ \A u \in DOMAIN table : u # tup[s] => table'[u] = table[u]
          /\ table'[tup[s]].val = s
      BY ZenonT(60), <1>1, <2>1, InsFacts DEF SoundInv
    <2>3. CarefulInv'
      BY Zenon, <1>1, <1>3, <2>1, <2>2 DEF CarefulInv, NoConn
    <2>4. Addr' = [Addr EXCEPT ![s] = tup[s]]
      BY ZenonT(60), <1>1, <2>1, ConstAssumption DEF Addr, NoConn
    <2>5. Demux!Connect(s, tup[s])
      BY Zenon, <1>1, <1>3, <2>4, FreeFacts, AddrFacts, ConstAssumption DEF Demux!Connect
    <2> QED
      BY Zenon, <1>1, <2>3, <2>5, AddrFacts DEF Demux!Next
  <1>4. CASE tup[s] \in DOMAIN table
    <2>1. PICK p \in Draw(tup[s].rem) : tup' = [tup EXCEPT ![s].loc = p]
      BY ZenonT(60), <1>2, <1>4 DEF Roll
    <2>2. conn' = [conn EXCEPT !.n = n] /\ table' = table
      BY Zenon, <1>2, <1>4 DEF Roll
    <2>3. tup'[s] = [loc |-> p, rem |-> tup[s].rem]
          /\ \A u \in Sock \ {s} : tup'[u] = tup[u]
      BY Zenon, <1>1, <2>1 DEF SoundInv, TypeOK, Tuple
    <2>4. tup'[s] \notin DOMAIN table
      BY Zenon, <2>1, <2>3 DEF Draw
    <2>5. conn'.s = s /\ conn'.n = n /\ conn'.at = "roll"
      BY Zenon, <1>1, <2>2 DEF SoundInv, TypeOK
    <2>6. conn.n = Tries
      BY Zenon, <1>1, <1>4 DEF CarefulInv
    <2>7. CarefulInv'
      BY SMTT(60), <1>1, <1>2, <2>2, <2>3, <2>4, <2>5, <2>6 DEF CarefulInv, SoundInv, TypeOK
    <2>8. Addr' = Addr
      BY <2>3, <2>5 DEF Addr
    <2> QED
      BY Zenon, <1>1, <2>7, <2>8 DEF Demux!Next, Demux!Wait
  <1> QED
    BY Zenon, <1>3, <1>4

\* udp_rx() puts a datagram where the demultiplexer would, or drops it as that would.
LEMMA CarefulUdpRx ==
  ASSUME careful, SoundInv, CarefulInv, NEW d \in Dgram, UdpRx(d)
  PROVE  CarefulInv' /\ Demux!Next
  <1>1. UNCHANGED <<live, tup, table, conn>>
    BY Zenon DEF UdpRx
  <1>2. CarefulInv' /\ Addr' = Addr
    BY Zenon, <1>1 DEF CarefulInv, Addr
  <1>3. CASE /\ Found(d) # {} /\ iv' = [iv EXCEPT ![Receiver(d)] = Append(@, d)]
             /\ drop' = NoDrop
    <2> DEFINE r == Receiver(d)
    <2>1. /\ r \in Sock /\ r # conn.s
          /\ IF Connected(d) \in DOMAIN table THEN tup[r] = Connected(d)
                                              ELSE tup[r] = Bound(d.dst)
      BY Zenon, <1>3, FoundFacts DEF SoundInv, TypeOK
    <2>2. Addr[r] = tup[r]
      BY Zenon, <2>1 DEF Addr
    <2>3. Connected(d) \in Tuple
      BY Zenon DEF Connected, Tuple, Dgram
    <2>4. Connected(d) \notin DOMAIN table <=> Demux!Free(Connected(d))
      BY Zenon, <2>3, FreeFacts
    <2>5. Demux!Matches(r, d)
      BY Zenon, <2>1, <2>2, <2>4 DEF Demux!Matches, Connected, Bound
    <2>6. Demux!Receive(r, d)
      BY Zenon, <1>1, <1>2, <1>3, <2>5, NoDropFact DEF Demux!Receive
    <2> QED
      BY Zenon, <1>2, <2>1, <2>6, AddrFacts DEF Demux!Next
  <1>4. CASE Found(d) = {} /\ iv' = iv /\ drop'.d = d
    <2>1. Connected(d) \notin DOMAIN table /\ Bound(d.dst) \notin DOMAIN table
      <3>1. 1 \notin Found(d) /\ 2 \notin Found(d)
        BY Zenon, <1>4
      <3>2. 1 \in 1 .. 2 /\ 2 \in 1 .. 2
        BY ONLY SMTT(60)
      <3>3. Lookups(d)[1] = Connected(d) /\ Lookups(d)[2] = Bound(d.dst)
        BY Zenon DEF Lookups
      <3> QED
        BY Zenon, <3>1, <3>2, <3>3 DEF Found
    <2>2. Connected(d) \in Tuple /\ Bound(d.dst) \in Tuple
      BY Zenon DEF Connected, Bound, Tuple, Dgram
    <2>3. Demux!Free(Connected(d)) /\ Demux!Free(Bound(d.dst))
      BY Zenon, <2>1, <2>2, FreeFacts
    <2>4. \A s \in Sock : ~Demux!Matches(s, d)
      BY Zenon, <2>3 DEF Demux!Free, Demux!Matches, Connected, Bound
    <2>5. Demux!Drop(d)
      BY Zenon, <1>1, <1>2, <1>4, <2>4 DEF Demux!Drop
    <2> QED
      BY Zenon, <1>2, <2>5, AddrFacts DEF Demux!Next
  <1>5. \/ /\ Found(d) # {} /\ iv' = [iv EXCEPT ![Receiver(d)] = Append(@, d)]
           /\ drop' = NoDrop
        \/ Found(d) = {} /\ iv' = iv /\ drop'.d = d
    BY Zenon, DropFact DEF UdpRx
  <1> QED
    BY Zenon, <1>3, <1>4, <1>5

\* Every step keeps the invariant and is a step of the demultiplexer, or none.
LEMMA CarefulNext ==
  ASSUME careful, SoundInv, CarefulInv, [Next]_vars
  PROVE  CarefulInv' /\ [Demux!Next]_(Demux!vars)
  <1>1. ASSUME NEW s \in Sock, Rx(s) PROVE CarefulInv' /\ Demux!Next
    <2>1. UNCHANGED <<live, tup, table, conn>> /\ s \in live
          /\ iv' = [iv EXCEPT ![s] = <<>>] /\ drop'.d = None
      BY Zenon, <1>1, NoDropFact DEF Rx
    <2>2. CarefulInv' /\ Addr' = Addr
      BY Zenon, <2>1 DEF CarefulInv, Addr
    <2>3. Demux!Read(s)
      BY Zenon, <2>1, <2>2 DEF Demux!Read
    <2> QED
      BY Zenon, <2>2, <2>3 DEF Demux!Next
  <1>2. CASE Resolved
    <2>1. UNCHANGED <<live, tup, table, iv>>
          /\ conn' = [s |-> conn.s, at |-> "roll", n |-> Tries] /\ drop'.d = None
      BY Zenon, <1>2, NoDropFact DEF Resolved
    <2>2. CarefulInv' /\ Addr' = Addr
      BY Zenon, <2>1 DEF CarefulInv, Addr
    <2> QED
      BY Zenon, <2>1, <2>2 DEF Demux!Next, Demux!Wait
  <1>3. CASE UNCHANGED vars
    BY Zenon, <1>3 DEF vars, CarefulInv, Addr, Demux!vars
  <1>4. ASSUME NEW s \in Sock, ConnectUnknown(s) PROVE FALSE
    BY Zenon, <1>4 DEF ConnectUnknown
  <1> QED
    BY Zenon, <1>1, <1>2, <1>3, <1>4, CarefulBind, CarefulConnect, CarefulClose,
       CarefulRoll, CarefulUdpRx DEF Next, Step

\* The initial state has no sockets.
LEMMA CarefulInit == Init => CarefulInv /\ Demux!Init
  BY DEF Init, CarefulInv, NoConn, NoDrop, Demux!Init, Addr, NoTup, Demux!NoAddress

\* CarefulInv is an invariant of the behaviors with a careful application.
LEMMA CarefulInvariant == Spec => [](careful => CarefulInv)
  <1>1. SoundInv /\ (careful => CarefulInv) /\ [Next]_vars => (careful => CarefulInv)'
    BY Zenon, CarefulNext DEF Next, vars
  <1> QED
    BY <1>1, CarefulInit, SoundInvariant, PTL DEF Spec

\* For a careful application that is lucky with random ports, the hash table of
\* pointers implements the demultiplexer: udp_rx() delivers by the sockets' own
\* addresses and drops only what none of them matches, although w_connect() takes
\* the socket out and may reroll its port.
THEOREM ImplementsDemux == Spec => DemuxSpec
  <1>1. SoundInv /\ (careful => CarefulInv) /\ [Next]_vars
          => [careful => Demux!Next]_(Demux!vars)
    BY Zenon, CarefulNext
  <1>2. Init => (careful => Demux!Init)
    BY Zenon, CarefulInit
  <1> QED
    BY <1>1, <1>2, CarefulInvariant, SoundInvariant, PTL DEF Spec, DemuxSpec

\* For the same application, w_rx_ready() misses no open socket that has data.
THEOREM ReadyIsComplete == Spec => []ReadyComplete
  <1>1. SoundInv /\ (careful => CarefulInv) => ReadyComplete
    <2> SUFFICES ASSUME SoundInv, CarefulInv, Idle
                 PROVE  RxReady = {s \in live : iv[s] # <<>>}
      BY Zenon DEF ReadyComplete
    <2>1. ASSUME NEW s \in RxReady PROVE s \in live /\ iv[s] # <<>>
      BY Zenon, <2>1 DEF RxReady, SoundInv, TableSound
    <2>2. ASSUME NEW s \in live, iv[s] # <<>> PROVE s \in RxReady
      <3>1. s # conn.s
        BY ConstAssumption DEF Idle, NoConn, SoundInv, TypeOK
      <3>2. tup[s] \in DOMAIN table /\ table[tup[s]].val = s
        BY Zenon, <3>1 DEF CarefulInv
      <3> QED
        BY Zenon, <2>2, <3>2 DEF RxReady
    <2> QED
      BY Zenon, <2>1, <2>2
  <1> QED
    BY <1>1, CarefulInvariant, SoundInvariant, PTL

\* Whatever the application does, udp_rx() gives a datagram only to an open
\* socket that matches it, and prefers an entry connected to the sender.
THEOREM DeliversRight == Spec => RightSocket
  <1> DEFINE Right(s) ==
        Len(iv'[s]) > Len(iv[s]) =>
           LET d == iv'[s][Len(iv'[s])]
           IN  /\ s \in live
               /\ tup[s] \in {Connected(d), Bound(d.dst)}
               /\ Connected(d) \in DOMAIN table => tup[s] = Connected(d)
  <1>1. ASSUME SoundInv, [Next]_vars, NEW s \in Sock PROVE Right(s)
    <2>1. iv[s] \in Seq(Dgram) /\ Len(iv[s]) \in Nat
      BY <1>1 DEF SoundInv, TypeOK
    <2>2. ASSUME iv'[s] = iv[s] \/ iv'[s] = <<>> PROVE Right(s)
      <3>1. ~(Len(iv'[s]) > Len(iv[s]))
        BY SMTT(60), <2>1, <2>2
      <3> QED
        BY Zenon, <3>1
    <2>3. ASSUME NEW d \in Dgram, UdpRx(d), Found(d) # {}, s = Receiver(d),
                 iv' = [iv EXCEPT ![Receiver(d)] = Append(@, d)]
          PROVE  Right(s)
      <3>1. iv'[s] = Append(iv[s], d)
        BY Zenon, <1>1, <2>3 DEF SoundInv, TypeOK
      <3>2. iv'[s][Len(iv'[s])] = d
        BY SMTT(60), <2>1, <3>1
      <3>3. /\ s \in live /\ tup[s] \in {Connected(d), Bound(d.dst)}
            /\ Connected(d) \in DOMAIN table => tup[s] = Connected(d)
        BY Zenon, <1>1, <2>3, FoundFacts
      <3> QED
        BY Zenon, <3>2, <3>3
    <2>4. ASSUME NEW d \in Dgram, UdpRx(d) PROVE Right(s)
      <3>1. CASE iv' = iv
        BY Zenon, <3>1, <2>2
      <3>2. CASE Found(d) # {} /\ iv' = [iv EXCEPT ![Receiver(d)] = Append(@, d)]
        <4>1. CASE s = Receiver(d)
          BY ZenonT(60), <2>3, <2>4, <3>2, <4>1
        <4>2. CASE s # Receiver(d)
          <5>1. iv'[s] = iv[s]
            BY Zenon, <1>1, <3>2, <4>2 DEF SoundInv, TypeOK
          <5> QED
            BY Zenon, <5>1, <2>2
        <4> QED
          BY Zenon, <4>1, <4>2
      <3> QED
        BY Zenon, <2>4, <3>1, <3>2 DEF UdpRx
    <2>5. ASSUME NEW u \in Sock, iv' = [iv EXCEPT ![u] = <<>>] PROVE Right(s)
      <3>1. iv'[s] = iv[s] \/ iv'[s] = <<>>
        BY Zenon, <1>1, <2>5 DEF SoundInv, TypeOK
      <3> QED
        BY Zenon, <3>1, <2>2
    <2>6. \/ \E d \in Dgram : UdpRx(d)
          \/ iv' = iv
          \/ \E u \in Sock : iv' = [iv EXCEPT ![u] = <<>>]
      BY Zenon, <1>1 DEF Next, Step, vars, Bind, Connect, ConnectUnknown, Close, Rx, Resolved, Roll
    <2>7. CASE iv' = iv
      BY Zenon, <2>2, <2>7
    <2> QED
      BY Zenon, <2>4, <2>5, <2>6, <2>7
  <1>2. SoundInv /\ [Next]_vars => [\A s \in Sock : Right(s)]_vars
    BY Zenon, <1>1
  <1> QED
    BY <1>2, SoundInvariant, PTL DEF Spec, RightSocket
=============================================================================
