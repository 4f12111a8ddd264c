------------------------------- MODULE Engine -------------------------------
(***************************************************************************)
(* The life cycle of engines, common to the backends: w_init() with the    *)
(* addresses it takes from the operating system, the list of engines, and  *)
(* w_cleanup().                                                            *)
(*                                                                         *)
(* w_init() reads the addresses of its interface twice, to count them and  *)
(* to store them, and they may change in between.  The addresses of an     *)
(* engine do not change after that, so only those of the last engine that  *)
(* was initialized are kept.  is_right_pipe is a constant of Netmap.       *)
(***************************************************************************)
EXTENDS Integers, Sequences, FiniteSets, FiniteSetsExt

CONSTANTS
    Eng,        \* pointers to struct w_engine
    Iface,      \* interfaces
    Loopback,   \* those with IFF_LOOPBACK
    Addr4, Addr6,
    Bcast4,     \* the subnet broadcast address of each IPv4 address
    AllOnes,    \* 255.255.255.255
    Groups6,    \* snma6 and bcast6 of each IPv6 address
    Lists,      \* what getifaddrs() may list for an interface after its AF_LINK
    Link,       \* the AF_LINK entry
    None        \* the null pointer; an address that is all zero

Addr == Addr4 \cup Addr6

ASSUME ConstAssumption ==
    /\ IsFiniteSet(Eng) /\ Loopback \subseteq Iface /\ Lists \subseteq Seq(Addr)
    /\ Addr4 \cap Addr6 = {} /\ None \notin Addr \cup Eng \cup Iface /\ Link \notin Addr

VARIABLES
    head,       \* sl_first(&engines)
    next,       \* sl_next() of each engine
    ifname, is_loopback,    \* of each engine
    live,       \* history: the engines that w_init() returned, not cleaned up yet
    at,         \* where w_init() is, or how it ended
    w,          \* the engine it is about
    seen,       \* history: the list that was counted
    list,       \* the list that backend_addr_config() read
    i,          \* its loop over that list
    addr_cnt, addr4_pos, addr6_pos, ifaddr, have_ip4, have_ip6

listVars == <<head, next, ifname, is_loopback, live>>
addrVars == <<seen, list, i, addr_cnt, addr4_pos, addr6_pos, ifaddr, have_ip4, have_ip6>>
vars == <<listVars, at, w, addrVars>>

Returned == at \in {"off", "refused", "done"}

-----------------------------------------------------------------------------
(* The list of engines.                                                    *)

\* The engines that sl_foreach() comes across.
Listed ==
    LET nth[n \in 0 .. Cardinality(Eng)] ==
          IF n = 0 THEN head ELSE IF nth[n - 1] = None THEN None ELSE next[nth[n - 1]]
    IN  {nth[n] : n \in 0 .. Cardinality(Eng)} \ {None}

Refuses(f) == \E e \in Listed : ifname[e] = f /\ ~is_loopback[e]

\* Mutant: the rest of the list is cut off.
SuccessorNone(e) == None

Successor(e) == next[e]

\* sl_remove()
SlRemove(e) ==
    IF head = e
      THEN head' = Successor(e) /\ next' = [next EXCEPT ![e] = None]
      ELSE LET cur == CHOOSE c \in Listed : next[c] = e
           IN  next' = [next EXCEPT ![cur] = Successor(e), ![e] = None] /\ UNCHANGED head

-----------------------------------------------------------------------------
(* w_init().                                                               *)

InitRefused(f) ==
    /\ Returned /\ Refuses(f)
    /\ at' = "refused"
    /\ UNCHANGED <<listVars, w, addrVars>>

\* What plat_get_link() may say of an interface.
LinkStates == BOOLEAN

\* backend_addr_cnt() of an interface with the addresses c.
AddrCnt(c, up) == IF up THEN Len(c) ELSE 0

\* The interface has addresses and its link is up.  Until then w_init() sleeps and
\* tries again, with nothing changed.
InitCount(f, e, c, up) ==
    /\ Returned /\ ~Refuses(f) /\ e \notin live
    /\ AddrCnt(c, up) # 0
    /\ at' = "alloc" /\ w' = e
    /\ addr_cnt' = AddrCnt(c, up) /\ seen' = c
    /\ next' = [next EXCEPT ![e] = None]
    /\ ifname' = [ifname EXCEPT ![e] = f] /\ is_loopback' = [is_loopback EXCEPT ![e] = FALSE]
    /\ ifaddr' = [n \in 0 .. AddrCnt(c, up) - 1 |-> None]
    /\ have_ip4' = FALSE /\ have_ip6' = FALSE
    /\ list' = <<>> /\ i' = 1 /\ addr4_pos' = 0 /\ addr6_pos' = 0
    /\ UNCHANGED <<head, live>>

Addr4Pos == addr_cnt - 1

\* backend_addr_config() reads the addresses again.
ConfigBegin(c) ==
    /\ at = "alloc"
    /\ at' = "config"
    /\ list' = <<Link>> \o c /\ i' = 1
    /\ addr4_pos' = Addr4Pos /\ addr6_pos' = 0
    /\ UNCHANGED <<listVars, w, seen, addr_cnt, ifaddr, have_ip4, have_ip6>>

\* Mutant: off by one.
TooManyLate == addr6_pos > addr4_pos + 1

\* "unexpectedly many addresses"
TooMany == addr6_pos > addr4_pos

\* A store, which C does not confine to the array.
Store(n, a) == [m \in DOMAIN ifaddr \cup {n} |-> IF m = n THEN a ELSE ifaddr[m]]

ConfigLink ==
    /\ at = "config" /\ i <= Len(list) /\ ~TooMany /\ list[i] = Link
    /\ is_loopback' = [is_loopback EXCEPT ![w] = ifname[w] \in Loopback]
    /\ i' = i + 1
    /\ UNCHANGED <<head, next, ifname, live, at, w, seen, list, addr_cnt, addr4_pos,
                   addr6_pos, ifaddr, have_ip4, have_ip6>>

ConfigIp6 ==
    /\ at = "config" /\ i <= Len(list) /\ ~TooMany /\ list[i] \in Addr6
    /\ ifaddr' = Store(addr6_pos, list[i])
    /\ have_ip6' = TRUE
    /\ addr6_pos' = addr6_pos + 1
    /\ i' = i + 1
    /\ UNCHANGED <<listVars, at, w, seen, list, addr_cnt, addr4_pos, have_ip4>>

ConfigIp4 ==
    /\ at = "config" /\ i <= Len(list) /\ ~TooMany /\ list[i] \in Addr4
    /\ ifaddr' = Store(addr4_pos, list[i])
    /\ have_ip4' = TRUE
    /\ i' = i + 1
    /\ UNCHANGED <<listVars, at, w, seen, list, addr_cnt, addr4_pos, addr6_pos, have_ip6>>

\* The loop ends, and w_init() puts the engine into the list and returns it.
InitDone ==
    /\ at = "config" /\ (i > Len(list) \/ TooMany)
    /\ at' = "done"
    /\ next' = [next EXCEPT ![w] = head] /\ head' = w
    /\ live' = live \cup {w}
    /\ UNCHANGED <<ifname, is_loopback, w, addrVars>>

\* w_cleanup()
Cleanup(e) ==
    /\ Returned /\ e \in live
    /\ SlRemove(e)
    /\ live' = live \ {e}
    /\ at' = "off" /\ w' = None
    /\ seen' = <<>> /\ list' = <<>> /\ i' = 1 /\ addr_cnt' = 1 /\ addr4_pos' = 0
    /\ addr6_pos' = 0 /\ ifaddr' = [n \in 0 .. 0 |-> None]
    /\ have_ip4' = FALSE /\ have_ip6' = FALSE
    /\ ifname' = [ifname EXCEPT ![e] = None]
    /\ is_loopback' = [is_loopback EXCEPT ![e] = FALSE]

Init ==
    /\ head = None /\ next = [e \in Eng |-> None] /\ ifname = [e \in Eng |-> None]
    /\ is_loopback = [e \in Eng |-> FALSE] /\ live = {}
    /\ at = "off" /\ w = None /\ seen = <<>> /\ list = <<>> /\ i = 1
    /\ addr_cnt = 1 /\ addr4_pos = 0 /\ addr6_pos = 0 /\ ifaddr = [n \in 0 .. 0 |-> None]
    /\ have_ip4 = FALSE /\ have_ip6 = FALSE

Next ==
    \/ \E f \in Iface : InitRefused(f)
    \/ \E f \in Iface, e \in Eng, c \in Lists, up \in LinkStates : InitCount(f, e, c, up)
    \/ \E c \in Lists : ConfigBegin(c)
    \/ ConfigLink \/ ConfigIp6 \/ ConfigIp4 \/ InitDone
    \/ \E e \in Eng : Cleanup(e)

Spec == Init /\ [][Next]_vars

-----------------------------------------------------------------------------
(* Looking up addresses; addr_cnt stands for UINT16_MAX.                   *)

\* Mutant: the search starts after the IPv4 address.
IsMyIp4Late(ip, match_bcast) ==
    Min({n \in addr4_pos + 1 .. addr_cnt - 1 : ifaddr[n] = ip} \cup {addr_cnt})

IsMyIp4(ip, match_bcast) ==
    Min({n \in addr4_pos .. addr_cnt - 1 :
           \/ ifaddr[n] = ip
           \/ match_bcast /\ (ip = AllOnes \/ (ifaddr[n] \in Addr4 /\ ip = Bcast4[ifaddr[n]]))}
        \cup {addr_cnt})

IsMyIp6(ip, match_mcast) ==
    Min({n \in 0 .. addr_cnt - 1 :
           \/ ifaddr[n] = ip
           \/ match_mcast /\ ifaddr[n] \in Addr6 /\ ip \in Groups6[ifaddr[n]]}
        \cup {addr_cnt})

-----------------------------------------------------------------------------
(* Properties.                                                             *)

TypeOK ==
    /\ head \in Eng \cup {None} /\ next \in [Eng -> Eng \cup {None}]
    /\ ifname \in [Eng -> Iface \cup {None}] /\ is_loopback \in [Eng -> BOOLEAN]
    /\ live \subseteq Eng /\ w \in Eng \cup {None}
    /\ at \in {"off", "refused", "alloc", "config", "done"}
    /\ seen \in Seq(Addr) /\ list \in Seq(Addr \cup {Link}) /\ i \in Nat \ {0}
    /\ addr_cnt \in Nat \ {0} /\ addr4_pos \in 0 .. addr_cnt - 1 /\ addr6_pos \in Nat
    /\ \A n \in DOMAIN ifaddr : ifaddr[n] \in Addr \cup {None}
    /\ have_ip4 \in BOOLEAN /\ have_ip6 \in BOOLEAN

\* backend_addr_config() stores no address outside of the w->ifaddr that w_init()
\* allocated, however many addresses appeared since they were counted.
StoresInBounds == DOMAIN ifaddr = 0 .. addr_cnt - 1

\* If there is an IPv4 address, w->ifaddr[w->addr4_pos], which mk_ip4_hdr() and
\* arp_who_has() take as their source, holds one, whatever changed meanwhile and in
\* whatever order the addresses are listed, unless as many IPv6 addresses are stored
\* as there were addresses in all.
SourceIsIp4 == have_ip4 /\ addr6_pos < addr_cnt => ifaddr[addr4_pos] \in Addr4

\* With at most one IPv4 address, and addresses that are the same both times, no
\* element of w->ifaddr is left empty, have_ip4 and have_ip6 are right, and each
\* address, broadcast and multicast address is recognized by is_my_ip4() or
\* is_my_ip6(), each address at its own index.
AllFound ==
    LET mine == {seen[n] : n \in DOMAIN seen}
        one4 == \A m, n \in DOMAIN seen : {seen[m], seen[n]} \subseteq Addr4 => m = n
    IN  at = "done" /\ list = <<Link>> \o seen /\ one4 =>
          /\ \A n \in 0 .. addr_cnt - 1 : ifaddr[n] # None
          /\ have_ip4 <=> mine \cap Addr4 # {}
          /\ have_ip6 <=> mine \cap Addr6 # {}
          /\ \A a \in mine \cap Addr4 :
               /\ IsMyIp4(a, FALSE) < addr_cnt /\ ifaddr[IsMyIp4(a, FALSE)] = a
               /\ \A b \in {Bcast4[a], AllOnes} : IsMyIp4(b, TRUE) < addr_cnt
          /\ \A a \in mine \cap Addr6 :
               /\ IsMyIp6(a, FALSE) < addr_cnt /\ ifaddr[IsMyIp6(a, FALSE)] = a
               /\ \A g \in Groups6[a] : IsMyIp6(g, TRUE) < addr_cnt

\* The list holds the engines that were initialized and not cleaned up, in whatever
\* order they come and go: w_init() compares with every one of them and follows no
\* pointer to one that was freed.  So it "can only have one warpcore engine active
\* on" an interface that is no loopback.
ListIsLive ==
    /\ TypeOK /\ Listed = live
    /\ \A e, d \in live : e # d /\ ifname[e] = ifname[d] => ifname[e] \in Loopback
=============================================================================
