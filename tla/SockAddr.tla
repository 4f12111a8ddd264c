------------------------------ MODULE SockAddr ------------------------------
(***************************************************************************)
(* Addresses and four-tuples, how the hash tables compare and hash them,   *)
(* and their conversion from and to a struct sockaddr.                     *)
(*                                                                         *)
(* The union of struct w_addr is two parts: the first four bytes, which    *)
(* are all of an IPv4 address, and the other twelve.  With an IPv4 address *)
(* nothing sets the latter: they hold what was there before.               *)
(***************************************************************************)
EXTENDS Integers

CONSTANTS
    Four, Twelve,   \* the values of the two parts of an address
    Port,           \* ports
    Scope,          \* IPv6 scope IDs
    UINT32_MAX,     \* the largest khint_t
    AF_INET, AF_INET6, AF_UNSPEC,
    fnv1a_32(_)     \* the hash of a sequence of bytes

w_addr == [af : {AF_INET, AF_INET6, AF_UNSPEC}, ip4 : Four, rest : Twelve]
w_sockaddr == [addr : w_addr, port : Port]
w_socktuple == [local : w_sockaddr, remote : w_sockaddr, scope_id : Scope]
sockaddr == [family : {AF_INET, AF_INET6, AF_UNSPEC}, port : Port, four : Four,
             twelve : Twelve, scope_id : Scope]

-----------------------------------------------------------------------------
ip6_eql(a, b) == a.ip4 = b.ip4 /\ a.rest = b.rest

w_addr_cmp(a, b) ==
    a.af = b.af /\ IF a.af = AF_INET THEN a.ip4 = b.ip4 ELSE ip6_eql(a, b)

w_sockaddr_cmp(a, b) == a.port = b.port /\ w_addr_cmp(a.addr, b.addr)

w_socktuple_cmp(a, b) ==
    w_sockaddr_cmp(a.local, b.local) /\ w_sockaddr_cmp(a.remote, b.remote)

w_addr_hash(a) ==
    IF a.af = AF_INET THEN fnv1a_32(<<a.ip4>>) ELSE fnv1a_32(<<a.ip4, a.rest>>)

\* The port of the peer is not hashed; the local one is, a second time.
w_socktuple_hash(tup) ==
    (w_addr_hash(tup.local.addr) + fnv1a_32(<<tup.local.port>>)
      + IF tup.remote.addr.af # AF_UNSPEC
          THEN w_addr_hash(tup.remote.addr) + fnv1a_32(<<tup.local.port>>)
          ELSE 0) % (UINT32_MAX + 1)

-----------------------------------------------------------------------------
\* What w_to_waddr() makes of wa; it returns false for other families.
w_to_waddr_ok(sa) == sa.family \in {AF_INET, AF_INET6}
w_to_waddr(wa, sa) ==
    CASE sa.family = AF_INET  -> [wa EXCEPT !.af = AF_INET, !.ip4 = sa.four]
      [] sa.family = AF_INET6 -> [af |-> AF_INET6, ip4 |-> sa.four, rest |-> sa.twelve]
      [] OTHER -> wa

\* What to_sockaddr() makes of the sa of its caller, which is not initialized.
to_sockaddr(sa, addr, port, scope_id) ==
    IF addr.af = AF_INET
      THEN [sa EXCEPT !.family = AF_INET, !.port = port, !.four = addr.ip4]
      ELSE [family |-> AF_INET6, port |-> port, four |-> addr.ip4,
            twelve |-> addr.rest, scope_id |-> scope_id]

sa_port(s) == s.port
=============================================================================
