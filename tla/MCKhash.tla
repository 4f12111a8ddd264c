------------------------------ MODULE MCKhash ------------------------------
(***************************************************************************)
(* Khash with six sockets, whose tuples are compared and hashed as in      *)
(* module SockAddr.  Sockets 1 and 6 have the same tuple, up to the bytes  *)
(* behind an IPv4 address and the scope.  The hash values of the tuples    *)
(* collide in tables of 4 buckets, some also in those of 8, and lie on     *)
(* each other's probes.                                                    *)
(***************************************************************************)
EXTENDS Khash, SockAddr, TLC

\* fnv1a_32(): zero for an address, and for a port the port.
MCFnv(bytes) == IF bytes[1] \in Port THEN bytes[1] ELSE 0

Ip4Addr(rest) == [af |-> AF_INET, ip4 |-> 1001, rest |-> rest]
NoAddr == [addr |-> [af |-> AF_UNSPEC, ip4 |-> 0, rest |-> 0], port |-> 0]
Local(port, rest) == [addr |-> Ip4Addr(rest), port |-> port]
BoundTo(port) == [local |-> Local(port, 0), remote |-> NoAddr, scope_id |-> 0]
ConnectedFrom(port) == [BoundTo(port) EXCEPT !.remote = Local(53, 0)]

MCSockTup ==
    <<BoundTo(16), ConnectedFrom(4), BoundTo(4), BoundTo(1), ConnectedFrom(3),
      [BoundTo(16) EXCEPT !.local = Local(16, 1), !.scope_id = 1]>>

\* A tuple is named by the first socket that has it.
FirstWith(s) == Min({r \in Key : w_socktuple_cmp(MCSockTup[r], MCSockTup[s])})
HashOf(s) == w_socktuple_hash(MCSockTup[s])

MCTup == (1 :> 1) @@ (2 :> 2) @@ (3 :> 3) @@ (4 :> 4) @@ (5 :> 5) @@ (6 :> 1)
MCHash == (1 :> 16) @@ (2 :> 8) @@ (3 :> 4) @@ (4 :> 1) @@ (5 :> 6)

ASSUME TablesAssumption ==
    \A s \in Key : MCTup[s] = FirstWith(s) /\ MCHash[MCTup[s]] = HashOf(s)

\* What is left in a bucket that is not in use is never read.
View == <<n_buckets, size, n_occupied, upper_bound, flags, Restrict(keys, Used),
          Restrict(vals, Used), arg, resize, iter, ret>>
=============================================================================
