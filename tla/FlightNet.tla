------------------------------ MODULE FlightNet ------------------------------
(***************************************************************************)
(* The network between ping.c and inetd.c: it reorders and duplicates      *)
(* datagrams, and loses those that it never delivers.  A datagram is sent  *)
(* to a socket of the server or to the client; it is the k-th of the       *)
(* flight with its nonce, and carries len of that flight's flen bytes.     *)
(***************************************************************************)
EXTENDS Integers, Functions

VARIABLES
    net,        \* datagrams on their way
    dup,        \* a datagram "may" be duplicated, once; it "did", or "never"
    busywait    \* -b, of both programs: w_nic_rx() does not block

netVars == <<net, dup, busywait>>

\* struct payload, and what else identifies a datagram.
Payload(d) == [nonce |-> d.nonce, k |-> d.k, len |-> d.len, flen |-> d.flen]
NoData == [nonce |-> 0, k |-> 0, len |-> 0, flen |-> 0]
Datagram(to, d) ==
    [to |-> to, nonce |-> d.nonce, k |-> d.k, len |-> d.len, flen |-> d.flen]

\* The flight of nonce n with a datagram for each length of queue o.
Flight(to, n, o, flen) ==
    {Datagram(to, [nonce |-> n, k |-> k, len |-> o[k], flen |-> flen]) :
     k \in DOMAIN o}

w_iov_sq_len(q) == FoldFunction(LAMBDA d, sum : d.len + sum, 0, q)

Emit(ds) == net' = net \cup ds /\ UNCHANGED <<dup, busywait>>

Deliver(d) ==
    /\ d \in net
    /\ \/ net' = net \ {d} /\ UNCHANGED dup
       \/ dup = "may" /\ dup' = "did" /\ UNCHANGED net
    /\ UNCHANGED busywait
=============================================================================
