---------------------------- MODULE MCSockTable ----------------------------
(***************************************************************************)
(* The socket table of the netmap backend and the descriptors of the other *)
(* backends.  A build has one or the other, so one takes steps only while  *)
(* the other is as it was initially.                                       *)
(***************************************************************************)
EXTENDS SockTable, SockFd, TLC

\* Sockets are interchangeable, and so are ports.
Symmetry == Permutations(Sock) \cup Permutations(Port)

FdAtRest == sk = <<>> /\ lost = {} /\ os = "sock" /\ ~wsl
TableAtRest ==
    /\ careful /\ live = {} /\ table = <<>> /\ tup = [s \in Sock |-> NoTup]
    /\ iv = [s \in Sock |-> <<>>] /\ conn = NoConn /\ drop = NoDrop

MCInit == Init /\ FdInit /\ (FdAtRest \/ TableAtRest)
MCNext ==
    \/ FdAtRest /\ Next /\ UNCHANGED fdVars
    \/ TableAtRest /\ FdNext /\ UNCHANGED vars
MCSpec == MCInit /\ [][MCNext]_<<vars, fdVars>>
=============================================================================
