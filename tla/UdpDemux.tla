------------------------------ MODULE UdpDemux ------------------------------
(***************************************************************************)
(* What warpcore's sockets promise: every datagram goes to the open socket *)
(* that matches it best, a socket connected to its sender before one that  *)
(* is only bound to its destination, and only a datagram that no socket    *)
(* matches is dropped.  There is no table here, only the sockets' own      *)
(* addresses.  A drop is a step of its own, which dropped shows: a step    *)
(* that drops a datagram and does not name it here is not one of these.    *)
(***************************************************************************)
EXTENDS Integers, Sequences

CONSTANTS Sock, Port, Peer, None

VARIABLES
    open,       \* the open sockets
    addr,       \* their four-tuples; NoAddress while being connected
    queue,      \* what each socket has received
    dropped     \* the datagram that the last step has dropped, or None

vars == <<open, addr, queue, dropped>>

Address == [loc : Port, rem : Peer \cup {None}]
NoAddress == [loc |-> None, rem |-> None]
Datagram == [src : Peer, dst : Port]

Free(a) == \A s \in Sock : addr[s] # a

Bind(s, a) ==
    /\ s \notin open /\ a.rem = None /\ Free(a)
    /\ open' = open \cup {s}
    /\ addr' = [addr EXCEPT ![s] = a] /\ queue' = [queue EXCEPT ![s] = <<>>]
    /\ dropped' = None

Detach(s) ==
    /\ s \in open /\ addr[s].rem = None
    /\ addr' = [addr EXCEPT ![s] = NoAddress] /\ dropped' = None /\ UNCHANGED <<open, queue>>

Connect(s, a) ==
    /\ s \in open /\ addr[s] = NoAddress /\ a.rem # None /\ Free(a)
    /\ addr' = [addr EXCEPT ![s] = a] /\ dropped' = None /\ UNCHANGED <<open, queue>>

Close(s) ==
    /\ s \in open /\ addr[s] # NoAddress
    /\ open' = open \ {s}
    /\ addr' = [addr EXCEPT ![s] = NoAddress] /\ queue' = [queue EXCEPT ![s] = <<>>]
    /\ dropped' = None

Matches(s, d) ==
    \/ addr[s] = [loc |-> d.dst, rem |-> d.src]
    \/ /\ addr[s] = [loc |-> d.dst, rem |-> None]
       /\ Free([loc |-> d.dst, rem |-> d.src])

Receive(s, d) ==
    /\ Matches(s, d)
    /\ queue' = [queue EXCEPT ![s] = Append(@, d)] /\ dropped' = None /\ UNCHANGED <<open, addr>>

Drop(d) ==
    /\ \A s \in Sock : ~Matches(s, d)
    /\ dropped' = d /\ UNCHANGED <<open, addr, queue>>

Read(s) ==
    /\ s \in open
    /\ queue' = [queue EXCEPT ![s] = <<>>] /\ dropped' = None /\ UNCHANGED <<open, addr>>

\* A step of w_connect() that neither receives nor changes an address.
Wait == dropped' = None /\ UNCHANGED <<open, addr, queue>>

Init ==
    /\ open = {} /\ addr = [s \in Sock |-> NoAddress]
    /\ queue = [s \in Sock |-> <<>>] /\ dropped = None

Next ==
    \/ \E s \in Sock :
         \/ Detach(s) \/ Close(s) \/ Read(s)
         \/ \E a \in Address : Bind(s, a) \/ Connect(s, a)
         \/ \E d \in Datagram : Receive(s, d)
    \/ \E d \in Datagram : Drop(d)
    \/ Wait

Spec == Init /\ [][Next]_vars
=============================================================================
