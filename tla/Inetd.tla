------------------------------- MODULE Inetd --------------------------------
(***************************************************************************)
(* The server of inetd.c on the netmap backend, with its queues as the     *)
(* pointers of TailQueue: the spare w_iovs, a receive queue per socket,    *)
(* and the application's i, o and tmp.  It has one address, hence three    *)
(* sockets: echo (port 7), discard (9) and the benchmark (55555).  tmp     *)
(* gathers the datagrams of one flight of ping.c and is sent back when it  *)
(* is complete, or when a datagram of another flight comes in.             *)
(***************************************************************************)
EXTENDS TailQueue, FlightNet, FiniteSets

CONSTANTS
    NBufs,      \* w_iovs of the engine
    NoSock      \* no socket

Port == {"echo", "discard", "bench"}

VARIABLES
    h,          \* memory of the queues
    data,       \* what the buffer of each w_iov holds
    sat,        \* where the server is
    rx,         \* w_nic_rx(): the last frame was for a socket
    sl,         \* sockets that are yet to be served
    s,          \* the socket that is being served, or none
    nonce,      \* static nonce: the flight in tmp, 0 if there is none
    tmp_len     \* static tmp_len: bytes in tmp

queVars == <<h, data>>
srvVars == <<queVars, sat, rx, sl, s, nonce, tmp_len>>

\* A receive queue is named by its socket.
ASSUME QueueAssumption == Queue = {"pool", "i", "o", "tmp"} \cup Port

ASSUME BufsAssumption == Cardinality(Elem) = NBufs

-----------------------------------------------------------------------------
\* The test of the main loop: done if terminate() ran, for SIGINT or SIGTERM, and
\* w_cleanup() follows.
LoopTest ==
    /\ sat = "top"
    /\ sat' \in {"nicrx", "off"}
    /\ UNCHANGED <<netVars, queVars, rx, sl, s, nonce, tmp_len>>

\* w_alloc_iov_base(): the first spare w_iov, which loses its link.
Taken(v) == [sq_remove_head(h, "pool") EXCEPT !.next[v] = NULL]

\* w_nic_rx() takes a datagram off the NIC; udp_rx() drops it if there is no
\* spare w_iov.
Receive(d) ==
    LET v == sq_first(h, "pool") IN
    /\ sat = "nicrx" /\ d.to \in Port /\ Deliver(d)
    /\ rx' = ~sq_empty(h, "pool")
    /\ IF sq_empty(h, "pool") THEN UNCHANGED queVars
       ELSE /\ h' = sq_insert_tail(Taken(v), d.to, v)
            /\ data' = [data EXCEPT ![v] = Payload(d)]
    /\ UNCHANGED <<sat, sl, s, nonce, tmp_len>>

\* w_nic_rx() takes a frame off the NIC that is for none of the sockets.
ReceiveOther ==
    /\ sat = "nicrx"
    /\ rx' = FALSE
    /\ UNCHANGED <<netVars, queVars, sat, sl, s, nonce, tmp_len>>

\* w_nic_rx() returns that there is nothing, which it does when busy-waiting.
NicRxNone ==
    /\ sat = "nicrx" /\ ~rx /\ busywait
    /\ sat' = "top"
    /\ UNCHANGED <<netVars, queVars, rx, sl, s, nonce, tmp_len>>

\* w_nic_rx() returns after a datagram; w_rx_ready().
RxReady ==
    /\ sat = "nicrx" /\ rx
    /\ sl' = {p \in Port : ~sq_empty(h, p)}
    /\ sat' = "serve" /\ rx' = FALSE
    /\ UNCHANGED <<netVars, queVars, s, nonce, tmp_len>>

\* All of sl is served.
Served ==
    /\ sat = "serve" /\ sl = {}
    /\ sat' = "top"
    /\ UNCHANGED <<netVars, queVars, rx, sl, s, nonce, tmp_len>>

-----------------------------------------------------------------------------
(* The services.                                                           *)

\* w_rx(p, &i), and case 7, sq_concat(&o, &i), or 9, nothing.
Small(p) ==
    LET got == sq_concat(h, "i", p) IN
    /\ sat = "serve" /\ p \in sl \ {"bench"}
    /\ s' = p /\ sl' = sl \ {p}
    /\ h' = IF p = "echo" THEN sq_concat(got, "o", "i") ELSE got
    /\ sat' = "tx"
    /\ UNCHANGED <<netVars, data, rx, nonce, tmp_len>>

\* case 55555: w_rx(s, &i), and the nonce of a first flight.
Bench ==
    /\ sat = "serve" /\ "bench" \in sl
    /\ s' = "bench" /\ sl' = sl \ {"bench"}
    /\ h' = sq_concat(h, "i", "bench")
    /\ nonce' = IF nonce = 0 THEN data[sq_first(h, "bench")].nonce ELSE nonce
    /\ sat' = "flight"
    /\ UNCHANGED <<netVars, data, rx, tmp_len>>

\* Mutant: what is left of i is sent with it.
SendTmpAndRest(heap) ==
    /\ h' = sq_concat(sq_concat(heap, "o", "tmp"), "o", "i")
    /\ nonce' = 0 /\ tmp_len' = 0
    /\ sat' = "tx"

\* if (tx): tmp is sent and forgotten.
SendTmp(heap) ==
    /\ h' = sq_concat(heap, "o", "tmp")
    /\ nonce' = 0 /\ tmp_len' = 0
    /\ sat' = "tx"

OtherFlight(p) == nonce # p.nonce

\* The loop over i: its first datagram belongs to another flight.
NewFlight ==
    /\ sat = "flight" /\ ~sq_empty(h, "i")
    /\ OtherFlight(data[sq_first(h, "i")])
    /\ SendTmp(h)
    /\ UNCHANGED <<netVars, data, rx, sl, s>>

\* Its first datagram is moved to tmp, which may complete the flight.
Gather ==
    LET v     == sq_first(h, "i")
        p     == data[v]
        moved == IF tmp_len < p.flen
                   THEN sq_insert_tail(sq_remove_head(h, "i"), "tmp", v) ELSE h
        len   == IF tmp_len < p.flen THEN tmp_len + p.len ELSE tmp_len
    IN  /\ sat = "flight" /\ ~sq_empty(h, "i")
        /\ ~OtherFlight(p)
        /\ IF len >= p.flen THEN SendTmp(moved)
           ELSE h' = moved /\ tmp_len' = len /\ UNCHANGED <<nonce, sat>>
        /\ UNCHANGED <<netVars, data, rx, sl, s>>

\* i is used up.
Gathered ==
    /\ sat = "flight" /\ sq_empty(h, "i")
    /\ sat' = "tx"
    /\ UNCHANGED <<netVars, queVars, rx, sl, s, nonce, tmp_len>>

\* Mutant: w_free(&i) is left out.
FreeOnlyO(heap) == sq_concat(heap, "pool", "o")

\* w_free(&i) and w_free(&o).
FreeBoth(heap) == sq_concat(sq_concat(heap, "pool", "i"), "pool", "o")

\* w_tx(s, &o), of which only what goes to ping.c is of interest, w_nic_tx(), and
\* w_free(&i), w_free(&o).  A buffer in the pool holds nothing of interest.
Tx ==
    LET out == Walk(h, sq_first(h, "o"), NBufs) IN
    /\ sat = "tx"
    /\ Emit(IF s = "bench"
              THEN {Datagram("ping", data[out[k]]) : k \in DOMAIN out} ELSE {})
    /\ h' = FreeBoth(h)
    /\ data' = [v \in Elem |->
                  IF v \in Range(Walk(h', sq_first(h', "pool"), NBufs))
                    THEN NoData ELSE data[v]]
    /\ s' = NoSock /\ sat' = "serve"
    /\ UNCHANGED <<rx, sl, nonce, tmp_len>>
=============================================================================
