------------------------------- MODULE Flights -------------------------------
(***************************************************************************)
(* ping.c and inetd.c, each on its own host, over a network that loses,    *)
(* reorders and duplicates datagrams.                                      *)
(***************************************************************************)
EXTENDS Inetd, Ping

\* A world: busywait, datagrams of other hosts, and whether one is duplicated.
CONSTANT Worlds

vars == <<netVars, srvVars, cliVars>>

Contents(q) == Walk(h, sq_first(h, q), NBufs + 1)
Held(q) == [k \in DOMAIN Contents(q) |-> data[Contents(q)[k]]]

\* backend_init() chains the w_iovs up in the pool.
Init ==
    /\ \E w \in Worlds :
         busywait = w.busywait /\ net = w.strays /\ dup = w.dup
    /\ h = [first |-> [q \in Queue |-> IF q = "pool" THEN 1 ELSE NULL],
            last  |-> [q \in Queue |-> IF q = "pool" THEN NBufs ELSE NULL],
            len   |-> [q \in Queue |-> IF q = "pool" THEN NBufs ELSE 0],
            next  |-> [v \in Elem |-> IF v < NBufs THEN v + 1 ELSE NULL]]
    /\ data = [v \in Elem |-> NoData]
    /\ sat = "top" /\ rx = FALSE /\ sl = {} /\ s = NoSock
    /\ nonce = 0 /\ tmp_len = 0
    /\ cat = "begin" /\ len = Start /\ iter = 0 /\ o = <<>> /\ cnonce = 0
    /\ crx = FALSE /\ iv = <<>> /\ i = <<>> /\ done = FALSE

\* The server but for the arrival of frames.
Server ==
    \/ LoopTest \/ NicRxNone \/ RxReady \/ Served
    \/ \E p \in Port : Small(p)
    \/ Bench \/ NewFlight \/ Gather \/ Gathered
    \/ Tx

\* The client, likewise.
Client == Begin \/ Grow \/ Send \/ PingRx \/ Check

ServerStep == Server \/ (\E d \in net : Receive(d)) \/ ReceiveOther
ClientStep == Client \/ (\E d \in net : Reply(d)) \/ ReplyOther \/ Timeout

Next ==
    \/ ServerStep /\ UNCHANGED cliVars
    \/ ClientStep /\ UNCHANGED srvVars

\* Both programs keep running, and a timer that is set fires; nothing is assumed
\* of the network.
Fairness ==
    /\ WF_vars(Server /\ UNCHANGED cliVars)
    /\ WF_vars(Client /\ UNCHANGED srvVars)
    /\ WF_vars(Timeout /\ UNCHANGED srvVars)

Spec == Init /\ [][Next]_vars /\ Fairness

-----------------------------------------------------------------------------
TypeOK ==
    /\ h.first \in [Queue -> Elem \cup {NULL}]
    /\ h.last \in [Queue -> Elem \cup {NULL}]
    /\ h.len \in [Queue -> 0 .. NBufs]
    /\ h.next \in [Elem -> Elem \cup {NULL}]
    /\ sat \in {"top", "nicrx", "serve", "flight", "tx", "off"}
    /\ sl \subseteq Port /\ s \in Port \cup {NoSock}
    /\ nonce \in 0 .. cnonce /\ tmp_len \in Nat
    /\ cat \in {"begin", "send", "nicrx", "check", "end", "die"}
    /\ Spare \in 0 .. CBufs
    /\ {rx, crx, done, busywait} \subseteq BOOLEAN

\* The pointers of every queue agree: its length is the number of elements met on
\* the way from its first to its last, and every w_iov is in exactly one queue,
\* although sq_remove_head() leaves the removed element's next alone (queue.h:490).
QueuesSound ==
    LET c == [q \in Queue |-> Contents(q)] IN
    /\ TypeOK
    /\ \A q \in Queue : IsQueue(h, q, c[q])
    /\ UNION {Range(c[q]) : q \in Queue} = Elem
    /\ FoldFunction(+, 0, h.len) = NBufs

\* tmp holds datagrams of the flight nonce only, and tmp_len of its bytes, which
\* are not all of them yet; nonce is zero only when tmp is empty.  What is sent back
\* is of one flight, too, and unless the network duplicated a datagram, no part of
\* it is there twice (inetd.c:172-210).
OneFlight ==
    LET tmp == Held("tmp")
        out == Held("o")
    IN
    /\ \A k \in DOMAIN tmp : tmp[k].nonce = nonce /\ tmp_len < tmp[k].flen
    /\ tmp_len = w_iov_sq_len(tmp)
    /\ sat = "tx" /\ s = "bench" =>
         /\ \A j, k \in DOMAIN out : out[j].nonce = out[k].nonce
         /\ dup # "did" => IsInjective(out)

\* A server with nothing left to serve keeps no w_iov but those in tmp, whatever
\* the network did (inetd.c:217-225).  If its w_iovs are enough for a whole flight
\* and no datagram was duplicated, one of them is spare, so that it can receive:
\* tmp is never all of a flight.
PoolLeft ==
    sat = "nicrx" /\ (\A p \in Port : sq_empty(h, p)) =>
      /\ h.len["pool"] + h.len["tmp"] = NBufs
      /\ dup # "did" /\ End <= NBufs * BufLen => ~sq_empty(h, "pool")

\* "data len OK" (ping.c:275) fails only over a datagram of an earlier flight or
\* one that was received twice.
FailsOnlyLate ==
    cat = "die" => \/ \E k \in DOMAIN i : i[k].nonce # cnonce
                   \/ ~IsInjective(i)

\* A busy-waiting ping ends, whatever the network loses (ping.c:259-264), and a
\* busy-waiting inetd always looks for a signal again, however many datagrams come
\* in and whatever part of a flight it has (inetd.c:139).
LoopsEnd ==
    busywait => <>(cat \in {"end", "die"}) /\ []<>(sat \in {"top", "off"})

-----------------------------------------------------------------------------
(* What the comments say and the programs do not do; the README lists how. *)

\* backend_netmap.c:368, "@return Whether any data is ready for reading": inetd.c is
\* told that there is none, and there is.
NicRxTells == sat = "top" => \A p \in Port : sq_empty(h, p)

\* inetd.c:223, "we are done serving the received data": the first datagram of a
\* new flight is freed with what follows it.
AllServed == sat = "tx" /\ s = "bench" => sq_empty(h, "i")

\* inetd.c:201, "flight is done": one of its datagrams may be there twice, and
\* another missing.
FlightDone ==
    sat = "tx" /\ s = "bench" =>
      LET out == Held("o")
      IN  (\A k \in DOMAIN out : w_iov_sq_len(out) >= out[k].flen)
            => IsInjective(out)

\* ping.c:275, "data len OK": late replies to an earlier flight count.
DataLenOK == cat # "die"

\* ping.c:286, "received %u/%u byte": even if the length is right, what was received
\* may be of another flight, and so is the time that is printed.
OwnReply ==
    cat = "check" /\ w_iov_sq_len(i) = len =>
      \A k \in DOMAIN i : i[k].nonce = cnonce

\* ping.c:257, "loop until timeout or we have received all data": without -b, the
\* timeout does not end w_nic_rx().
PingEndsAnyway == <>(cat \in {"end", "die"})
=============================================================================
