-------------------------------- MODULE Ping --------------------------------
(***************************************************************************)
(* The client of ping.c on the netmap backend, with one connection: it     *)
(* sends flights of datagrams that share a nonce, and waits for as many    *)
(* datagrams as it sent, or for a timer.  busywait is the option -b.       *)
(***************************************************************************)
EXTENDS FlightNet, Sequences, FiniteSetsExt

CONSTANTS
    CBufs,              \* w_iovs of the client's engine
    BufLen,             \* what one of them can carry
    Start, End, Inc,    \* -s, -e, -p: lengths of the flights
    Loops               \* -l: flights of each length

ASSUME PingAssumption ==
    /\ {CBufs, Start, End, Inc} \subseteq Nat
    /\ {BufLen, Loops} \subseteq Nat \ {0}

VARIABLES
    cat,        \* where the client is
    len, iter,  \* length of the flight, flights of that length still to send
    o,          \* lengths of the w_iovs in queue o
    cnonce,     \* nonce of the last flight
    crx,        \* w_nic_rx(): the last frame was for the socket
    iv, i,      \* the socket's receive queue, and queue i
    done        \* the timer fired

cliVars == <<cat, len, iter, o, cnonce, crx, iv, i, done>>

w_iov_sq_cnt(q) == Len(q)

\* w_alloc_len(): w_iovs for qlen bytes, fewer if the pool has fewer.
w_alloc_len(qlen, spare) ==
    LET cnt == (qlen + BufLen - 1) \div BufLen
    IN  [k \in 1 .. Min({cnt, spare}) |->
           IF k < cnt THEN BufLen ELSE qlen - BufLen * (cnt - 1)]

\* What is left in the client's pool.
Spare == CBufs - Len(o) - Len(iv) - Len(i)

-----------------------------------------------------------------------------
\* The head of the outer loop: the tail queue of the next length, if any.
Alloc(l) ==
    IF l <= End
      THEN /\ o' = w_alloc_len(l, CBufs - Len(iv)) /\ iter' = Loops
           /\ cat' = "send"
      ELSE o' = <<>> /\ iter' = 0 /\ cat' = "end"

Begin ==
    /\ cat = "begin"
    /\ Alloc(len)
    /\ UNCHANGED <<netVars, len, cnonce, crx, iv, i, done>>

\* The flights of this length are sent: w_free(&o), and the next length.
Grow ==
    /\ cat = "send" /\ iter = 0
    /\ len' = len + (IF Inc > 0 THEN Inc ELSE len)
    /\ Alloc(len')
    /\ UNCHANGED <<netVars, cnonce, crx, iv, i, done>>

\* Mutant: one datagram fewer will do.
WaitingShort(q, late) == w_iov_sq_cnt(q) + 1 < w_iov_sq_cnt(o) /\ ~late

\* Mutant: the timer is not looked at.
WaitingOn(q, late) == w_iov_sq_cnt(q) < w_iov_sq_cnt(o)

Waiting(q, late) == w_iov_sq_cnt(q) < w_iov_sq_cnt(o) /\ ~late

\* The test of the waiting loop.
Wait(q, late) ==
    /\ cat' = IF Waiting(q, late) THEN "nicrx" ELSE "check"
    /\ crx' = FALSE

\* The flight is stamped and sent, the timer is set and done is reset.  A timer
\* of 250 ms does not fire between these two.
Send ==
    /\ cat = "send" /\ iter > 0
    /\ iter' = iter - 1
    /\ cnonce' = cnonce + 1
    /\ Emit(Flight("bench", cnonce', o, len))
    /\ done' = FALSE
    /\ Wait(i, FALSE)
    /\ UNCHANGED <<len, o, iv, i>>

\* SIGALRM.
Timeout ==
    /\ cat \in {"nicrx", "check"} /\ ~done
    /\ done' = TRUE
    /\ UNCHANGED <<netVars, cat, len, iter, o, cnonce, crx, iv, i>>

\* w_nic_rx() takes a datagram off the NIC.
Reply(d) ==
    /\ cat = "nicrx" /\ d.to = "ping" /\ Deliver(d)
    /\ crx' = (Spare > 0)
    /\ iv' = IF Spare > 0 THEN Append(iv, Payload(d)) ELSE iv
    /\ UNCHANGED <<cat, len, iter, o, cnonce, i, done>>

\* w_nic_rx() takes a frame off the NIC that is not for the socket.
ReplyOther ==
    /\ cat = "nicrx"
    /\ crx' = FALSE
    /\ UNCHANGED <<netVars, cat, len, iter, o, cnonce, iv, i, done>>

\* w_nic_rx() returns, and w_rx() follows if there is something to receive.
PingRx ==
    /\ cat = "nicrx" /\ (crx \/ busywait)
    /\ i' = IF crx THEN i \o iv ELSE i
    /\ iv' = IF crx THEN <<>> ELSE iv
    /\ Wait(i', done)
    /\ UNCHANGED <<netVars, len, iter, o, cnonce, done>>

\* "data len OK"; ensure() ends the program.  Then w_free(&i).
Check ==
    /\ cat = "check"
    /\ IF \/ w_iov_sq_len(i) = len
          \/ w_iov_sq_len(i) < len /\ done
         THEN cat' = "send" /\ i' = <<>>
         ELSE cat' = "die" /\ UNCHANGED i
    /\ UNCHANGED <<netVars, len, iter, o, cnonce, crx, iv, done>>
=============================================================================
