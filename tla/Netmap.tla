------------------------------- MODULE Netmap -------------------------------
(***************************************************************************)
(* Packet buffers of one warpcore engine on the netmap backend.            *)
(*                                                                         *)
(* A netmap buffer is named by an index.  An index is stored in exactly    *)
(* one of three kinds of holder: a w_iov (v->idx), a slot of a TX ring or  *)
(* a slot of an RX ring (slot->buf_idx).  Zero-copy transmission and       *)
(* reception only ever swap the indices of two holders, and the w_iov      *)
(* structures themselves move between the spare pool w->iov, the receive   *)
(* queues of the sockets and the application.                              *)
(*                                                                         *)
(* There is one application thread.  Its nested calls                      *)
(*   w_tx > who_has > w_nic_rx > eth_tx_and_free > w_nic_tx                *)
(* run one step at a time, the innermost first, interleaved with the NIC,  *)
(* which completes transmissions on its own.                               *)
(***************************************************************************)
EXTENDS Integers, Sequences, Functions

CONSTANTS
    NBufs,      \* extra buffers, hence w_iovs: nr_arg3 of the nmreq
    NTx, TxN,   \* TX rings, and slots in each
    NRx, RxN,   \* RX rings, and slots in each
    Sock,       \* sockets the application uses
    Buf,        \* netmap buffer indices
    InitBuf,    \* the indices netmap hands out at NIOCREGIF
    None,       \* NULL
    Pipe,       \* is_pipe(): the engine is a loopback netmap pipe
    AppWaits,   \* the application leaves a w_iov alone while it is in a TX ring
    Frames      \* the kinds of frame that the network delivers

Iov    == 1 .. NBufs
TxRing == 0 .. NTx - 1
TxSlot == 0 .. TxN - 1
RxRing == 0 .. NRx - 1
RxSlot == 0 .. RxN - 1

\* The holders of a buffer index: v->idx and slot->buf_idx.
IovH(v)   == <<"iov", v, 0>>
TxH(r, j) == <<"tx", r, j>>
RxH(r, j) == <<"rx", r, j>>
Holder == {IovH(v) : v \in Iov} \cup {TxH(r, j) : r \in TxRing, j \in TxSlot}
            \cup {RxH(r, j) : r \in RxRing, j \in RxSlot}

FrameKinds == {"udp", "reject", "unreach", "query", "other"}

ASSUME SizesAssumption ==
    /\ NBufs \in Nat \ {0}
    /\ NTx \in Nat \ {0} /\ TxN \in Nat \ {0, 1}
    /\ NRx \in Nat \ {0} /\ RxN \in Nat \ {0, 1}

ASSUME ValuesAssumption ==
    /\ Pipe \in BOOLEAN /\ AppWaits \in BOOLEAN
    /\ Frames \subseteq FrameKinds
    /\ None \notin Iov /\ None \notin Buf /\ None \notin TxRing \X TxSlot

\* NIOCREGIF gives every ring slot and every extra buffer its own index.
ASSUME InitBufAssumption == InitBuf \in [Holder -> Buf] /\ IsInjective(InitBuf)

VARIABLES
    bidx,       \* holder -> the buffer index it stores
    base,       \* v->base: the buffer that v->base points into
    slot_buf,   \* b->slot_buf: the w_iov whose frame is in a TX slot, or NULL
    txcur,      \* cur (= head) of each TX ring, written by warpcore
    txtail,     \* tail of each TX ring, written by the kernel
    btail,      \* b->tail: the tail up to which slots have been reclaimed
    cur_txr,    \* b->cur_txr: the TX ring in use
    hwsub,      \* external: cur as the kernel saw it in the last NIOCTXSYNC
    hwdone,     \* external: the last slot of each TX ring that the NIC has sent
    rxcur,      \* cur (= head) of each RX ring
    rxtail,     \* tail of each RX ring, written by the kernel in poll()
    pool,       \* w->iov: the spare w_iovs
    iv,         \* s->iv: what each socket has received
    app,        \* w_iovs in the application's own queues
    open,       \* sockets that are bound
    dropped,    \* history: w_iovs that no queue holds any more
    tosend,     \* w_tx(): what is left of the queue being sent
    txv,        \* w_tx(): the w_iov udp_tx() is working on, or NULL
    who,        \* who_has(): "find", "query" (send a request), "rx" (await it)
    nicrx,      \* w_nic_rx(): where it is, and its locals
    wait        \* eth_tx_and_free(): its w_iov (or NULL) and its locals

bufVars  == <<bidx, base>>
ringVars == <<slot_buf, txcur, cur_txr>>
syncVars == <<txtail, hwsub>>
rxVars   == <<rxcur, rxtail>>
queVars  == <<pool, iv, app, open, dropped>>
txVars   == <<tosend, txv, who>>
vars == <<bufVars, ringVars, syncVars, btail, hwdone, rxVars, queVars, txVars,
          nicrx, wait>>

NoWait == [v |-> None, orig |-> None, slot |-> None, synced |-> FALSE]

-----------------------------------------------------------------------------
(* Ring arithmetic.                                                        *)

\* nm_ring_next(): the slot after j in a ring of n.
RingNext(j, n) == IF j + 1 = n THEN 0 ELSE j + 1

\* The slots a, a+1, ... up to but excluding b, around a ring of n.
Cyc(a, b, n) == IF a <= b THEN a .. b - 1 ELSE (a .. n - 1) \cup (0 .. b - 1)

\* nm_ring_empty(): no slot of TX ring r is free.
TxEmpty(r) == txcur[r] = txtail[r]
TxFull == \A r \in TxRing : TxEmpty(r)

\* Slots of TX ring r that hold a frame of some w_iov.
Queued(r) == Cyc(RingNext(btail[r], TxN), txcur[r], TxN)

InFlight(v) == ~Pipe /\ \E r \in TxRing, j \in TxSlot : slot_buf[r][j] = v

-----------------------------------------------------------------------------
(* Where the thread is: the innermost active call takes the next step.     *)

\* w_nic_tx() is in its loop over the slots that the kernel gave back.
Reclaiming == ~Pipe /\ \E r \in TxRing : btail[r] # txtail[r]
NoEthTx == ~Reclaiming /\ wait.v = None
NoNicRx == NoEthTx /\ nicrx.at = "off"
AppIdle == NoNicRx /\ tosend = {}

-----------------------------------------------------------------------------
(* The kernel and the NIC.                                                 *)

\* ioctl(NIOCTXSYNC): the kernel takes what is queued, reports what was sent.
NIOCTXSYNC == hwsub' = txcur /\ txtail' = hwdone

\* The NIC sends the next frame of TX ring r.
NicSend(r) ==
    /\ RingNext(hwdone[r], TxN) # hwsub[r]
    /\ hwdone' = [hwdone EXCEPT ![r] = RingNext(@, TxN)]
    /\ UNCHANGED <<bufVars, ringVars, syncVars, btail, rxVars, queVars, txVars,
                   nicrx, wait>>

-----------------------------------------------------------------------------
(* Transmission.                                                           *)

\* Mutant: only one of the two indices is stored.
SwapOneWay(g, h) == [bidx EXCEPT ![g] = bidx[h]]

\* The exchange of two buffer indices through a temporary.
Swap(g, h) == [bidx EXCEPT ![g] = bidx[h], ![h] = bidx[g]]

\* eth_tx(), a ring has space: cur_txr moves past the full rings to ring r, and
\* v's buffer trades places with the slot's (a pipe copies the frame instead).
EthTx(v, r) ==
    /\ ~TxEmpty(r) /\ \A q \in Cyc(cur_txr, r, NTx) : TxEmpty(q)
    /\ cur_txr' = r
    /\ slot_buf' = [slot_buf EXCEPT ![r][txcur[r]] = v]
    /\ bidx' = IF Pipe THEN bidx ELSE Swap(IovH(v), TxH(r, txcur[r]))
    /\ txcur' = [txcur EXCEPT ![r] = RingNext(@, TxN)]

\* Mutant: orig_idx is read after eth_tx().
OrigIdxLate(v) == bidx'[IovH(v)]

OrigIdx(v) == bidx[IovH(v)]

\* eth_tx_and_free(v) up to its first w_nic_tx(); eth_tx()'s result is ignored,
\* so with every ring full there is no slot to wait for.
EthTxAndFree(v) ==
    \/ \E r \in TxRing :
         /\ EthTx(v, r)
         /\ wait' = [v |-> v, orig |-> OrigIdx(v),
                     slot |-> <<r, txcur[r]>>, synced |-> FALSE]
    \/ /\ TxFull
       /\ UNCHANGED <<bidx, ringVars>>
       /\ wait' = [v |-> v, orig |-> OrigIdx(v),
                   slot |-> None, synced |-> FALSE]

\* w_nic_tx() called by the application.
NicTx ==
    /\ AppIdle
    /\ NIOCTXSYNC
    /\ UNCHANGED <<bufVars, ringVars, btail, hwdone, rxVars, queVars, txVars,
                   nicrx, wait>>

\* Mutant: the slot keeps its w_iov.
SlotKept(r, j) == slot_buf

SlotCleared(r, j) == [slot_buf EXCEPT ![r][j] = None]

\* One iteration of w_nic_tx()'s loop: the slot's buffer goes back to its w_iov.
Reclaim ==
    \E r \in TxRing :
      LET j == RingNext(btail[r], TxN) IN
        /\ ~Pipe /\ btail[r] # txtail[r]
        /\ \A q \in TxRing : q < r => btail[q] = txtail[q]
        /\ bidx' = Swap(IovH(slot_buf[r][j]), TxH(r, j))
        /\ slot_buf' = SlotCleared(r, j)
        /\ btail' = [btail EXCEPT ![r] = j]
        /\ UNCHANGED <<base, txcur, cur_txr, syncVars, hwdone, rxVars, queVars,
                       txVars, nicrx, wait>>

\* The loop of eth_tx_and_free(): w_nic_tx() until v has its buffer back.
EthTxAndFreeSync ==
    /\ ~Reclaiming /\ wait.v # None
    /\ ~wait.synced \/ bidx[IovH(wait.v)] # wait.orig
    /\ NIOCTXSYNC
    /\ wait' = [wait EXCEPT !.synced = TRUE]
    /\ UNCHANGED <<bufVars, ringVars, btail, hwdone, rxVars, queVars, txVars,
                   nicrx>>

\* A frame has been handled: the RX ring moves on and eth_rx()'s result is kept.
RxDone(res) ==
    /\ rxcur' = [rxcur EXCEPT ![nicrx.ring] = RingNext(@, RxN)]
    /\ nicrx' = [nicrx EXCEPT !.rx = res, !.got = @ \/ res]

\* eth_tx_and_free() returns; a handler that called it then returns false.
EthTxAndFreeDone ==
    /\ ~Reclaiming /\ wait.v # None
    /\ wait.synced /\ bidx[IovH(wait.v)] = wait.orig
    /\ pool' = <<wait.v>> \o pool
    /\ wait' = NoWait
    /\ IF nicrx.at = "loop" THEN RxDone(FALSE) ELSE UNCHANGED <<rxcur, nicrx>>
    /\ UNCHANGED <<bufVars, ringVars, syncVars, btail, hwdone, rxtail, iv, app,
                   open, dropped, txVars>>

\* w_tx(q): the order of q is the application's choice.
Tx(q) ==
    /\ AppIdle /\ q # {}
    /\ AppWaits => \A v \in q : ~InFlight(v)
    /\ tosend' = q
    /\ UNCHANGED <<bufVars, ringVars, syncVars, btail, hwdone, rxVars, queVars,
                   txv, who, nicrx, wait>>

\* w_tx() is in udp_tx(v), and mk_eth_hdr() is about to look up the neighbor.
Sending(v) == NoNicRx /\ who = "find" /\ v \in tosend /\ txv \in {None, v}

\* The neighbor is known and some ring has space.
UdpTxSent(v) ==
    /\ Sending(v)
    /\ \E r \in TxRing : EthTx(v, r)
    /\ tosend' = tosend \ {v} /\ txv' = None
    /\ UNCHANGED <<base, syncVars, btail, hwdone, rxVars, queVars, who, nicrx,
                   wait>>

\* Mutant: w_tx() retries without w_nic_tx().
UdpTxFullNoSync(v) ==
    /\ Sending(v) /\ TxFull
    /\ txv' = v
    /\ UNCHANGED <<bufVars, ringVars, syncVars, btail, hwdone, rxVars, queVars,
                   tosend, who, nicrx, wait>>

\* The neighbor is known and every ring is full: w_tx() calls w_nic_tx().
UdpTxFull(v) ==
    /\ Sending(v) /\ TxFull
    /\ NIOCTXSYNC
    /\ txv' = v
    /\ UNCHANGED <<bufVars, ringVars, btail, hwdone, rxVars, queVars, tosend,
                   who, nicrx, wait>>

\* The neighbor is not known yet.
UdpTxResolve(v) ==
    /\ Sending(v)
    /\ txv' = v /\ who' = "query"
    /\ UNCHANGED <<bufVars, ringVars, syncVars, btail, hwdone, rxVars, queVars,
                   tosend, nicrx, wait>>

\* arp_who_has() or icmp6_nsol(); without a spare w_iov, nothing is sent.
WhoHasQuery ==
    /\ NoNicRx /\ who = "query" /\ who' = "rx"
    /\ \/ pool = <<>> /\ UNCHANGED <<pool, bidx, ringVars, wait>>
       \/ pool # <<>> /\ pool' = Tail(pool) /\ EthTxAndFree(Head(pool))
    /\ UNCHANGED <<base, syncVars, btail, hwdone, rxVars, iv, app, open,
                   dropped, tosend, txv, nicrx>>

-----------------------------------------------------------------------------
(* Reception.                                                              *)

\* w_nic_rx(nsec) up to poll(); block: nsec = -1.
NicRxCall(block) ==
    nicrx' = [at |-> "poll", ring |-> 0, rx |-> FALSE, got |-> FALSE,
              block |-> block]

NicRx(block) ==
    /\ AppIdle /\ NicRxCall(block)
    /\ UNCHANGED <<bufVars, ringVars, syncVars, btail, hwdone, rxVars, queVars,
                   txVars, wait>>

WhoHasRx ==
    /\ NoNicRx /\ who = "rx" /\ who' = "find"
    /\ NicRxCall(FALSE)
    /\ UNCHANGED <<bufVars, ringVars, syncVars, btail, hwdone, rxVars, queVars,
                   tosend, txv, wait>>

\* poll(): times out, or makes new frames visible.  NETMAP_NO_TX_POLL keeps it
\* from syncing the TX rings, except on a pipe, whose registration loses it.
Poll ==
    /\ NoEthTx /\ nicrx.at = "poll"
    /\ IF Pipe THEN NIOCTXSYNC ELSE UNCHANGED syncVars
    /\ \/ /\ ~nicrx.block
          /\ nicrx' = [nicrx EXCEPT !.at = "off"]
          /\ UNCHANGED rxtail
       \/ /\ rxtail' \in [RxRing -> RxSlot]
          /\ nicrx' = [nicrx EXCEPT !.at = "loop", !.ring = 0, !.rx = FALSE]
    /\ UNCHANGED <<bufVars, ringVars, btail, hwdone, rxcur, queVars, txVars,
                   wait>>

\* The current RX ring is drained: next ring, poll() again, or return.
RxRingDone ==
    /\ NoEthTx /\ nicrx.at = "loop" /\ rxcur[nicrx.ring] = rxtail[nicrx.ring]
    /\ nicrx' = IF nicrx.ring < NRx - 1
                  THEN [nicrx EXCEPT !.ring = @ + 1]
                  ELSE [nicrx EXCEPT !.at = IF ~nicrx.rx /\ nicrx.block
                                              THEN "poll" ELSE "off"]
    /\ UNCHANGED <<bufVars, ringVars, syncVars, btail, hwdone, rxVars, queVars,
                   txVars, wait>>

\* eth_rx() is called for a frame of kind k.
Handling(k) ==
    /\ NoEthTx /\ nicrx.at = "loop" /\ rxcur[nicrx.ring] # rxtail[nicrx.ring]
    /\ k \in Frames

\* Mutant: i->base is left alone.
RxBaseKept(i, slot) == base

RxBase(i, slot) == [base EXCEPT ![i] = bidx[slot]]

\* udp_rx() finds socket s: the frame's buffer trades places with a spare one.
UdpRx(s) ==
    LET slot == RxH(nicrx.ring, rxcur[nicrx.ring])
        i    == Head(pool)
    IN  /\ Handling("udp") /\ s \in open /\ pool # <<>>
        /\ pool' = Tail(pool)
        /\ base' = RxBase(i, slot)
        /\ bidx' = Swap(IovH(i), slot)
        /\ iv' = [iv EXCEPT ![s] = Append(@, i)]
        /\ RxDone(TRUE)
        /\ UNCHANGED <<ringVars, syncVars, btail, hwdone, rxtail, app, open,
                       dropped, txVars, wait>>

\* udp_rx() gives up after it took a spare w_iov: short payload, bad checksum,
\* or no socket and no ICMP message due, or no second w_iov to send it in.
UdpRxReject ==
    /\ \/ Handling("reject") /\ pool # <<>>
       \/ Handling("unreach") /\ Len(pool) = 1
    /\ pool' = Tail(pool) /\ dropped' = dropped \cup {Head(pool)}
    /\ RxDone(FALSE)
    /\ UNCHANGED <<bufVars, ringVars, syncVars, btail, hwdone, rxtail, iv, app,
                   open, txVars, wait>>

\* udp_rx() finds no socket and sends an ICMP port unreachable.
UdpRxUnreach ==
    /\ Handling("unreach") /\ Len(pool) > 1
    /\ pool' = Tail(Tail(pool)) /\ dropped' = dropped \cup {Head(pool)}
    /\ EthTxAndFree(Head(Tail(pool)))
    /\ UNCHANGED <<base, syncVars, btail, hwdone, rxVars, iv, app, open, txVars,
                   nicrx>>

\* A frame that is answered: ARP request, neighbor solicitation, ICMP echo, or
\* a protocol nobody handles.
RxQuery ==
    /\ Handling("query") /\ pool # <<>>
    /\ pool' = Tail(pool)
    /\ EthTxAndFree(Head(pool))
    /\ UNCHANGED <<base, syncVars, btail, hwdone, rxVars, iv, app, open,
                   dropped, txVars, nicrx>>

\* A frame that has no effect on the buffers: not for us, malformed, an ARP
\* reply or neighbor advertisement, or one for which no w_iov is left.
RxOther ==
    /\ Handling("other") \/ (pool = <<>> /\ \E k \in Frames : Handling(k))
    /\ RxDone(FALSE)
    /\ UNCHANGED <<bufVars, ringVars, syncVars, btail, hwdone, rxtail, queVars,
                   txVars, wait>>

-----------------------------------------------------------------------------
(* The application and its queues.                                         *)

\* w_alloc_iov(); w_alloc_cnt() and w_alloc_len() repeat it.
Alloc ==
    /\ AppIdle /\ pool # <<>>
    /\ pool' = Tail(pool) /\ app' = app \cup {Head(pool)}
    /\ UNCHANGED <<bufVars, ringVars, syncVars, btail, hwdone, rxVars, iv, open,
                   dropped, txVars, nicrx, wait>>

\* Mutant: the socket keeps the queue it handed out.
RxKept(s) ==
    /\ AppIdle /\ s \in open /\ iv[s] # <<>>
    /\ app' = app \cup Range(iv[s])
    /\ UNCHANGED <<bufVars, ringVars, syncVars, btail, hwdone, rxVars, pool, iv,
                   open, dropped, txVars, nicrx, wait>>

\* w_rx(s): sq_concat() moves the whole receive queue to the application.
Rx(s) ==
    /\ AppIdle /\ s \in open /\ iv[s] # <<>>
    /\ app' = app \cup Range(iv[s]) /\ iv' = [iv EXCEPT ![s] = <<>>]
    /\ UNCHANGED <<bufVars, ringVars, syncVars, btail, hwdone, rxVars, pool,
                   open, dropped, txVars, nicrx, wait>>

\* w_free_iov(v), and w_free() of a queue, one w_iov at a time.
Free(v) ==
    /\ AppIdle /\ v \in app
    /\ AppWaits => ~InFlight(v)
    /\ app' = app \ {v}
    /\ pool' \in {<<v>> \o pool, pool \o <<v>>}
    /\ UNCHANGED <<bufVars, ringVars, syncVars, btail, hwdone, rxVars, iv, open,
                   dropped, txVars, nicrx, wait>>

\* w_bind(): the socket starts with an empty receive queue.
Bind(s) ==
    /\ AppIdle /\ s \notin open
    /\ open' = open \cup {s}
    /\ UNCHANGED <<bufVars, ringVars, syncVars, btail, hwdone, rxVars, pool, iv,
                   app, dropped, txVars, nicrx, wait>>

\* w_close(s) frees the socket, and with it the head of its receive queue.
Close(s) ==
    /\ AppIdle /\ s \in open
    /\ open' = open \ {s}
    /\ dropped' = dropped \cup Range(iv[s]) /\ iv' = [iv EXCEPT ![s] = <<>>]
    /\ UNCHANGED <<bufVars, ringVars, syncVars, btail, hwdone, rxVars, pool,
                   app, txVars, nicrx, wait>>

\* Mutant: the loop ends one w_iov early.
ExtraBufsShort == [n \in 1 .. Len(pool) - 1 |-> bidx[IovH(n)]]

\* The list that backend_cleanup() links up for netmap to free: as many elements
\* of w->bufs as there are spare w_iovs, from the first one on.  It starts with
\* that one even if there is no spare w_iov.
ExtraBufs == [n \in 1 .. (IF pool = <<>> THEN 1 ELSE Len(pool)) |-> bidx[IovH(n)]]

\* What netmap may find in the last buffer of the list as the index of the next:
\* the zero that ends it, written by the last round of the loop, or, if there was
\* no round, whatever the buffer holds.
ExtraAfter == IF pool = <<>> THEN Buf \cup {0} ELSE {0}

-----------------------------------------------------------------------------
\* backend_init(): b->tail = r->tail, empty slot_buf, all w_iovs in the pool,
\* the last one first.
Init ==
    /\ bidx = InitBuf
    /\ base = [v \in Iov |-> InitBuf[IovH(v)]]
    /\ slot_buf = [r \in TxRing |-> [j \in TxSlot |-> None]]
    /\ txcur = [r \in TxRing |-> 0] /\ hwsub = txcur
    /\ txtail = [r \in TxRing |-> TxN - 1] /\ hwdone = txtail /\ btail = txtail
    /\ cur_txr = 0
    /\ rxcur = [r \in RxRing |-> 0] /\ rxtail = rxcur
    /\ pool = [n \in 1 .. NBufs |-> NBufs + 1 - n]
    /\ iv = [s \in Sock |-> <<>>]
    /\ app = {} /\ open = {} /\ dropped = {}
    /\ tosend = {} /\ txv = None /\ who = "find"
    /\ nicrx = [at |-> "off", ring |-> 0, rx |-> FALSE, got |-> FALSE,
                block |-> FALSE]
    /\ wait = NoWait

\* What the application decides to call.
Call ==
    \/ Alloc \/ NicTx
    \/ \E q \in SUBSET app : Tx(q)
    \/ \E b \in BOOLEAN : NicRx(b)
    \/ \E v \in app : Free(v)
    \/ \E s \in Sock : Rx(s) \/ Bind(s) \/ Close(s)

\* The steps of the calls it has made.
Step ==
    \/ Reclaim \/ EthTxAndFreeSync \/ EthTxAndFreeDone
    \/ WhoHasQuery \/ WhoHasRx
    \/ Poll \/ RxRingDone
    \/ UdpRxReject \/ UdpRxUnreach \/ RxQuery \/ RxOther
    \/ \E s \in Sock : UdpRx(s)
    \/ \E v \in Iov : UdpTxSent(v) \/ UdpTxFull(v) \/ UdpTxResolve(v)

Next == Call \/ Step \/ \E r \in TxRing : NicSend(r)

Spec == Init /\ [][Next]_vars

\* The thread keeps running its calls and the NIC keeps sending.  A neighbor
\* that is looked up again and again is known in the end.
FairSpec ==
    /\ Spec
    /\ WF_vars(Step)
    /\ \A r \in TxRing : WF_vars(NicSend(r))
    /\ \A v \in Iov : SF_vars(UdpTxSent(v) \/ UdpTxFull(v))

-----------------------------------------------------------------------------
(* Properties.                                                             *)

TypeOK ==
    /\ bidx \in [Holder -> Buf] /\ base \in [Iov -> Buf]
    /\ slot_buf \in [TxRing -> [TxSlot -> Iov \cup {None}]]
    /\ txcur \in [TxRing -> TxSlot] /\ hwsub \in [TxRing -> TxSlot]
    /\ txtail \in [TxRing -> TxSlot] /\ btail \in [TxRing -> TxSlot]
    /\ hwdone \in [TxRing -> TxSlot] /\ cur_txr \in TxRing
    /\ rxcur \in [RxRing -> RxSlot] /\ rxtail \in [RxRing -> RxSlot]
    /\ pool \in Seq(Iov) /\ iv \in [Sock -> Seq(Iov)]
    /\ app \subseteq Iov /\ dropped \subseteq Iov /\ open \subseteq Sock
    /\ tosend \subseteq Iov /\ txv \in Iov \cup {None}
    /\ who \in {"find", "query", "rx"}
    /\ nicrx \in [at : {"off", "poll", "loop"}, ring : RxRing, rx : BOOLEAN,
                  got : BOOLEAN, block : BOOLEAN]
    /\ wait \in [v : Iov \cup {None}, orig : Buf \cup {None},
                 slot : (TxRing \X TxSlot) \cup {None}, synced : BOOLEAN]

\* Every holder stores an index of its own: no buffer is ever lost, and none is
\* both in a ring and with a w_iov, whatever order eth_tx(), w_nic_tx() and
\* udp_rx() swap in, and whatever the application does with w_iovs in flight.
BufConservation == IsInjective(bidx)

\* b->slot_buf names a w_iov in exactly the slots between b->tail and cur, so
\* w_nic_tx() finds a w_iov in every slot that the kernel gives back, and
\* eth_tx() never overwrites the w_iov of a frame that is still in the ring.
TxWindow ==
    ~Pipe => \A r \in TxRing :
               {j \in TxSlot : slot_buf[r][j] # None} = Queued(r)

\* eth_tx_and_free() takes v->idx = orig_idx as the sign that its frame is out:
\* the index is back exactly when w_nic_tx() has cleared the slot it was put in.
\* With one TX ring this holds even for a w_iov that was freed while in flight;
\* with several, only if the application never frees one (see WaitEnds).
CompletionTest ==
    wait.v # None /\ wait.slot # None /\ ~Pipe =>
      (bidx[IovH(wait.v)] = wait.orig
         <=> slot_buf[wait.slot[1]][wait.slot[2]] # wait.v)

\* If the application leaves w_iovs in flight alone (on a pipe, even if it does
\* not), v->base points into the buffer v->idx names, or, while v is in flight,
\* into the buffer of the TX slot that will be swapped back: a w_iov that can be
\* written never shares its memory with a ring.
BaseOwned ==
    AppWaits \/ Pipe =>
      \A v \in Iov :
        IF InFlight(v)
          THEN \A r \in TxRing, j \in TxSlot :
                 slot_buf[r][j] = v => base[v] = bidx[TxH(r, j)]
          ELSE base[v] = bidx[IovH(v)]

\* The pool, the receive queues, the application, eth_tx_and_free() and the
\* w_iovs dropped by udp_rx() and w_close() partition the w_iovs: none is in two
\* queues (or twice in one), and nothing else loses one.
Places == <<Range(pool), app, {wait.v} \ {None}, dropped>>
IovPartition ==
    /\ IsInjective(pool) /\ \A s \in Sock : IsInjective(iv[s])
    /\ \A i, j \in 1 .. 4 : i # j => Places[i] \cap Places[j] = {}
    /\ \A s \in Sock, i \in 1 .. 4 : Range(iv[s]) \cap Places[i] = {}
    /\ \A s, t \in Sock : s # t => Range(iv[s]) \cap Range(iv[t]) = {}
    /\ Iov = (UNION {Places[i] : i \in 1 .. 4})
              \cup (UNION {Range(iv[s]) : s \in Sock})

\* Whenever the application calls w_cleanup(), the list given to netmap names no
\* buffer twice and none that a ring slot holds, although the w_iovs it is taken
\* from are not those in the pool and buffers have moved in and out of the rings.
\* If a w_iov is in the pool, netmap finds no other buffer; if all of them are, each
\* extra buffer is in the list.  With an empty pool, only the head of the list is
\* known to be a buffer of no ring.
ExtraSound ==
    AppIdle =>
      LET inRings == {bidx[h] : h \in Holder \ {IovH(v) : v \in Iov}}
          found == Range(ExtraBufs) \cup (ExtraAfter \ {0})
      IN  /\ IsInjective(ExtraBufs) /\ Range(ExtraBufs) \cap inRings = {}
          /\ pool # <<>> => found \cap inRings = {}
          /\ Len(pool) = NBufs => Range(ExtraBufs) \cup inRings = Range(bidx)

\* eth_tx_and_free() returns: the NIC sends what is queued, so w_nic_tx() gives v
\* the buffer orig_idx back.  This is for an application that leaves the w_iovs in
\* a TX ring alone (AppWaits); for another one it is false: the buffer of a frame
\* that v still has in a ring comes back first, and the loop waits for ever.
EthTxAndFreeReturns == (wait.v # None) ~> (wait.v = None)

\* What warpcore.c says of a spare w_iov, "Needs to be returned to w->iov via
\* sq_insert_head() or sq_concat()", applied to the w_iovs udp_rx() takes:
\* reception never loses one.
NoIovLost == dropped = {}

\* What eth.c says of eth_tx_and_free(), "send the packet, and make sure it went
\* out before returning": the frame it waits for was put into a TX ring.
FrameQueued == wait.v # None => wait.slot # None

\* What eth.c says of eth_tx_and_free(), "Wait until @p v has been transmitted":
\* once no slot has a frame of v, w_nic_tx() is not called again.
WaitEnds ==
    wait.v # None /\ wait.slot # None /\ wait.synced
      /\ ~Reclaiming /\ ~InFlight(wait.v) =>
        bidx[IovH(wait.v)] = wait.orig

\* What backend_netmap.c says of w_nic_rx(), "Whether any data is ready for
\* reading": a call that gave a socket a datagram does not return false.
RxReported ==
    [][nicrx.at # "off" /\ nicrx'.at = "off" => (nicrx.got => nicrx.rx)]_vars

\* What backend_netmap.c says of w_nic_tx(), "move any transmitted data back into
\* the original w_iovs": a w_iov that is not in flight has the buffer that its
\* v->base points to.
DataMovedBack == \A v \in Iov : ~InFlight(v) => base[v] = bidx[IovH(v)]

\* What backend_netmap.c says of backend_cleanup(), "returns all w_iov structures
\* associated the engine to netmap": the list holds the buffer of every w_iov.
CleanupReturnsAll == AppIdle => Len(ExtraBufs) = NBufs

\* What backend_netmap.c says of the same list, "so netmap can free the memory": it
\* ends.
CleanupListEnds == AppIdle => ExtraAfter = {0}

\* w_tx() returns although it retries while the rings are full.  As above this
\* needs AppWaits: the query for a neighbor that udp_tx() has to look up goes
\* through eth_tx_and_free().
TxReturns == (tosend # {}) ~> (tosend = {})
=============================================================================
