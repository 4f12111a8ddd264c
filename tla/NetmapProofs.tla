---------------------------- MODULE NetmapProofs ----------------------------
(***************************************************************************)
(* What holds of Netmap for every number of buffers, rings and slots.      *)
(***************************************************************************)
EXTENDS Netmap, TLAPS

-----------------------------------------------------------------------------
(* Queues.                                                                 *)

\* What a sequence is made of, and its head and tail.
LEMMA SeqParts ==
    ASSUME NEW S, NEW s \in Seq(S)
    PROVE  /\ DOMAIN s = 1 .. Len(s) /\ Len(s) \in Nat /\ s \in [1 .. Len(s) -> S]
           /\ s # <<>> => /\ Len(s) > 0 /\ Head(s) = s[1] /\ Head(s) \in S
                          /\ Tail(s) \in Seq(S) /\ Len(Tail(s)) = Len(s) - 1
                          /\ \A k \in 1 .. Len(s) - 1 : Tail(s)[k] = s[k + 1]
  <1>1. DOMAIN s = 1 .. Len(s) /\ Len(s) \in Nat /\ s \in [1 .. Len(s) -> S]
    OBVIOUS
  <1>2. ASSUME s # <<>>
        PROVE  /\ Len(s) > 0 /\ Head(s) = s[1] /\ Head(s) \in S
               /\ Tail(s) \in Seq(S) /\ Len(Tail(s)) = Len(s) - 1
               /\ \A k \in 1 .. Len(s) - 1 : Tail(s)[k] = s[k + 1]
    <2>1. Len(s) > 0
      BY <1>2
    <2>2. Head(s) = s[1] /\ Head(s) \in S
      BY <1>2
    <2>3. Tail(s) \in Seq(S) /\ Len(Tail(s)) = Len(s) - 1
      BY <1>2
    <2>4. \A k \in 1 .. Len(s) - 1 : Tail(s)[k] = s[k + 1]
      BY <1>2
    <2> QED
      BY Zenon, <2>1, <2>2, <2>3, <2>4
  <1> QED
    BY Zenon, <1>1, <1>2

\* The queue operations of warpcore stay within sequences of w_iovs.
LEMMA SeqTypes ==
    ASSUME NEW S, NEW s \in Seq(S), NEW x \in S
    PROVE  /\ s # <<>> => Head(s) \in S /\ Tail(s) \in Seq(S)
           /\ Len(s) > 1 => Tail(s) # <<>>
           /\ Append(s, x) \in Seq(S)
           /\ <<x>> \o s \in Seq(S) /\ s \o <<x>> \in Seq(S)
  <1>1. s # <<>> => Head(s) \in S /\ Tail(s) \in Seq(S)
    OBVIOUS
  <1>2. Len(s) > 1 => Tail(s) # <<>>
    <2> SUFFICES ASSUME Len(s) > 1, Tail(s) = <<>> PROVE FALSE
      BY Zenon
    <2>1. s # <<>> /\ Len(<<>>) = 0
      OBVIOUS
    <2>2. Len(Tail(s)) = Len(s) - 1
      BY Zenon, <2>1, SeqParts
    <2>3. Len(Tail(s)) = 0
      BY <2>1, Zenon
    <2> DEFINE n == Len(s)
               m == Len(Tail(s))
    <2>4. n \in Nat /\ n > 1 /\ m = n - 1 /\ m = 0
      BY Zenon, <2>2, <2>3, SeqParts
    <2> HIDE DEF n, m
    <2> QED
      BY <2>4
  <1>3. Append(s, x) \in Seq(S)
    OBVIOUS
  <1>4. <<x>> \in Seq(S)
    OBVIOUS
  <1>5. <<x>> \o s \in Seq(S) /\ s \o <<x>> \in Seq(S)
    BY <1>4
  <1> QED
    BY Zenon, <1>1, <1>2, <1>3, <1>5

\* Taking the head of a queue without duplicates takes that w_iov only.
LEMMA PopFacts ==
    ASSUME NEW S, NEW q \in Seq(S), q # <<>>, IsInjective(q)
    PROVE  /\ Head(q) \in Range(q) /\ Head(q) \notin Range(Tail(q))
           /\ Range(q) = Range(Tail(q)) \cup {Head(q)}
           /\ IsInjective(Tail(q))
  <1>1. /\ q \in [1 .. Len(q) -> S] /\ Len(q) \in Nat \ {0} /\ DOMAIN q = 1 .. Len(q)
        /\ Head(q) = q[1]
    BY SeqParts
  <1>2. /\ Tail(q) \in Seq(S) /\ Len(Tail(q)) = Len(q) - 1
        /\ \A k \in 1 .. Len(q) - 1 : Tail(q)[k] = q[k + 1]
    BY Zenon, SeqParts
  <1>3. DOMAIN Tail(q) = 1 .. Len(q) - 1
    BY <1>2
  <1> DEFINE t == Tail(q)
  <1> HIDE DEF t
  <1>4. IsInjective(t) /\ q[1] \notin Range(t)
    BY <1>1, <1>2, <1>3 DEF IsInjective, Range, t
  <1>5. ASSUME NEW x \in Range(q) PROVE x \in Range(t) \cup {q[1]}
    <2>1. PICK k \in 1 .. Len(q) : x = q[k]
      BY Zenon, <1>1 DEF Range
    <2>2. CASE k = 1
      BY Zenon, <2>1, <2>2
    <2>3. CASE k # 1
      <3>1. k - 1 \in DOMAIN t /\ t[k - 1] = x
        BY <1>1, <1>2, <1>3, <2>1, <2>3 DEF t
      <3> QED
        BY Zenon, <3>1 DEF Range
    <2> QED
      BY Zenon, <2>2, <2>3
  <1>6. Range(t) \cup {q[1]} \subseteq Range(q)
    BY <1>1, <1>2, <1>3 DEF Range, t
  <1> QED
    BY Zenon, <1>1, <1>4, <1>5, <1>6 DEF t

\* A w_iov put at either end of a queue that does not hold it.
LEMMA PushFacts ==
    ASSUME NEW S, NEW q \in Seq(S), NEW x \in S
    PROVE  /\ Range(<<x>> \o q) = Range(q) \cup {x}
           /\ Range(q \o <<x>>) = Range(q) \cup {x}
           /\ IsInjective(q) /\ x \notin Range(q) =>
                IsInjective(<<x>> \o q) /\ IsInjective(q \o <<x>>)
           /\ Append(q, x) = q \o <<x>>
  <1>1. /\ DOMAIN q = 1 .. Len(q) /\ Len(q) \in Nat
        /\ <<x>> \in Seq(S) /\ Len(<<x>>) = 1 /\ <<x>>[1] = x
    OBVIOUS
  <1> DEFINE a == <<x>> \o q
             b == q \o <<x>>
  <1>2. /\ a \in Seq(S) /\ Len(a) = Len(q) + 1
        /\ \A k \in 1 .. Len(q) + 1 : a[k] = IF k = 1 THEN x ELSE q[k - 1]
    BY <1>1
  <1>3. /\ b \in Seq(S) /\ Len(b) = Len(q) + 1
        /\ \A k \in 1 .. Len(q) + 1 : b[k] = IF k <= Len(q) THEN q[k] ELSE x
    BY <1>1
  <1>4. Append(q, x) = b
    OBVIOUS
  <1>5. DOMAIN a = 1 .. Len(q) + 1 /\ DOMAIN b = 1 .. Len(q) + 1
    BY <1>2, <1>3
  <1> HIDE DEF a, b
  <1>6. Range(b) = Range(q) \cup {x}
    BY <1>1, <1>3, <1>5 DEF Range
  <1>7. Range(a) = Range(q) \cup {x}
    <2>1. ASSUME NEW y \in Range(a) PROVE y \in Range(q) \cup {x}
      <3>1. PICK k \in 1 .. Len(q) + 1 : y = a[k]
        BY Zenon, <1>5 DEF Range
      <3>2. k # 1 => y = q[k - 1] /\ k - 1 \in DOMAIN q
        BY <1>1, <1>2, <3>1
      <3>3. k = 1 => y = x
        BY Zenon, <1>1, <1>2, <3>1
      <3> QED
        BY Zenon, <3>2, <3>3 DEF Range
    <2>2. \A k \in 1 .. Len(q) : a[k + 1] = q[k] /\ k + 1 \in DOMAIN a
      BY <1>1, <1>2, <1>5
    <2>3. a[1] = x /\ 1 \in DOMAIN a
      BY <1>1, <1>2, <1>5
    <2>4. \A y \in Range(q) : y \in Range(a)
      BY <1>1, <2>2 DEF Range
    <2>5. x \in Range(a)
      BY Zenon, <2>3 DEF Range
    <2> QED
      BY Zenon, <2>1, <2>4, <2>5
  <1>8. ASSUME IsInjective(q), x \notin Range(q)
        PROVE  IsInjective(a) /\ IsInjective(b)
    <2>1. \A k \in 2 .. Len(q) + 1 : k - 1 \in DOMAIN q /\ a[k] = q[k - 1] /\ a[k] # x
      BY <1>1, <1>2, <1>8 DEF Range
    <2>2. a[1] = x
      BY <1>1, <1>2
    <2>3. IsInjective(a)
      <3> SUFFICES ASSUME NEW k \in 1 .. Len(q) + 1, NEW m \in 1 .. Len(q) + 1,
                          a[k] = a[m], k # m
                   PROVE  FALSE
        BY Zenon, <1>5 DEF IsInjective
      <3>1. k # 1 /\ m # 1
        BY <1>1, <2>1, <2>2
      <3>2. q[k - 1] = q[m - 1] /\ k - 1 \in DOMAIN q /\ m - 1 \in DOMAIN q
        BY <1>1, <2>1, <3>1
      <3>3. k - 1 = m - 1
        BY Zenon, <1>8, <3>2 DEF IsInjective
      <3> QED
        BY <1>1, <3>3
    <2>4. IsInjective(b)
      BY <1>1, <1>3, <1>5, <1>8 DEF IsInjective, Range
    <2> QED
      BY Zenon, <2>3, <2>4
  <1> QED
    BY Zenon, <1>4, <1>6, <1>7, <1>8 DEF a, b

-----------------------------------------------------------------------------
(* Distances around a ring.                                                *)

\* How many steps of RingNext lead from a to b in a ring of n.
Dist(a, b, n) == IF a <= b THEN b - a ELSE b - a + n

\* RingNext, the model of nm_ring_next(), stays within the ring.
LEMMA RingNextType ==
    ASSUME NEW n \in Nat \ {0, 1}, NEW a \in 0 .. n - 1
    PROVE  RingNext(a, n) \in 0 .. n - 1 /\ RingNext(a, n) # a
  BY DEF RingNext

\* Cyc(a, b, n), the slots that TxWindow speaks of, are those closer to a than b.
LEMMA CycDist ==
    ASSUME NEW n \in Nat \ {0, 1}, NEW a \in 0 .. n - 1, NEW b \in 0 .. n - 1,
           NEW x \in 0 .. n - 1
    PROVE  x \in Cyc(a, b, n) <=> Dist(a, x, n) < Dist(a, b, n)
  BY SMTT(60) DEF Cyc, Dist

\* The pointers of a TX ring.  Counted from the oldest slot that is not reclaimed
\* yet, tail comes before what the NIC has sent, that before what the kernel has
\* taken, and that before cur.
Ordered(bt, tl, dn, sb, cr, n) ==
    /\ Dist(bt, tl, n) <= Dist(bt, dn, n)
    /\ Dist(bt, dn, n) <= Dist(RingNext(bt, n), sb, n)
    /\ Dist(RingNext(bt, n), sb, n) <= Dist(RingNext(bt, n), cr, n)

\* Slot j is between the oldest slot that is not reclaimed and cur.
Within(j, bt, cr, n) == Dist(RingNext(bt, n), j, n) < Dist(RingNext(bt, n), cr, n)

\* What sending, syncing, queueing and reclaiming one frame do to the order.
LEMMA OrderedSteps ==
    ASSUME NEW n \in Nat \ {0, 1}, NEW bt \in 0 .. n - 1, NEW tl \in 0 .. n - 1,
           NEW dn \in 0 .. n - 1, NEW sb \in 0 .. n - 1, NEW cr \in 0 .. n - 1,
           Ordered(bt, tl, dn, sb, cr, n)
    PROVE  /\ RingNext(dn, n) # sb => Ordered(bt, tl, RingNext(dn, n), sb, cr, n)
           /\ Ordered(bt, dn, dn, cr, cr, n)
           /\ bt # cr => Ordered(bt, tl, dn, sb, RingNext(cr, n), n)
           /\ bt # tl => Ordered(RingNext(bt, n), tl, dn, sb, cr, n)
  BY SMTT(60) DEF Ordered, Dist, RingNext

\* What queueing and reclaiming do to the slots in use.
LEMMA WithinSteps ==
    ASSUME NEW n \in Nat \ {0, 1}, NEW bt \in 0 .. n - 1, NEW cr \in 0 .. n - 1,
           NEW j \in 0 .. n - 1
    PROVE  /\ bt # cr => (Within(j, bt, RingNext(cr, n), n)
                            <=> j = cr \/ Within(j, bt, cr, n))
           /\ RingNext(bt, n) # cr
                => (Within(j, RingNext(bt, n), cr, n)
                      <=> j # RingNext(bt, n) /\ Within(j, bt, cr, n))
           /\ ~Within(cr, bt, cr, n)
           /\ RingNext(bt, n) # cr => Within(RingNext(bt, n), bt, cr, n)
  BY DEF Within, Dist, RingNext

\* A slot that the kernel gave back is in use.
LEMMA TailWithin ==
    ASSUME NEW n \in Nat \ {0, 1}, NEW bt \in 0 .. n - 1, NEW tl \in 0 .. n - 1,
           NEW dn \in 0 .. n - 1, NEW sb \in 0 .. n - 1, NEW cr \in 0 .. n - 1,
           Ordered(bt, tl, dn, sb, cr, n), bt # tl
    PROVE  RingNext(bt, n) # cr
  BY SMTT(60) DEF Ordered, Dist, RingNext

-----------------------------------------------------------------------------
(* Holders and swaps.                                                      *)

\* v->idx and the buf_idx of every slot are different places.
LEMMA HolderFacts ==
    /\ \A v \in Iov : IovH(v) \in Holder
    /\ \A r \in TxRing, j \in TxSlot : TxH(r, j) \in Holder
    /\ \A r \in RxRing, j \in RxSlot : RxH(r, j) \in Holder
    /\ \A v, w \in Iov : IovH(v) = IovH(w) => v = w
    /\ \A r, q, j, k : TxH(r, j) = TxH(q, k) => r = q /\ j = k
    /\ \A v, r, j : IovH(v) # TxH(r, j)
    /\ \A v, r, j : IovH(v) # RxH(r, j)
    /\ \A r, j, q, k : TxH(r, j) # RxH(q, k)
  BY DEF Holder, IovH, TxH, RxH

\* Swapping two indices loses none: the heart of BufConservation.
LEMMA SwapFacts ==
    ASSUME bidx \in [Holder -> Buf], NEW g \in Holder, NEW h \in Holder
    PROVE  /\ Swap(g, h) \in [Holder -> Buf]
           /\ Swap(g, h)[g] = bidx[h] /\ Swap(g, h)[h] = bidx[g]
           /\ \A k \in Holder : k # g /\ k # h => Swap(g, h)[k] = bidx[k]
           /\ IsInjective(bidx) => IsInjective(Swap(g, h))
  <1> DEFINE f == Swap(g, h)
  <1>1. /\ f \in [Holder -> Buf] /\ f[g] = bidx[h] /\ f[h] = bidx[g]
        /\ \A k \in Holder : k # g /\ k # h => f[k] = bidx[k]
    BY Zenon DEF Swap
  <1> HIDE DEF f
  <1>2. ASSUME IsInjective(bidx), NEW x \in Holder, NEW y \in Holder, f[x] = f[y]
        PROVE  x = y
    BY Zenon, <1>1, <1>2 DEF IsInjective
  <1>3. IsInjective(bidx) => IsInjective(f)
    BY Zenon, <1>1, <1>2 DEF IsInjective
  <1> QED
    BY Zenon, <1>1, <1>3 DEF f

-----------------------------------------------------------------------------
(* The rings: types, and the order of the pointers of each TX ring.        *)

\* The types of what a TX ring is made of.
TxType ==
    /\ bidx \in [Holder -> Buf]
    /\ slot_buf \in [TxRing -> [TxSlot -> Iov \cup {None}]]
    /\ txcur \in [TxRing -> TxSlot] /\ hwsub \in [TxRing -> TxSlot]
    /\ txtail \in [TxRing -> TxSlot] /\ btail \in [TxRing -> TxSlot]
    /\ hwdone \in [TxRing -> TxSlot] /\ cur_txr \in TxRing

\* The pointers of TX ring r, in their order around the ring from b->tail on.
Order(r) == Ordered(btail[r], txtail[r], hwdone[r], hwsub[r], txcur[r], TxN)

\* TxWindow for one ring.
Window(r) == \A j \in TxSlot :
               slot_buf[r][j] # None <=> Within(j, btail[r], txcur[r], TxN)

\* Both hold for the rings of a NIC; a pipe reclaims nothing.
RingInv == ~Pipe => \A r \in TxRing : Order(r) /\ Window(r)

\* The inductive invariant of the rings.
RingCore == TxType /\ BufConservation /\ RingInv

\* All that RingCore speaks of.
ringAll == <<bidx, ringVars, syncVars, btail, hwdone>>

\* A step that touches no TX ring and no index preserves the core.
LEMMA RingCoreUnchanged == RingCore /\ UNCHANGED ringAll => RingCore'
  BY Zenon DEF RingCore, ringAll, ringVars, syncVars, TxType, BufConservation, RingInv,
         Order, Window, IsInjective

\* TxWindow, stated with distances from b->tail, is the property of that name.
LEMMA RingCoreWindow == RingCore => TxWindow
  <1> SUFFICES ASSUME RingCore, ~Pipe, NEW r \in TxRing
               PROVE  {j \in TxSlot : slot_buf[r][j] # None} = Queued(r)
    BY Zenon DEF TxWindow
  <1> DEFINE o == RingNext(btail[r], TxN)
  <1>1. /\ TxN \in Nat \ {0, 1} /\ TxSlot = 0 .. TxN - 1
        /\ o \in TxSlot /\ txcur[r] \in TxSlot
    BY Zenon, SizesAssumption, RingNextType DEF RingCore, TxType, TxSlot
  <1>2. Queued(r) \subseteq TxSlot
    BY <1>1 DEF Queued, Cyc
  <1>3. \A j \in TxSlot : slot_buf[r][j] # None <=> j \in Queued(r)
    BY Zenon, <1>1, CycDist DEF RingCore, RingInv, Window, Within, Queued
  <1> QED
    BY Zenon, <1>2, <1>3

\* Each TX ring variable of a ring is a slot, and so is the slot after it.
LEMMA TxTypes ==
    ASSUME TxType, NEW r \in TxRing
    PROVE  /\ TxN \in Nat \ {0, 1} /\ TxSlot = 0 .. TxN - 1
           /\ btail[r] \in 0 .. TxN - 1 /\ txtail[r] \in 0 .. TxN - 1
           /\ hwdone[r] \in 0 .. TxN - 1 /\ hwsub[r] \in 0 .. TxN - 1
           /\ txcur[r] \in 0 .. TxN - 1
           /\ \A j \in 0 .. TxN - 1 : RingNext(j, TxN) \in 0 .. TxN - 1
  BY Zenon, SizesAssumption, RingNextType DEF TxType, TxSlot

\* NIOCTXSYNC publishes hwdone as tail and takes everything up to cur.
LEMMA RingCoreSync ==
    ASSUME RingCore, NIOCTXSYNC, UNCHANGED <<bidx, ringVars, btail, hwdone>>
    PROVE  RingCore'
  <1>1. TxType' /\ BufConservation'
    BY Zenon DEF RingCore, TxType, BufConservation, IsInjective, NIOCTXSYNC, ringVars
  <1>2. ASSUME ~Pipe, NEW r \in TxRing PROVE Order(r)' /\ Window(r)'
    <2>1. Order(r) /\ Window(r)
      BY Zenon, <1>2 DEF RingCore, RingInv
    <2>2. Ordered(btail[r], hwdone[r], hwdone[r], txcur[r], txcur[r], TxN)
      BY Zenon, <2>1, TxTypes, OrderedSteps DEF RingCore, Order
    <2> QED
      BY Zenon, <2>1, <2>2 DEF Order, Window, NIOCTXSYNC, ringVars
  <1> QED
    BY Zenon, <1>1, <1>2 DEF RingCore, RingInv

\* The NIC never runs past the slots the kernel has taken.
LEMMA RingCoreSend ==
    ASSUME RingCore, NEW q \in TxRing, NicSend(q)
    PROVE  RingCore'
  <1>1. TxType' /\ BufConservation'
    BY ZenonT(60), TxTypes DEF RingCore, TxType, BufConservation, IsInjective, NicSend, ringVars,
                   syncVars, bufVars
  <1>2. ASSUME ~Pipe, NEW r \in TxRing PROVE Order(r)' /\ Window(r)'
    <2>1. Order(r) /\ Window(r)
      BY Zenon, <1>2 DEF RingCore, RingInv
    <2>2. /\ UNCHANGED <<btail, txtail, hwsub, txcur, slot_buf>>
          /\ hwdone'[r] = IF r = q THEN RingNext(hwdone[r], TxN) ELSE hwdone[r]
          /\ r = q => RingNext(hwdone[r], TxN) # hwsub[r]
      BY Zenon DEF NicSend, RingCore, TxType, ringVars, syncVars
    <2>3. r = q => Ordered(btail[r], txtail[r], RingNext(hwdone[r], TxN), hwsub[r],
                           txcur[r], TxN)
      BY Zenon, <2>1, <2>2, TxTypes, OrderedSteps DEF RingCore, Order
    <2> QED
      BY Zenon, <2>1, <2>2, <2>3 DEF Order, Window
  <1> QED
    BY Zenon, <1>1, <1>2 DEF RingCore, RingInv

\* eth_tx() uses a slot that is not in use, and swaps its index with v's.
LEMMA RingCoreEthTx ==
    ASSUME RingCore, ~Reclaiming, NEW v \in Iov, NEW q \in TxRing, EthTx(v, q),
           UNCHANGED <<syncVars, btail, hwdone>>
    PROVE  RingCore'
  <1>0. TxType /\ IsInjective(bidx) /\ txcur[q] \in TxSlot
    BY Zenon DEF RingCore, TxType, BufConservation
  <1>1. bidx' \in [Holder -> Buf] /\ IsInjective(bidx')
    BY Zenon, <1>0, HolderFacts, SwapFacts DEF EthTx, TxType
  <1>2. TxType'
    BY ZenonT(60), <1>0, <1>1, TxTypes DEF EthTx, TxType, syncVars
  <1>3. ASSUME ~Pipe, NEW r \in TxRing PROVE Order(r)' /\ Window(r)'
    <2>1. Order(r) /\ Window(r)
      BY Zenon, <1>3 DEF RingCore, RingInv
    <2>2. btail[q] = txtail[q] /\ txtail[q] # txcur[q]
      BY Zenon, <1>3 DEF Reclaiming, EthTx, TxEmpty
    <2>3. /\ UNCHANGED <<btail, txtail, hwsub, hwdone>>
          /\ txcur'[r] = IF r = q THEN RingNext(txcur[r], TxN) ELSE txcur[r]
          /\ \A j \in TxSlot :
               slot_buf'[r][j] = IF r = q /\ j = txcur[q] THEN v ELSE slot_buf[r][j]
      BY Zenon, <1>0 DEF EthTx, TxType, syncVars
    <2>4. r = q => Order(r)'
      <3> SUFFICES ASSUME r = q
                   PROVE  Ordered(btail[q], txtail[q], hwdone[q], hwsub[q],
                                  RingNext(txcur[q], TxN), TxN)
        BY ZenonT(60), <2>3 DEF Order
      <3> QED
        BY Zenon, <1>0, <2>1, <2>2, TxTypes, OrderedSteps DEF Order
    <2>5. r = q => Window(r)'
      <3> SUFFICES ASSUME r = q, NEW j \in TxSlot
                   PROVE  slot_buf'[r][j] # None
                            <=> Within(j, btail[r], RingNext(txcur[r], TxN), TxN)
        BY Zenon, <2>3 DEF Window
      <3>1. Within(j, btail[r], RingNext(txcur[r], TxN), TxN)
              <=> j = txcur[r] \/ Within(j, btail[r], txcur[r], TxN)
        BY Zenon, <1>0, <2>2, TxTypes, WithinSteps
      <3>2. v # None
        BY Zenon, ValuesAssumption
      <3> QED
        BY Zenon, <2>1, <2>3, <3>1, <3>2 DEF Window
    <2> QED
      BY Zenon, <2>1, <2>3, <2>4, <2>5 DEF Order, Window
  <1> QED
    BY Zenon, <1>1, <1>2, <1>3 DEF RingCore, RingInv, BufConservation

\* w_nic_tx() finds a w_iov in each slot it reclaims.
LEMMA ReclaimedIov ==
    ASSUME RingCore, ~Pipe, NEW r \in TxRing, btail[r] # txtail[r]
    PROVE  /\ RingNext(btail[r], TxN) \in TxSlot
           /\ RingNext(btail[r], TxN) # txcur[r]
           /\ slot_buf[r][RingNext(btail[r], TxN)] \in Iov
  <1>1. TxType /\ Order(r) /\ Window(r)
    BY Zenon DEF RingCore, RingInv
  <1>2. RingNext(btail[r], TxN) \in TxSlot /\ RingNext(btail[r], TxN) # txcur[r]
    BY Zenon, <1>1, TxTypes, TailWithin DEF Order
  <1>3. slot_buf[r][RingNext(btail[r], TxN)] # None
    BY Zenon, <1>1, <1>2, TxTypes, WithinSteps DEF Window
  <1> QED
    BY Zenon, <1>1, <1>2, <1>3 DEF TxType

\* w_nic_tx() reclaims the oldest slot in use and gives its buffer back.
LEMMA RingCoreReclaim == ASSUME RingCore, Reclaim PROVE RingCore'
  <1>0. TxType /\ IsInjective(bidx) /\ ~Pipe
    BY Zenon DEF RingCore, BufConservation, Reclaim
  <1>1. PICK q \in TxRing :
          LET k == RingNext(btail[q], TxN) IN
            /\ btail[q] # txtail[q]
            /\ bidx' = Swap(IovH(slot_buf[q][k]), TxH(q, k))
            /\ slot_buf' = [slot_buf EXCEPT ![q][k] = None]
            /\ btail' = [btail EXCEPT ![q] = k]
            /\ UNCHANGED <<txcur, cur_txr, syncVars, hwdone>>
    BY ZenonT(60) DEF Reclaim, SlotCleared
  <1> DEFINE k == RingNext(btail[q], TxN)
  <1>2. k \in TxSlot /\ k # txcur[q] /\ slot_buf[q][k] \in Iov
    BY Zenon, <1>0, <1>1, ReclaimedIov
  <1>3. bidx' \in [Holder -> Buf] /\ IsInjective(bidx')
    BY ZenonT(60), <1>0, <1>1, <1>2, HolderFacts, SwapFacts DEF TxType
  <1>4. TxType'
    BY Zenon, <1>0, <1>1, <1>2, <1>3 DEF TxType, syncVars
  <1>5. ASSUME NEW r \in TxRing PROVE Order(r)' /\ Window(r)'
    <2>1. Order(r) /\ Window(r)
      BY Zenon, <1>0 DEF RingCore, RingInv
    <2>2. /\ UNCHANGED <<txcur, txtail, hwsub, hwdone>>
          /\ btail'[r] = IF r = q THEN k ELSE btail[r]
          /\ \A j \in TxSlot :
               slot_buf'[r][j] = IF r = q /\ j = k THEN None ELSE slot_buf[r][j]
      BY Zenon, <1>0, <1>1, <1>2 DEF TxType, syncVars
    <2>3. r = q => Order(r)'
      <3> SUFFICES ASSUME r = q
                   PROVE  Ordered(k, txtail[q], hwdone[q], hwsub[q], txcur[q], TxN)
        BY ZenonT(60), <2>2 DEF Order
      <3> QED
        BY Zenon, <1>0, <1>1, <2>1, TxTypes, OrderedSteps DEF Order
    <2>4. r = q => Window(r)'
      <3> SUFFICES ASSUME r = q, NEW j \in TxSlot
                   PROVE  slot_buf'[r][j] # None <=> Within(j, k, txcur[r], TxN)
        BY Zenon, <2>2 DEF Window
      <3>1. Within(j, k, txcur[r], TxN)
              <=> j # k /\ Within(j, btail[r], txcur[r], TxN)
        BY Zenon, <1>0, <1>2, TxTypes, WithinSteps
      <3> QED
        BY Zenon, <2>1, <2>2, <3>1 DEF Window
    <2> QED
      BY Zenon, <2>1, <2>2, <2>3, <2>4 DEF Order, Window
  <1> QED
    BY Zenon, <1>3, <1>4, <1>5 DEF RingCore, RingInv, BufConservation

\* udp_rx() swaps the index of a spare w_iov with that of an RX slot.
LEMMA RingCoreRx ==
    ASSUME RingCore, NEW i \in Iov, NEW r \in RxRing, NEW j \in RxSlot,
           bidx' = Swap(IovH(i), RxH(r, j)),
           UNCHANGED <<ringVars, syncVars, btail, hwdone>>
    PROVE  RingCore'
  <1>1. bidx' \in [Holder -> Buf] /\ IsInjective(bidx')
    BY Zenon, HolderFacts, SwapFacts DEF RingCore, TxType, BufConservation
  <1> QED
    BY Zenon, <1>1 DEF RingCore, ringVars, syncVars, TxType, BufConservation, RingInv,
                Order, Window

-----------------------------------------------------------------------------
(* The queues.                                                             *)

\* Where w_nic_rx() is, and what eth_tx_and_free() waits for.
NicRxType == [at : {"off", "poll", "loop"}, ring : RxRing, rx : BOOLEAN,
              got : BOOLEAN, block : BOOLEAN]
WaitType == [v : Iov \cup {None}, orig : Buf \cup {None},
             slot : (TxRing \X TxSlot) \cup {None}, synced : BOOLEAN]

\* The types of all else.
RestType ==
    /\ base \in [Iov -> Buf]
    /\ rxcur \in [RxRing -> RxSlot] /\ rxtail \in [RxRing -> RxSlot]
    /\ pool \in Seq(Iov) /\ iv \in [Sock -> Seq(Iov)]
    /\ app \subseteq Iov /\ dropped \subseteq Iov /\ open \subseteq Sock
    /\ tosend \subseteq Iov /\ txv \in Iov \cup {None}
    /\ who \in {"find", "query", "rx"}
    /\ nicrx \in NicRxType /\ wait \in WaitType

\* The type invariant is proved in two halves: TX rings, and all else.
LEMMA TypeSplit == TypeOK <=> TxType /\ RestType
  BY Zenon DEF TypeOK, TxType, RestType, NicRxType, WaitType

\* The w_iov that eth_tx_and_free() waits for.
LEMMA WaitFor == ASSUME NEW v, EthTxAndFree(v) PROVE wait'.v = v
  BY SMTT(60) DEF EthTxAndFree

\* eth_tx_and_free(), whether it finds a slot or not.
LEMMA EthTxAndFreeFacts ==
    ASSUME RingCore, ~Reclaiming, NEW v \in Iov, EthTxAndFree(v),
           UNCHANGED <<syncVars, btail, hwdone>>
    PROVE  /\ RingCore'
           /\ wait'.v = v
           /\ wait' \in WaitType
  <1>1. bidx[IovH(v)] \in Buf /\ \A r \in TxRing : txcur[r] \in TxSlot
    BY Zenon, HolderFacts DEF RingCore, TxType
  <1>2. CASE \E r \in TxRing :
               /\ EthTx(v, r)
               /\ wait' = [v |-> v, orig |-> OrigIdx(v),
                           slot |-> <<r, txcur[r]>>, synced |-> FALSE]
    <2>1. PICK r \in TxRing :
               /\ EthTx(v, r)
               /\ wait' = [v |-> v, orig |-> OrigIdx(v),
                           slot |-> <<r, txcur[r]>>, synced |-> FALSE]
      BY Zenon, <1>2
    <2>2. RingCore'
      BY Zenon, <2>1, RingCoreEthTx
    <2> QED
      BY Zenon, <1>1, <2>1, <2>2 DEF OrigIdx, WaitType
  <1>3. CASE /\ UNCHANGED <<bidx, ringVars>>
             /\ wait' = [v |-> v, orig |-> OrigIdx(v),
                         slot |-> None, synced |-> FALSE]
    BY Zenon, <1>1, <1>3, RingCoreUnchanged DEF OrigIdx, WaitType, ringAll
  <1> QED
    BY Zenon, <1>2, <1>3 DEF EthTxAndFree

\* Every step but the ones of the lemmas above leaves the TX rings alone.
LEMMA RingCoreNext == ASSUME RingCore, RestType, [Next]_vars PROVE RingCore'
  <1> USE DEF ringAll
  <1>1. CASE UNCHANGED vars
    BY Zenon, <1>1, RingCoreUnchanged DEF vars, bufVars
  <1>2. CASE Call
    <2>1. CASE NicTx
      BY Zenon, <2>1, RingCoreSync DEF NicTx, bufVars
    <2>2. CASE ~NicTx
      BY Zenon, <1>2, <2>2, RingCoreUnchanged
         DEF Call, Alloc, Tx, NicRx, Free, Rx, Bind, Close, bufVars
    <2> QED
      BY Zenon, <2>1, <2>2
  <1>3. CASE Reclaim
    BY Zenon, <1>3, RingCoreReclaim
  <1>4. CASE EthTxAndFreeSync \/ \E v \in Iov : UdpTxFull(v)
    BY Zenon, <1>4, RingCoreSync DEF EthTxAndFreeSync, UdpTxFull, bufVars
  <1>5. CASE EthTxAndFreeDone \/ WhoHasRx \/ RxRingDone \/ UdpRxReject \/ RxOther
                 \/ \E v \in Iov : UdpTxResolve(v)
    BY Zenon, <1>5, RingCoreUnchanged
       DEF EthTxAndFreeDone, WhoHasRx, RxRingDone, UdpRxReject, RxOther,
           UdpTxResolve, bufVars
  <1>6. CASE Poll
    <2>1. UNCHANGED <<bidx, ringVars, btail, hwdone>>
      BY Zenon, <1>6 DEF Poll, bufVars
    <2> QED
      BY Zenon, <1>6, <2>1, RingCoreSync, RingCoreUnchanged DEF Poll
  <1>7. CASE WhoHasQuery
    <2>1. UNCHANGED <<syncVars, btail, hwdone>> /\ ~Reclaiming
      BY Zenon, <1>7 DEF WhoHasQuery, NoNicRx, NoEthTx
    <2>2. CASE pool = <<>>
      BY Zenon, <1>7, <2>1, <2>2, RingCoreUnchanged DEF WhoHasQuery
    <2>3. CASE pool # <<>>
      <3>1. Head(pool) \in Iov
        BY <2>3 DEF RestType
      <3>2. EthTxAndFree(Head(pool))
        BY Zenon, <1>7, <2>3 DEF WhoHasQuery
      <3> QED
        BY Zenon, <2>1, <3>1, <3>2, EthTxAndFreeFacts
    <2> QED
      BY Zenon, <2>2, <2>3
  <1>8. CASE UdpRxUnreach
    <2>1. /\ UNCHANGED <<syncVars, btail, hwdone>> /\ ~Reclaiming
          /\ EthTxAndFree(Head(Tail(pool)))
      BY Zenon, <1>8 DEF UdpRxUnreach, Handling, NoEthTx
    <2>2. Len(pool) > 1 /\ pool # <<>>
      BY SMTT(60), <1>8 DEF UdpRxUnreach
    <2>3. Tail(pool) \in Seq(Iov) /\ Tail(pool) # <<>>
      BY <2>2, SeqTypes DEF RestType
    <2>4. Head(Tail(pool)) \in Iov
      BY <2>3
    <2> QED
      BY Zenon, <2>1, <2>4, EthTxAndFreeFacts
  <1>9. CASE RxQuery
    <2>1. /\ UNCHANGED <<syncVars, btail, hwdone>> /\ ~Reclaiming
          /\ EthTxAndFree(Head(pool)) /\ pool # <<>>
      BY Zenon, <1>9 DEF RxQuery, Handling, NoEthTx
    <2>2. Head(pool) \in Iov
      BY SMTT(60), <2>1 DEF RestType
    <2> QED
      BY Zenon, <2>1, <2>2, EthTxAndFreeFacts
  <1>10. CASE \E s \in Sock : UdpRx(s)
    <2>1. /\ Head(pool) \in Iov /\ nicrx.ring \in RxRing
          /\ rxcur[nicrx.ring] \in RxSlot
      BY <1>10 DEF UdpRx, RestType, NicRxType
    <2> QED
      BY Zenon, <1>10, <2>1, RingCoreRx DEF UdpRx
  <1>11. CASE \E v \in Iov : UdpTxSent(v)
    BY Zenon, <1>11, RingCoreEthTx DEF UdpTxSent, Sending, NoNicRx, NoEthTx
  <1>12. CASE \E r \in TxRing : NicSend(r)
    BY Zenon, <1>12, RingCoreSend
  <1> QED
    BY Zenon, <1>1, <1>2, <1>3, <1>4, <1>5, <1>6, <1>7, <1>8, <1>9, <1>10, <1>11, <1>12
       DEF Next, Step

\* What w_nic_rx() does to its locals keeps their types.
LEMMA NicRxTypes ==
    ASSUME RestType
    PROVE  /\ nicrx.ring \in RxRing /\ rxcur[nicrx.ring] \in RxSlot
           /\ \A b \in BOOLEAN : NicRxCall(b) => nicrx' \in NicRxType
           /\ \A b \in BOOLEAN : RxDone(b) => /\ nicrx' \in NicRxType
                                             /\ rxcur' \in [RxRing -> RxSlot]
           /\ Poll \/ RxRingDone => nicrx' \in NicRxType
  <1>0. nicrx \in NicRxType /\ nicrx.ring \in RxRing /\ rxcur[nicrx.ring] \in RxSlot
    BY Zenon DEF RestType, NicRxType
  <1>1. 0 \in RxRing /\ (nicrx.ring < NRx - 1 => nicrx.ring + 1 \in RxRing)
    BY SMTT(60), <1>0, SizesAssumption DEF RxRing
  <1>2. ASSUME NEW b \in BOOLEAN, NicRxCall(b) PROVE nicrx' \in NicRxType
    BY Zenon, <1>1, <1>2 DEF NicRxCall, NicRxType
  <1>3. ASSUME NEW b \in BOOLEAN, RxDone(b)
        PROVE  nicrx' \in NicRxType /\ rxcur' \in [RxRing -> RxSlot]
    <2>1. RingNext(rxcur[nicrx.ring], RxN) \in RxSlot
      BY Zenon, <1>0, SizesAssumption, RingNextType DEF RxSlot
    <2> QED
      BY Zenon, <1>0, <1>3, <2>1 DEF RxDone, NicRxType, RestType
  <1>4. ASSUME Poll PROVE nicrx' \in NicRxType
    BY Zenon, <1>0, <1>1, <1>4 DEF Poll, NicRxType
  <1>5. ASSUME RxRingDone PROVE nicrx' \in NicRxType
    BY Zenon, <1>0, <1>1, <1>5 DEF RxRingDone, NicRxType
  <1> QED
    BY Zenon, <1>0, <1>2, <1>3, <1>4, <1>5

\* The queues and the locals of the calls keep their types.
LEMMA RestTypeNext == ASSUME RingCore, RestType, [Next]_vars PROVE RestType'
  <1> USE DEF RestType, bufVars, rxVars, queVars, txVars
  <1>0. /\ pool # <<>> => Head(pool) \in Iov /\ Tail(pool) \in Seq(Iov)
        /\ \A s \in Sock : Range(iv[s]) \subseteq Iov
    BY SMTT(60) DEF Range
  <1>1. CASE UNCHANGED vars
    BY Zenon, <1>1 DEF vars
  <1>2. CASE Alloc \/ NicTx
    BY ZenonT(60), <1>2, <1>0 DEF Alloc, NicTx
  <1>3. CASE \E q \in SUBSET app : Tx(q)
    BY Zenon, <1>3 DEF Tx
  <1>4. CASE WhoHasRx \/ \E b \in BOOLEAN : NicRx(b)
    <2>1. nicrx' \in NicRxType
      BY Zenon, <1>4, NicRxTypes DEF NicRx, WhoHasRx
    <2> QED
      BY Zenon, <1>4, <2>1 DEF NicRx, WhoHasRx
  <1>5. CASE \E v \in app : Free(v)
    <2>1. PICK v \in app : Free(v)
      BY Zenon, <1>5
    <2>2. <<v>> \o pool \in Seq(Iov) /\ pool \o <<v>> \in Seq(Iov)
      BY Zenon, <2>1, SeqTypes
    <2> QED
      BY <2>1, <2>2, Zenon DEF Free
  <1>6. CASE \E s \in Sock : Rx(s) \/ Bind(s) \/ Close(s)
    <2>1. PICK s \in Sock : Rx(s) \/ Bind(s) \/ Close(s)
      BY Zenon, <1>6
    <2>2. [iv EXCEPT ![s] = <<>>] \in [Sock -> Seq(Iov)]
      OBVIOUS
    <2> QED
      BY Zenon, <2>1, <2>2, <1>0 DEF Rx, Bind, Close
  <1>7. CASE Reclaim \/ EthTxAndFreeSync
    <2>1. wait' \in WaitType
      BY ZenonT(60), <1>7 DEF Reclaim, EthTxAndFreeSync, WaitType
    <2> QED
      BY Zenon, <1>7, <2>1 DEF Reclaim, EthTxAndFreeSync
  <1>8. CASE EthTxAndFreeDone
    <2>1. wait.v \in Iov
      BY Zenon, <1>8 DEF EthTxAndFreeDone, WaitType
    <2>2. <<wait.v>> \o pool \in Seq(Iov)
      BY Zenon, <2>1, SeqTypes
    <2>3. /\ UNCHANGED <<base, rxtail, iv, app, open, dropped, tosend, txv, who>>
          /\ pool' \in Seq(Iov) /\ wait' = NoWait
      BY Zenon, <1>8, <2>2 DEF EthTxAndFreeDone
    <2>4. /\ rxcur' \in [RxRing -> RxSlot]
          /\ nicrx' \in NicRxType
      BY Zenon, <1>8, NicRxTypes DEF EthTxAndFreeDone
    <2> QED
      BY Zenon, <2>3, <2>4 DEF NoWait, WaitType
  <1>9. CASE WhoHasQuery
    BY Zenon, <1>9, <1>0, EthTxAndFreeFacts DEF WhoHasQuery, NoNicRx, NoEthTx
  <1>10. CASE Poll \/ RxRingDone
    <2>1. nicrx' \in NicRxType
      BY Zenon, <1>10, NicRxTypes
    <2> QED
      BY Zenon, <1>10, <2>1 DEF Poll, RxRingDone
  <1>11. CASE UdpRxReject
    <2>1. pool # <<>>
      BY SMTT(60), <1>11 DEF UdpRxReject
    <2>2. nicrx' \in NicRxType /\ rxcur' \in [RxRing -> RxSlot]
      BY Zenon, <1>11, NicRxTypes DEF UdpRxReject
    <2> QED
      BY Zenon, <1>11, <2>1, <2>2, <1>0 DEF UdpRxReject
  <1>12. CASE UdpRxUnreach
    <2>1. Len(pool) > 1 /\ pool # <<>>
      BY <1>12 DEF UdpRxUnreach
    <2>2. Tail(pool) \in Seq(Iov) /\ Tail(pool) # <<>>
      BY <2>1, SeqTypes
    <2>3. Head(Tail(pool)) \in Iov /\ Tail(Tail(pool)) \in Seq(Iov)
      BY SMTT(60), <2>2
    <2> QED
      BY Zenon, <1>12, <1>0, <2>1, <2>3, EthTxAndFreeFacts
         DEF UdpRxUnreach, Handling, NoEthTx
  <1>13. CASE RxQuery
    BY Zenon, <1>13, <1>0, EthTxAndFreeFacts DEF RxQuery, Handling, NoEthTx
  <1>14. CASE RxOther
    <2>1. nicrx' \in NicRxType /\ rxcur' \in [RxRing -> RxSlot]
      BY Zenon, <1>14, NicRxTypes DEF RxOther
    <2> QED
      BY Zenon, <1>14, <2>1 DEF RxOther
  <1>15. CASE \E s \in Sock : UdpRx(s)
    <2>1. PICK s \in Sock : UdpRx(s)
      BY Zenon, <1>15
    <2>2. Append(iv[s], Head(pool)) \in Seq(Iov)
      BY Zenon, <2>1, <1>0, SeqTypes DEF UdpRx
    <2>3. bidx[RxH(nicrx.ring, rxcur[nicrx.ring])] \in Buf
      BY Zenon, HolderFacts, NicRxTypes DEF RingCore, TxType
    <2>4. nicrx' \in NicRxType /\ rxcur' \in [RxRing -> RxSlot]
      BY ZenonT(60), <2>1, NicRxTypes DEF UdpRx
    <2> QED
      BY ZenonT(60), <2>1, <1>0, <2>2, <2>3, <2>4 DEF UdpRx, RxBase
  <1>16. CASE \E v \in Iov : UdpTxSent(v) \/ UdpTxFull(v) \/ UdpTxResolve(v)
    BY Zenon, <1>16 DEF UdpTxSent, UdpTxFull, UdpTxResolve
  <1>17. CASE \E r \in TxRing : NicSend(r)
    BY ZenonT(60), <1>17 DEF NicSend
  <1> QED
    BY ZenonT(60), <1>1, <1>2, <1>3, <1>4, <1>5, <1>6, <1>7, <1>8, <1>9, <1>10, <1>11, <1>12,
       <1>13, <1>14, <1>15, <1>16, <1>17 DEF Next, Step, Call

\* The state that backend_init() sets up.
LEMMA InitFacts == ASSUME Init PROVE RingCore /\ RestType
  <1>0. /\ TxN \in Nat \ {0, 1} /\ TxN - 1 \in TxSlot /\ 0 \in TxSlot
        /\ 0 \in TxRing /\ 0 \in RxRing /\ 0 \in RxSlot
        /\ RingNext(TxN - 1, TxN) = 0
    BY SMTT(60), SizesAssumption DEF TxSlot, TxRing, RxRing, RxSlot, RingNext
  <1>1. TxType
    BY Zenon, <1>0, InitBufAssumption DEF Init, TxType
  <1>2. BufConservation
    BY Zenon, InitBufAssumption DEF Init, BufConservation
  <1>3. RingInv
    <2> SUFFICES ASSUME NEW r \in TxRing PROVE Order(r) /\ Window(r)
      BY Zenon DEF RingInv
    <2>1. /\ txcur[r] = 0 /\ hwsub[r] = 0
          /\ txtail[r] = TxN - 1 /\ hwdone[r] = TxN - 1 /\ btail[r] = TxN - 1
          /\ \A j \in TxSlot : slot_buf[r][j] = None
      BY Zenon DEF Init
    <2>2. Order(r)
      BY SMTT(60), <1>0, <2>1 DEF Order, Ordered, Dist, TxSlot
    <2>3. Window(r)
      BY <1>0, <2>1 DEF Window, Within, Dist, TxSlot
    <2> QED
      BY Zenon, <2>2, <2>3
  <1>4. pool \in Seq(Iov)
    <2>1. NBufs \in Nat /\ pool \in [1 .. NBufs -> Iov]
      BY SMTT(60), SizesAssumption DEF Init, Iov
    <2> QED
      BY SMTT(60), <2>1
  <1>5. base \in [Iov -> Buf]
    BY Zenon, InitBufAssumption, HolderFacts DEF Init
  <1>6. nicrx \in NicRxType /\ wait \in WaitType
    BY Zenon, <1>0 DEF Init, NoWait, NicRxType, WaitType
  <1>7. iv \in [Sock -> Seq(Iov)]
    BY DEF Init
  <1> QED
    BY Zenon, <1>0, <1>1, <1>2, <1>3, <1>4, <1>5, <1>6, <1>7 DEF RingCore, RestType, Init

\* The inductive invariant of the buffers: ring order, window, indices, types.
LEMMA RingInvariant == Spec => [](RingCore /\ RestType)
  <1>1. Init => RingCore /\ RestType
    BY Zenon, InitFacts
  <1>2. RingCore /\ RestType /\ [Next]_vars => (RingCore /\ RestType)'
    BY Zenon, RingCoreNext, RestTypeNext
  <1> QED
    BY <1>1, <1>2, PTL DEF Spec

\* The variables keep their types; in particular w_nic_tx() never dereferences
\* a NULL slot_buf entry, and no index leaves its ring.
THEOREM TypeCorrect == Spec => []TypeOK
  <1>1. RingCore /\ RestType => TypeOK
    BY Zenon, TypeSplit DEF RingCore
  <1> QED
    BY <1>1, RingInvariant, PTL

\* eth_tx(), w_nic_tx() and udp_rx() lose no buffer and duplicate none.
THEOREM BuffersConserved == Spec => []BufConservation
  <1>1. RingCore /\ RestType => BufConservation
    BY Zenon DEF RingCore
  <1> QED
    BY <1>1, RingInvariant, PTL

\* The slots whose slot_buf is set are the ones between b->tail and cur.
THEOREM TxWindowHolds == Spec => []TxWindow
  <1>1. RingCore /\ RestType => TxWindow
    BY Zenon, RingCoreWindow
  <1> QED
    BY <1>1, RingInvariant, PTL

-----------------------------------------------------------------------------
(* Where the w_iovs are.                                                   *)

\* The places of Places and the receive queues, as sets, hold each w_iov once.
Parts(P, V, A, W, D) ==
    /\ P \cap A = {} /\ P \cap W = {} /\ P \cap D = {}
    /\ A \cap W = {} /\ A \cap D = {} /\ W \cap D = {}
    /\ \A s \in Sock : V[s] \cap P = {} /\ V[s] \cap A = {} /\ V[s] \cap W = {}
                         /\ V[s] \cap D = {}
    /\ \A s, t \in Sock : s # t => V[s] \cap V[t] = {}
    /\ \A v \in Iov : v \in P \/ v \in A \/ v \in W \/ v \in D \/ \E s \in Sock : v \in V[s]

\* The w_iov in eth_tx_and_free(), and those in the queue of each socket.
Waiting == {wait.v} \ {None}
Received == [s \in Sock |-> Range(iv[s])]

\* The inductive invariant of the w_iovs: no queue has one twice, and no two places
\* have one in common; w_tx() sends what the application has.
PartInv ==
    /\ IsInjective(pool) /\ \A s \in Sock : IsInjective(iv[s])
    /\ Parts(Range(pool), Received, app, Waiting, dropped)
    /\ tosend \subseteq app

\* With the types, this is the property of the same meaning.
LEMMA PartMeansPartition == ASSUME RestType, PartInv PROVE IovPartition
  <1>1. /\ Places[1] = Range(pool) /\ Places[2] = app /\ Places[3] = Waiting
        /\ Places[4] = dropped /\ 1 .. 4 = {1, 2, 3, 4}
    BY DEF Places, Waiting
  <1>2. \A s \in Sock : Received[s] = Range(iv[s])
    BY Zenon DEF Received
  <1>3. \A k, m \in 1 .. 4 : k # m => Places[k] \cap Places[m] = {}
    BY SMTT(60), <1>1 DEF PartInv, Parts
  <1>4. \A s \in Sock, k \in 1 .. 4 : Range(iv[s]) \cap Places[k] = {}
    BY Zenon, <1>1, <1>2 DEF PartInv, Parts
  <1>5. \A s, t \in Sock : s # t => Range(iv[s]) \cap Range(iv[t]) = {}
    BY Zenon, <1>2 DEF PartInv, Parts
  <1>6. Range(pool) \subseteq Iov /\ \A s \in Sock : Range(iv[s]) \subseteq Iov
    BY SMTT(60) DEF RestType, Range
  <1>7. Waiting \subseteq Iov
    BY Zenon DEF RestType, WaitType, Waiting
  <1> DEFINE Q == UNION {Places[k] : k \in 1 .. 4}
             R == UNION {Range(iv[s]) : s \in Sock}
  <1>8. Q = Range(pool) \cup app \cup Waiting \cup dropped
    <2>1. Q = Places[1] \cup Places[2] \cup Places[3] \cup Places[4]
      BY Zenon, <1>1
    <2> QED
      BY ZenonT(60), <1>1, <2>1, Zenon
  <1>9. Iov = Q \cup R
    <2>1. R \subseteq Iov
      BY Zenon, <1>6
    <2>2. \A v \in Iov : v \in Q \/ v \in R
      BY SMTT(60), <1>2, <1>8 DEF PartInv, Parts
    <2> HIDE DEF Q, R
    <2> QED
      BY Zenon, <1>6, <1>7, <1>8, <2>1, <2>2 DEF RestType
  <1> QED
    BY ZenonT(60), <1>3, <1>4, <1>5, <1>9 DEF IovPartition, PartInv

\* Moving one w_iov, or all those of a receive queue, keeps each in one place.
LEMMA Moves ==
    ASSUME NEW P, NEW V, NEW A, NEW W, NEW D, Parts(P, V, A, W, D), NEW v
    PROVE  /\ v \in P => /\ Parts(P \ {v}, V, A \cup {v}, W, D)
                         /\ Parts(P \ {v}, V, A, W, D \cup {v})
                         /\ W = {} => Parts(P \ {v}, V, A, {v}, D)
           /\ v \in A => Parts(P \cup {v}, V, A \ {v}, W, D)
           /\ W = {v} => Parts(P \cup {v}, V, A, {}, D)
  <1>1. v \in P => Parts(P \ {v}, V, A \cup {v}, W, D)
    BY SMTT(60) DEF Parts
  <1>2. v \in P => Parts(P \ {v}, V, A, W, D \cup {v})
    BY SMTT(60) DEF Parts
  <1>3. v \in P /\ W = {} => Parts(P \ {v}, V, A, {v}, D)
    BY SMTT(60) DEF Parts
  <1>4. v \in A => Parts(P \cup {v}, V, A \ {v}, W, D)
    BY SMTT(60) DEF Parts
  <1>5. W = {v} => Parts(P \cup {v}, V, A, {}, D)
    BY Zenon DEF Parts
  <1> QED
    BY Zenon, <1>1, <1>2, <1>3, <1>4, <1>5

\* The moves of udp_rx(), w_rx() and w_close(): into the queue of a socket, and the
\* whole queue out of it.
LEMMA MovesReceived ==
    ASSUME NEW P, NEW V, DOMAIN V = Sock, NEW A, NEW W, NEW D, Parts(P, V, A, W, D),
           NEW t \in Sock
    PROVE  /\ \A v \in P : Parts(P \ {v}, [V EXCEPT ![t] = @ \cup {v}], A, W, D)
           /\ Parts(P, [V EXCEPT ![t] = {}], A \cup V[t], W, D)
           /\ Parts(P, [V EXCEPT ![t] = {}], A, W, D \cup V[t])
  <1>1. ASSUME NEW v \in P PROVE Parts(P \ {v}, [V EXCEPT ![t] = @ \cup {v}], A, W, D)
    <2> DEFINE Vn == [V EXCEPT ![t] = @ \cup {v}]
    <2>1. \A s \in Sock : Vn[s] = IF s = t THEN V[t] \cup {v} ELSE V[s]
      BY Zenon
    <2> HIDE DEF Vn
    <2> QED
      BY <2>1 DEF Parts
  <1> DEFINE Ve == [V EXCEPT ![t] = {}]
  <1>2. \A s \in Sock : Ve[s] = IF s = t THEN {} ELSE V[s]
    BY Zenon
  <1> HIDE DEF Ve
  <1>3. Parts(P, Ve, A \cup V[t], W, D)
    BY SMTT(60), <1>2 DEF Parts
  <1>4. Parts(P, Ve, A, W, D \cup V[t])
    BY SMTT(60), <1>2 DEF Parts
  <1> QED
    BY Zenon, <1>1, <1>3, <1>4 DEF Ve

\* Steps that leave the w_iovs where they are.
LEMMA PartStays ==
    ASSUME PartInv, UNCHANGED <<pool, iv, app, dropped>>, wait'.v = wait.v,
           tosend' \subseteq app
    PROVE  PartInv'
  BY Zenon DEF PartInv, Waiting, Received

\* The receive queue of a socket changes.
LEMMA ReceivedStep ==
    ASSUME RestType, NEW s \in Sock, NEW q \in Seq(Iov), iv' = [iv EXCEPT ![s] = q]
    PROVE  /\ Received' = [Received EXCEPT ![s] = Range(q)]
           /\ IsInjective(q) /\ (\A t \in Sock : IsInjective(iv[t]))
                => \A t \in Sock : IsInjective(iv'[t])
  BY Zenon DEF Received, RestType

\* The head of the pool, if there is one.
LEMMA PoolPop ==
    ASSUME RestType, PartInv, pool # <<>>
    PROVE  /\ Head(pool) \in Iov /\ Head(pool) \in Range(pool)
           /\ Tail(pool) \in Seq(Iov) /\ IsInjective(Tail(pool))
           /\ Range(Tail(pool)) = Range(pool) \ {Head(pool)}
  <1>1. pool \in Seq(Iov) /\ IsInjective(pool)
    BY Zenon DEF RestType, PartInv
  <1>2. Head(pool) \in Iov /\ Tail(pool) \in Seq(Iov)
    BY <1>1, SeqTypes
  <1>3. /\ Head(pool) \in Range(pool) /\ Head(pool) \notin Range(Tail(pool))
        /\ Range(pool) = Range(Tail(pool)) \cup {Head(pool)} /\ IsInjective(Tail(pool))
    BY Zenon, <1>1, PopFacts
  <1> QED
    BY Zenon, <1>2, <1>3

\* w_alloc_iov() and w_free_iov().
LEMMA PartAllocFree ==
    ASSUME RestType, PartInv, Alloc \/ \E v \in app : Free(v)
    PROVE  PartInv'
  <1>1. CASE Alloc
    <2>1. /\ pool # <<>> /\ pool' = Tail(pool) /\ app' = app \cup {Head(pool)}
          /\ UNCHANGED <<iv, dropped, tosend, wait>>
      BY Zenon, <1>1 DEF Alloc, txVars
    <2>2. Parts(Range(pool) \ {Head(pool)}, Received, app \cup {Head(pool)}, Waiting, dropped)
      BY ZenonT(60), <2>1, PoolPop, Moves DEF PartInv
    <2>3. Range(pool') = Range(pool) \ {Head(pool)} /\ IsInjective(pool')
      BY Zenon, <2>1, PoolPop
    <2> QED
      BY ZenonT(60), <2>1, <2>2, <2>3 DEF PartInv, Received, Waiting
  <1>2. CASE \E v \in app : Free(v)
    <2>1. PICK v \in app : Free(v)
      BY Zenon, <1>2
    <2>2. /\ app' = app \ {v} /\ pool' \in {<<v>> \o pool, pool \o <<v>>}
          /\ UNCHANGED <<iv, dropped, tosend, wait>> /\ tosend = {}
      BY Zenon, <2>1 DEF Free, txVars, AppIdle
    <2>3. v \in Iov /\ v \notin Range(pool) /\ pool \in Seq(Iov) /\ IsInjective(pool)
      BY ZenonT(60) DEF RestType, PartInv, Parts
    <2>4. /\ Range(<<v>> \o pool) = Range(pool) \cup {v} /\ IsInjective(<<v>> \o pool)
          /\ Range(pool \o <<v>>) = Range(pool) \cup {v} /\ IsInjective(pool \o <<v>>)
      BY <2>3, PushFacts
    <2>5. Range(pool') = Range(pool) \cup {v} /\ IsInjective(pool')
      BY <2>2, <2>4, Zenon
    <2>6. Parts(Range(pool) \cup {v}, Received, app \ {v}, Waiting, dropped)
      BY Zenon, Moves DEF PartInv
    <2> QED
      BY Zenon, <2>2, <2>5, <2>6 DEF PartInv, Received, Waiting
  <1> QED
    BY Zenon, <1>1, <1>2

\* w_rx() and w_close() empty a receive queue.
LEMMA PartRxClose ==
    ASSUME RestType, PartInv, NEW s \in Sock, Rx(s) \/ Close(s)
    PROVE  PartInv'
  <1>1. /\ UNCHANGED <<pool, tosend, wait>> /\ tosend = {}
        /\ iv' = [iv EXCEPT ![s] = <<>>]
        /\ \/ app' = app \cup Range(iv[s]) /\ dropped' = dropped
           \/ dropped' = dropped \cup Range(iv[s]) /\ app' = app
    BY Zenon DEF Rx, Close, txVars, AppIdle
  <1>2. <<>> \in Seq(Iov) /\ IsInjective(<<>>) /\ Range(<<>>) = {}
    BY DEF IsInjective, Range
  <1>3. /\ Received' = [Received EXCEPT ![s] = {}]
        /\ \A t \in Sock : IsInjective(iv'[t])
    BY Zenon, <1>1, <1>2, ReceivedStep DEF PartInv
  <1>4. Received[s] = Range(iv[s]) /\ DOMAIN Received = Sock
    BY Zenon DEF Received
  <1> DEFINE Vn == [Received EXCEPT ![s] = {}]
  <1>5. /\ Parts(Range(pool), Vn, app \cup Received[s], Waiting, dropped)
        /\ Parts(Range(pool), Vn, app, Waiting, dropped \cup Received[s])
    BY Zenon, <1>4, MovesReceived DEF PartInv
  <1> HIDE DEF Vn
  <1>6. Parts(Range(pool), Vn, app', Waiting, dropped')
    BY Zenon, <1>1, <1>4, <1>5
  <1> QED
    BY ZenonT(60), <1>1, <1>3, <1>6 DEF PartInv, Waiting, Vn

\* udp_rx() puts the head of the pool into a receive queue, or loses it.
LEMMA PartUdpRx ==
    ASSUME RestType, PartInv, UdpRxReject \/ \E s \in Sock : UdpRx(s)
    PROVE  PartInv'
  <1>0. pool \in Seq(Iov)
    BY Zenon DEF RestType
  <1>1. CASE UdpRxReject
    <2>1. pool # <<>>
      BY SMTT(60), <1>0, <1>1 DEF UdpRxReject
    <2>2. /\ pool' = Tail(pool) /\ dropped' = dropped \cup {Head(pool)}
          /\ UNCHANGED <<iv, app, tosend, wait>>
      BY Zenon, <1>1 DEF UdpRxReject, txVars
    <2>3. Parts(Range(pool) \ {Head(pool)}, Received, app, Waiting, dropped \cup {Head(pool)})
      BY ZenonT(60), <2>1, PoolPop, Moves DEF PartInv
    <2>4. Range(pool') = Range(pool) \ {Head(pool)} /\ IsInjective(pool')
      BY Zenon, <2>1, <2>2, PoolPop
    <2> QED
      BY ZenonT(60), <2>2, <2>3, <2>4 DEF PartInv, Received, Waiting
  <1>2. CASE \E s \in Sock : UdpRx(s)
    <2> DEFINE x == Head(pool)
    <2>1. PICK s \in Sock : UdpRx(s)
      BY Zenon, <1>2
    <2>2. /\ pool # <<>> /\ pool' = Tail(pool)
          /\ iv' = [iv EXCEPT ![s] = Append(iv[s], x)]
          /\ UNCHANGED <<app, dropped, tosend, wait>>
      BY ZenonT(60), <2>1 DEF UdpRx, txVars
    <2>3. /\ x \in Iov /\ x \in Range(pool) /\ IsInjective(pool')
          /\ Range(pool') = Range(pool) \ {x}
      BY Zenon, <2>2, PoolPop
    <2>4. /\ iv[s] \in Seq(Iov) /\ IsInjective(iv[s]) /\ Received[s] = Range(iv[s])
          /\ DOMAIN Received = Sock
      BY Zenon DEF RestType, PartInv, Received
    <2>5. x \notin Range(iv[s])
      <3>1. Received[s] \cap Range(pool) = {}
        BY Zenon DEF PartInv, Parts
      <3> QED
        BY Zenon, <2>3, <2>4, <3>1
    <2> HIDE DEF x
    <2>6. /\ Append(iv[s], x) \in Seq(Iov) /\ IsInjective(Append(iv[s], x))
          /\ Range(Append(iv[s], x)) = Range(iv[s]) \cup {x}
      <3>1. Append(iv[s], x) \in Seq(Iov)
        BY Zenon, <2>3, <2>4, SeqTypes
      <3> DEFINE q == iv[s]
      <3>2. q \in Seq(Iov) /\ IsInjective(q) /\ x \notin Range(q) /\ x \in Iov
        BY Zenon, <2>3, <2>4, <2>5
      <3> HIDE DEF q
      <3>3. IsInjective(Append(q, x)) /\ Range(Append(q, x)) = Range(q) \cup {x}
        <4>1. Append(q, x) = q \o <<x>>
          BY Zenon, <3>2, PushFacts
        <4>2. IsInjective(q \o <<x>>) /\ Range(q \o <<x>>) = Range(q) \cup {x}
          BY <3>2, PushFacts
        <4> QED
          BY ZenonT(60), <4>1, <4>2, Zenon
      <3> QED
        BY Zenon, <3>1, <3>3 DEF q
    <2>7. /\ Received' = [Received EXCEPT ![s] = Range(iv[s]) \cup {x}]
          /\ \A t \in Sock : IsInjective(iv'[t])
      BY Zenon, <2>2, <2>6, ReceivedStep DEF PartInv
    <2>8. Parts(Range(pool) \ {x}, [Received EXCEPT ![s] = Received[s] \cup {x}], app, Waiting,
                dropped)
      BY Zenon, <2>3, <2>4, MovesReceived DEF PartInv
    <2> QED
      BY Zenon, <2>2, <2>3, <2>4, <2>7, <2>8 DEF PartInv, Waiting
  <1> QED
    BY Zenon, <1>1, <1>2

\* eth_tx_and_free() is called with the head of the pool ...
LEMMA PartSend ==
    ASSUME RestType, PartInv, wait.v = None, pool # <<>>, pool' = Tail(pool),
           wait'.v = Head(pool), UNCHANGED <<iv, app, dropped, tosend>>
    PROVE  PartInv'
  <1>1. Head(pool) \in Iov /\ Head(pool) \in Range(pool) /\ Head(pool) # None
    BY Zenon, PoolPop, ValuesAssumption
  <1>2. Waiting = {} /\ Waiting' = {Head(pool)}
    BY Zenon, <1>1 DEF Waiting
  <1>3. Parts(Range(pool) \ {Head(pool)}, Received, app, {Head(pool)}, dropped)
    BY Zenon, <1>1, <1>2, Moves DEF PartInv
  <1>4. Range(pool') = Range(pool) \ {Head(pool)} /\ IsInjective(pool')
    BY Zenon, PoolPop
  <1> QED
    BY ZenonT(60), <1>2, <1>3, <1>4 DEF PartInv, Received

\* ... or, by icmp_tx() of udp_rx(), with the one after it, the head being lost.
LEMMA PartUnreach ==
    ASSUME RestType, PartInv, UdpRxUnreach
    PROVE  PartInv'
  <1> DEFINE x == Head(pool)
             q == Tail(pool)
             y == Head(q)
  <1>1. /\ Len(pool) > 1 /\ wait.v = None /\ pool' = Tail(q) /\ wait'.v = y
        /\ dropped' = dropped \cup {x} /\ UNCHANGED <<iv, app, tosend>>
    BY Zenon, WaitFor DEF UdpRxUnreach, Handling, NoEthTx, txVars
  <1>2. pool # <<>> /\ q # <<>>
    BY <1>1, SeqTypes DEF RestType
  <1>3. /\ x \in Range(pool) /\ q \in Seq(Iov) /\ IsInjective(q)
        /\ Range(q) = Range(pool) \ {x}
    BY Zenon, <1>2, PoolPop
  <1> HIDE DEF q, x
  <1>4. /\ y \in Range(q) /\ y \notin Range(Tail(q)) /\ IsInjective(Tail(q))
        /\ Range(q) = Range(Tail(q)) \cup {y} /\ y \in Iov
    BY SMTT(60), <1>2, <1>3, PopFacts, SeqTypes
  <1> HIDE DEF y
  <1>5. Waiting = {} /\ Waiting' = {y}
    BY Zenon, <1>1, <1>4, ValuesAssumption DEF Waiting
  <1>6. Parts(Range(q), Received, app, {}, dropped \cup {x})
    <2>1. Parts(Range(pool), Received, app, {}, dropped)
      BY Zenon, <1>5 DEF PartInv
    <2>2. Parts(Range(pool) \ {x}, Received, app, {}, dropped \cup {x})
      BY Zenon, <1>3, <2>1, Moves
    <2> QED
      BY Zenon, <1>3, <2>2
  <1>7. Parts(Range(q) \ {y}, Received, app, {y}, dropped \cup {x})
    BY ZenonT(60), <1>4, <1>6, Moves, Zenon
  <1>8. Range(pool') = Range(q) \ {y}
    BY Zenon, <1>1, <1>4
  <1> QED
    BY ZenonT(60), <1>1, <1>4, <1>5, <1>7, <1>8 DEF PartInv, Received

\* eth_tx_and_free() returns its w_iov to the pool.
LEMMA PartDone ==
    ASSUME RestType, PartInv, EthTxAndFreeDone
    PROVE  PartInv'
  <1> DEFINE v == wait.v
  <1>1. /\ v # None /\ pool' = <<v>> \o pool /\ wait' = NoWait
        /\ UNCHANGED <<iv, app, dropped, tosend>>
    BY Zenon DEF EthTxAndFreeDone, txVars
  <1>2. v \in Iov /\ pool \in Seq(Iov) /\ IsInjective(pool)
    BY Zenon, <1>1 DEF RestType, WaitType, PartInv
  <1>3. Waiting = {v} /\ Waiting' = {}
    BY Zenon, <1>1 DEF Waiting, NoWait
  <1>4. v \notin Range(pool)
    BY Zenon, <1>3 DEF PartInv, Parts
  <1> HIDE DEF v
  <1>5. Range(pool') = Range(pool) \cup {v} /\ IsInjective(pool')
    BY <1>1, <1>2, <1>4, PushFacts
  <1>6. Parts(Range(pool) \cup {v}, Received, app, {}, dropped)
    BY ZenonT(60), <1>3, Moves DEF PartInv
  <1> QED
    BY ZenonT(60), <1>1, <1>3, <1>5, <1>6 DEF PartInv, Received

\* backend_init() puts every w_iov in the pool.
LEMMA PartInit == ASSUME Init PROVE PartInv
  <1>1. NBufs \in Nat /\ pool = [n \in 1 .. NBufs |-> NBufs + 1 - n]
    BY Zenon, SizesAssumption DEF Init
  <1>2. IsInjective(pool)
    BY <1>1 DEF IsInjective
  <1>3. \A v \in Iov : v \in Range(pool)
    <2> SUFFICES ASSUME NEW v \in 1 .. NBufs PROVE v \in Range(pool)
      BY Zenon DEF Iov
    <2>1. NBufs + 1 - v \in 1 .. NBufs /\ pool[NBufs + 1 - v] = v
      BY SMTT(60), <1>1
    <2> QED
      BY Zenon, <1>1, <2>1 DEF Range
  <1>4. \A s \in Sock : IsInjective(iv[s]) /\ Received[s] = {}
    BY SMTT(60) DEF Init, Received, IsInjective, Range
  <1>5. Waiting = {} /\ app = {} /\ dropped = {} /\ tosend = {}
    BY Zenon DEF Init, Waiting, NoWait
  <1> QED
    BY Zenon, <1>2, <1>3, <1>4, <1>5 DEF PartInv, Parts

\* Every step moves w_iovs from one place to another.
LEMMA PartNext == ASSUME RestType, PartInv, [Next]_vars PROVE PartInv'
  <1> USE DEF queVars, txVars
  <1>0. tosend \subseteq app
    BY Zenon DEF PartInv
  <1>1. CASE UNCHANGED vars
    BY Zenon, <1>0, <1>1, PartStays DEF vars
  <1>2. CASE NicTx \/ WhoHasRx \/ (\E b \in BOOLEAN : NicRx(b))
               \/ (\E q \in SUBSET app : Tx(q)) \/ \E s \in Sock : Bind(s)
    BY Zenon, <1>0, <1>2, PartStays DEF NicTx, WhoHasRx, NicRx, Tx, Bind
  <1>3. CASE Alloc \/ \E v \in app : Free(v)
    BY Zenon, <1>3, PartAllocFree
  <1>4. CASE \E s \in Sock : Rx(s) \/ Close(s)
    BY Zenon, <1>4, PartRxClose
  <1>5. CASE Reclaim \/ Poll \/ RxRingDone \/ RxOther \/ \E r \in TxRing : NicSend(r)
    BY ZenonT(60), <1>0, <1>5, PartStays DEF Reclaim, Poll, RxRingDone, RxOther, NicSend
  <1>6. CASE EthTxAndFreeSync
    <2>1. wait'.v = wait.v /\ UNCHANGED <<pool, iv, app, dropped, tosend>>
      BY Zenon, <1>6 DEF EthTxAndFreeSync, RestType, WaitType
    <2> QED
      BY Zenon, <1>0, <2>1, PartStays
  <1>7. CASE EthTxAndFreeDone
    BY Zenon, <1>7, PartDone
  <1>8. CASE WhoHasQuery
    <2>1. wait.v = None /\ UNCHANGED <<iv, app, dropped, tosend>>
      BY Zenon, <1>8 DEF WhoHasQuery, NoNicRx, NoEthTx
    <2>2. CASE pool = <<>>
      BY Zenon, <1>0, <1>8, <2>1, <2>2, PartStays DEF WhoHasQuery
    <2>3. CASE pool # <<>>
      <3>1. pool' = Tail(pool) /\ wait'.v = Head(pool)
        BY Zenon, <1>8, <2>3, WaitFor DEF WhoHasQuery
      <3> QED
        BY Zenon, <2>1, <2>3, <3>1, PartSend
    <2> QED
      BY Zenon, <2>2, <2>3
  <1>9. CASE RxQuery
    <2>1. /\ wait.v = None /\ UNCHANGED <<iv, app, dropped, tosend>>
          /\ pool # <<>> /\ pool' = Tail(pool) /\ wait'.v = Head(pool)
      <3>1. wait.v = None
        BY Zenon, <1>9 DEF RxQuery, Handling, NoEthTx
      <3>2. wait'.v = Head(pool)
        BY Zenon, <1>9, WaitFor DEF RxQuery
      <3> QED
        BY Zenon, <1>9, <3>1, <3>2 DEF RxQuery
    <2> QED
      BY Zenon, <2>1, PartSend
  <1>10. CASE UdpRxReject \/ \E s \in Sock : UdpRx(s)
    BY Zenon, <1>10, PartUdpRx
  <1>11. CASE UdpRxUnreach
    BY Zenon, <1>11, PartUnreach
  <1>12. CASE \E v \in Iov : UdpTxSent(v) \/ UdpTxFull(v) \/ UdpTxResolve(v)
    <2>1. /\ UNCHANGED <<pool, iv, app, dropped, wait>>
          /\ tosend' \subseteq tosend
      BY Zenon, <1>12 DEF UdpTxSent, UdpTxFull, UdpTxResolve
    <2> QED
      BY Zenon, <1>0, <2>1, PartStays
  <1> QED
    BY Zenon, <1>1, <1>2, <1>3, <1>4, <1>5, <1>6, <1>7, <1>8, <1>9, <1>10, <1>11, <1>12
       DEF Next, Step, Call

\* Queues neither lose nor duplicate w_iovs.
LEMMA PartInvariant == Spec => []PartInv
  <1>1. Init => PartInv
    BY Zenon, PartInit
  <1>2. RestType /\ PartInv /\ [Next]_vars => PartInv'
    BY Zenon, PartNext
  <1> QED
    BY <1>1, <1>2, RingInvariant, PTL DEF Spec

\* Whatever is received, sent, allocated and freed, a w_iov is in one queue only,
\* once, and none disappears but in udp_rx() and w_close().
THEOREM IovsPartitioned == Spec => []IovPartition
  <1>1. RestType /\ PartInv => IovPartition
    BY Zenon, PartMeansPartition
  <1> QED
    BY <1>1, RingInvariant, PartInvariant, PTL
=============================================================================
