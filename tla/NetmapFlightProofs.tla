------------------------- MODULE NetmapFlightProofs -------------------------
(***************************************************************************)
(* What holds of the frames that are in the TX rings of Netmap, for every  *)
(* number of buffers, rings and slots.                                     *)
(***************************************************************************)
EXTENDS NetmapProofs

-----------------------------------------------------------------------------
(* Buffers in flight.                                                      *)

\* Some TX slot has a frame of v.
Slotted(v) == \E r \in TxRing, j \in TxSlot : slot_buf[r][j] = v

\* No w_iov is in two slots; v->base is the buffer in its slot, or its own.
OwnInv ==
    /\ \A r, q \in TxRing, j, k \in TxSlot :
         slot_buf[r][j] # None /\ slot_buf[r][j] = slot_buf[q][k] => r = q /\ j = k
    /\ \A r \in TxRing, j \in TxSlot :
         slot_buf[r][j] # None => base[slot_buf[r][j]] = bidx[TxH(r, j)]
    /\ \A v \in Iov : ~Slotted(v) => base[v] = bidx[IovH(v)]

\* The w_iovs that warpcore or w_tx() may put into a slot.
Home(v) ==
    v \in Range(pool) \/ v \in dropped \/ v \in tosend \/ \E s \in Sock : v \in Range(iv[s])

\* A w_iov that warpcore may send is in no slot.
HomeInv == \A v \in Iov : Home(v) => ~Slotted(v)

\* The w_iov that eth_tx_and_free() waits for is in no slot but its own.
WaitSlotInv ==
    \A r \in TxRing, j \in TxSlot :
      slot_buf[r][j] # None /\ slot_buf[r][j] = wait.v => wait.slot = <<r, j>>

\* An application that leaves w_iovs in flight alone.
FlightInv == AppWaits /\ ~Pipe => OwnInv /\ HomeInv /\ WaitSlotInv

\* The slot at cur is not in use.
LEMMA CurFree == ASSUME RingCore, ~Pipe, NEW r \in TxRing PROVE slot_buf[r][txcur[r]] = None
  <1>1. TxType /\ Window(r)
    BY Zenon DEF RingCore, RingInv
  <1>2. ~Within(txcur[r], btail[r], txcur[r], TxN) /\ txcur[r] \in TxSlot
    BY Zenon, <1>1, TxTypes, WithinSteps
  <1> QED
    BY Zenon, <1>1, <1>2 DEF Window

\* What eth_tx() does to slots and indices on a netmap port.
LEMMA EthTxStep ==
    ASSUME RingCore, ~Pipe, NEW v \in Iov, NEW q \in TxRing, EthTx(v, q)
    PROVE  /\ txcur[q] \in TxSlot
           /\ \A r \in TxRing, j \in TxSlot :
                slot_buf'[r][j] = IF r = q /\ j = txcur[q] THEN v ELSE slot_buf[r][j]
           /\ bidx'[TxH(q, txcur[q])] = bidx[IovH(v)]
           /\ \A r \in TxRing, j \in TxSlot :
                ~(r = q /\ j = txcur[q]) => bidx'[TxH(r, j)] = bidx[TxH(r, j)]
           /\ \A w \in Iov : w # v => bidx'[IovH(w)] = bidx[IovH(w)]
  <1>1. TxType /\ txcur[q] \in TxSlot
    BY Zenon DEF RingCore, TxType
  <1>2. \A r \in TxRing, j \in TxSlot :
          slot_buf'[r][j] = IF r = q /\ j = txcur[q] THEN v ELSE slot_buf[r][j]
    BY Zenon, <1>1 DEF EthTx, TxType
  <1> DEFINE g == IovH(v)
             e == TxH(q, txcur[q])
  <1>3. g \in Holder /\ e \in Holder /\ bidx' = Swap(g, e)
    BY Zenon, <1>1, HolderFacts DEF EthTx
  <1>4. /\ bidx'[e] = bidx[g]
        /\ \A k \in Holder : k # g /\ k # e => bidx'[k] = bidx[k]
    BY <1>1, <1>3, SwapFacts DEF TxType
  <1>5. \A r \in TxRing, j \in TxSlot : TxH(r, j) \in Holder /\ TxH(r, j) # g
                                        /\ (TxH(r, j) = e => r = q /\ j = txcur[q])
    BY Zenon, HolderFacts
  <1>6. \A w \in Iov : w # v => IovH(w) \in Holder /\ IovH(w) # g /\ IovH(w) # e
    BY Zenon, HolderFacts
  <1> HIDE DEF g, e
  <1>7. /\ \A r \in TxRing, j \in TxSlot :
             ~(r = q /\ j = txcur[q]) => bidx'[TxH(r, j)] = bidx[TxH(r, j)]
        /\ \A w \in Iov : w # v => bidx'[IovH(w)] = bidx[IovH(w)]
    BY Zenon, <1>4, <1>5, <1>6
  <1> QED
    BY Zenon, <1>1, <1>2, <1>4, <1>7 DEF g, e

\* eth_tx() puts a w_iov that is in no slot into one.
LEMMA OwnEthTx ==
    ASSUME RingCore, ~Pipe, OwnInv, NEW v \in Iov, ~Slotted(v), NEW q \in TxRing,
           EthTx(v, q), base' = base
    PROVE  OwnInv'
  <1> DEFINE c == txcur[q]
  <1>1. /\ c \in TxSlot
        /\ \A r \in TxRing, j \in TxSlot :
             slot_buf'[r][j] = IF r = q /\ j = c THEN v ELSE slot_buf[r][j]
        /\ bidx'[TxH(q, c)] = bidx[IovH(v)]
        /\ \A r \in TxRing, j \in TxSlot :
             ~(r = q /\ j = c) => bidx'[TxH(r, j)] = bidx[TxH(r, j)]
        /\ \A w \in Iov : w # v => bidx'[IovH(w)] = bidx[IovH(w)]
    BY Zenon, EthTxStep
  <1>2. slot_buf[q][c] = None /\ v # None
    BY Zenon, CurFree, ValuesAssumption
  <1> HIDE DEF c
  <1>3. \A r \in TxRing, j \in TxSlot : slot_buf[r][j] # v
    BY Zenon DEF Slotted
  <1>4. \A r, p \in TxRing, j, k \in TxSlot :
          slot_buf'[r][j] # None /\ slot_buf'[r][j] = slot_buf'[p][k] => r = p /\ j = k
    BY <1>1, <1>3 DEF OwnInv
  <1>5. ASSUME NEW r \in TxRing, NEW j \in TxSlot, slot_buf'[r][j] # None
        PROVE  base'[slot_buf'[r][j]] = bidx'[TxH(r, j)]
    BY <1>1, <1>5 DEF OwnInv
  <1>6. ASSUME NEW w \in Iov, ~Slotted(w)' PROVE base'[w] = bidx'[IovH(w)]
    <2>1. w # v
      BY <1>1, <1>6 DEF Slotted
    <2>2. ~Slotted(w)
      BY <1>1, <1>2, <1>6, ValuesAssumption DEF Slotted
    <2> QED
      BY Zenon, <1>1, <2>1, <2>2 DEF OwnInv
  <1> QED
    BY Zenon, <1>4, <1>5, <1>6 DEF OwnInv

\* What w_nic_tx() does with the oldest slot of a ring.
LEMMA ReclaimStep ==
    ASSUME RingCore, Reclaim
    PROVE  \E q \in TxRing, k \in TxSlot, v \in Iov :
             /\ k = RingNext(btail[q], TxN) /\ btail' = [btail EXCEPT ![q] = k]
             /\ slot_buf[q][k] = v
             /\ \A r \in TxRing, j \in TxSlot :
                  slot_buf'[r][j] = IF r = q /\ j = k THEN None ELSE slot_buf[r][j]
             /\ bidx'[IovH(v)] = bidx[TxH(q, k)]
             /\ \A r \in TxRing, j \in TxSlot :
                  ~(r = q /\ j = k) => bidx'[TxH(r, j)] = bidx[TxH(r, j)]
             /\ \A w \in Iov : w # v => bidx'[IovH(w)] = bidx[IovH(w)]
             /\ base' = base
  <1>1. PICK q \in TxRing :
          LET k == RingNext(btail[q], TxN) IN
            /\ ~Pipe /\ btail[q] # txtail[q]
            /\ bidx' = Swap(IovH(slot_buf[q][k]), TxH(q, k))
            /\ slot_buf' = [slot_buf EXCEPT ![q][k] = None]
            /\ btail' = [btail EXCEPT ![q] = k] /\ base' = base
    BY Zenon DEF Reclaim, SlotCleared
  <1> DEFINE k == RingNext(btail[q], TxN)
             v == slot_buf[q][k]
             g == IovH(v)
             e == TxH(q, k)
  <1>2. k \in TxSlot /\ v \in Iov
    BY Zenon, <1>1, ReclaimedIov
  <1>3. TxType /\ g \in Holder /\ e \in Holder /\ bidx' = Swap(g, e)
    BY Zenon, <1>1, <1>2, HolderFacts DEF RingCore
  <1>4. /\ bidx'[g] = bidx[e]
        /\ \A m \in Holder : m # g /\ m # e => bidx'[m] = bidx[m]
    BY <1>3, SwapFacts DEF TxType
  <1>5. \A r \in TxRing, j \in TxSlot : TxH(r, j) \in Holder /\ TxH(r, j) # g
                                        /\ (TxH(r, j) = e => r = q /\ j = k)
    BY SMTT(60), HolderFacts
  <1>6. \A w \in Iov : w # v => IovH(w) \in Holder /\ IovH(w) # g /\ IovH(w) # e
    BY Zenon, <1>2, HolderFacts
  <1>7. \A r \in TxRing, j \in TxSlot :
          slot_buf'[r][j] = IF r = q /\ j = k THEN None ELSE slot_buf[r][j]
    BY Zenon, <1>1, <1>2, <1>3 DEF TxType
  <1>8. btail' = [btail EXCEPT ![q] = k] /\ base' = base
    BY Zenon, <1>1
  <1> HIDE DEF k, g, e
  <1>9. /\ \A r \in TxRing, j \in TxSlot :
             ~(r = q /\ j = k) => bidx'[TxH(r, j)] = bidx[TxH(r, j)]
        /\ \A w \in Iov : w # v => bidx'[IovH(w)] = bidx[IovH(w)]
    BY Zenon, <1>4, <1>5, <1>6
  <1>10. k = RingNext(btail[q], TxN) /\ bidx'[IovH(v)] = bidx[TxH(q, k)]
    BY Zenon, <1>4 DEF k, g, e
  <1> QED
    BY Zenon, <1>2, <1>7, <1>8, <1>9, <1>10

\* w_nic_tx() gives the w_iov of a slot its buffer back.
LEMMA OwnReclaim == ASSUME RingCore, OwnInv, Reclaim PROVE OwnInv'
  <1>1. PICK q \in TxRing, k \in TxSlot, v \in Iov :
             /\ slot_buf[q][k] = v
             /\ \A r \in TxRing, j \in TxSlot :
                  slot_buf'[r][j] = IF r = q /\ j = k THEN None ELSE slot_buf[r][j]
             /\ bidx'[IovH(v)] = bidx[TxH(q, k)]
             /\ \A r \in TxRing, j \in TxSlot :
                  ~(r = q /\ j = k) => bidx'[TxH(r, j)] = bidx[TxH(r, j)]
             /\ \A w \in Iov : w # v => bidx'[IovH(w)] = bidx[IovH(w)]
             /\ base' = base
    BY ReclaimStep
  <1>2. v # None
    BY Zenon, ValuesAssumption
  <1>3. \A r, p \in TxRing, j, m \in TxSlot :
          slot_buf'[r][j] # None /\ slot_buf'[r][j] = slot_buf'[p][m] => r = p /\ j = m
    BY <1>1 DEF OwnInv
  <1>4. ASSUME NEW r \in TxRing, NEW j \in TxSlot, slot_buf'[r][j] # None
        PROVE  base'[slot_buf'[r][j]] = bidx'[TxH(r, j)]
    BY <1>1, <1>4 DEF OwnInv
  <1>5. ASSUME NEW w \in Iov, ~Slotted(w)' PROVE base'[w] = bidx'[IovH(w)]
    <2>1. CASE w = v
      BY Zenon, <1>1, <1>2, <2>1 DEF OwnInv
    <2>2. CASE w # v
      <3>1. ~Slotted(w)
        BY SMTT(60), <1>1, <1>5, <2>2 DEF Slotted
      <3> QED
        BY Zenon, <1>1, <2>2, <3>1 DEF OwnInv
    <2> QED
      BY Zenon, <2>1, <2>2
  <1> QED
    BY Zenon, <1>3, <1>4, <1>5 DEF OwnInv

\* udp_rx() gives a w_iov that is in no slot the buffer of the frame.
LEMMA RxStep ==
    ASSUME RingCore, RestType, NEW s \in Sock, UdpRx(s)
    PROVE  /\ Head(pool) \in Iov
           /\ base'[Head(pool)] = bidx'[IovH(Head(pool))]
           /\ \A r \in TxRing, j \in TxSlot : bidx'[TxH(r, j)] = bidx[TxH(r, j)]
           /\ \A w \in Iov : w # Head(pool) =>
                bidx'[IovH(w)] = bidx[IovH(w)] /\ base'[w] = base[w]
           /\ slot_buf' = slot_buf
  <1> DEFINE x == Head(pool)
             e == RxH(nicrx.ring, rxcur[nicrx.ring])
  <1>1. x \in Iov /\ e \in Holder /\ IovH(x) \in Holder
    BY SMTT(60), NicRxTypes, HolderFacts DEF UdpRx, RestType
  <1>2. bidx' = Swap(IovH(x), e) /\ base' = [base EXCEPT ![x] = bidx[e]] /\ slot_buf' = slot_buf
    BY Zenon DEF UdpRx, RxBase, ringVars
  <1>3. /\ bidx'[IovH(x)] = bidx[e]
        /\ \A k \in Holder : k # IovH(x) /\ k # e => bidx'[k] = bidx[k]
    BY SMTT(60), <1>1, <1>2, SwapFacts DEF RingCore, TxType
  <1>4. \A r \in TxRing, j \in TxSlot : TxH(r, j) \in Holder /\ TxH(r, j) # IovH(x) /\ TxH(r, j) # e
    BY HolderFacts
  <1>5. \A w \in Iov : w # x => IovH(w) \in Holder /\ IovH(w) # IovH(x) /\ IovH(w) # e
    BY Zenon, <1>1, HolderFacts
  <1>6. base'[x] = bidx[e] /\ \A w \in Iov : w # x => base'[w] = base[w]
    BY Zenon, <1>1, <1>2 DEF RestType
  <1> HIDE DEF x, e
  <1>7. /\ \A r \in TxRing, j \in TxSlot : bidx'[TxH(r, j)] = bidx[TxH(r, j)]
        /\ \A w \in Iov : w # x => bidx'[IovH(w)] = bidx[IovH(w)]
    BY Zenon, <1>3, <1>4, <1>5
  <1> QED
    BY Zenon, <1>1, <1>2, <1>3, <1>6, <1>7 DEF x

\* udp_rx() swaps the buffer of a w_iov that is in no slot, and sets its base.
LEMMA OwnRx ==
    ASSUME RingCore, RestType, OwnInv, NEW s \in Sock, UdpRx(s), ~Slotted(Head(pool))
    PROVE  OwnInv'
  <1> DEFINE x == Head(pool)
  <1>1. /\ x \in Iov /\ base'[x] = bidx'[IovH(x)]
        /\ \A r \in TxRing, j \in TxSlot : bidx'[TxH(r, j)] = bidx[TxH(r, j)]
        /\ \A w \in Iov : w # x => bidx'[IovH(w)] = bidx[IovH(w)] /\ base'[w] = base[w]
        /\ slot_buf' = slot_buf
    BY Zenon, RxStep
  <1>2. \A r \in TxRing, j \in TxSlot : slot_buf[r][j] # x /\ slot_buf[r][j] \in Iov \cup {None}
    BY Zenon DEF Slotted, RingCore, TxType
  <1> HIDE DEF x
  <1>3. \A r \in TxRing, j \in TxSlot :
          slot_buf[r][j] # None => base'[slot_buf[r][j]] = bidx'[TxH(r, j)]
    BY SMTT(60), <1>1, <1>2 DEF OwnInv
  <1>4. ASSUME NEW w \in Iov, ~Slotted(w) PROVE base'[w] = bidx'[IovH(w)]
    BY Zenon, <1>1, <1>4 DEF OwnInv
  <1>5. \A w : Slotted(w)' <=> Slotted(w)
    BY Zenon, <1>1 DEF Slotted
  <1> QED
    BY <1>1, <1>3, <1>4, <1>5 DEF OwnInv

\* The w_iov of eth_tx_and_free(): if it is still in the slot it was put into, that
\* slot has its buffer and is the last of its slots to be reclaimed; else it has its
\* buffer back and is in no slot.
WaitInv ==
    ~Pipe /\ wait.v # None /\ wait.slot # None /\ (AppWaits \/ NTx = 1) =>
      LET r == wait.slot[1]
          j == wait.slot[2]
          o == RingNext(btail[r], TxN)
      IN  IF slot_buf[r][j] = wait.v
            THEN /\ bidx[TxH(r, j)] = wait.orig
                 /\ \A q \in TxRing, k \in TxSlot : slot_buf[q][k] = wait.v =>
                      q = r /\ Dist(o, k, TxN) <= Dist(o, j, TxN)
            ELSE bidx[IovH(wait.v)] = wait.orig /\ ~Slotted(wait.v)

\* A pipe copies frames: v->idx stays the buffer that v->base points to.
PipeInv == Pipe => \A v \in Iov : base[v] = bidx[IovH(v)]

\* The slot that eth_tx_and_free() waits for.
LEMMA WaitTypes ==
    ASSUME RestType, wait.v # None, wait.slot # None
    PROVE  /\ wait.v \in Iov /\ wait.slot[1] \in TxRing /\ wait.slot[2] \in TxSlot
           /\ wait.slot = <<wait.slot[1], wait.slot[2]>>
  BY SMTT(60) DEF RestType, WaitType

\* So the index comes back when the frame has left its slot, and not before.
LEMMA CompletionFacts ==
    ASSUME RingCore, RestType, WaitInv, AppWaits \/ NTx = 1
    PROVE  CompletionTest
  <1> SUFFICES ASSUME wait.v # None, wait.slot # None, ~Pipe
               PROVE  bidx[IovH(wait.v)] = wait.orig
                        <=> slot_buf[wait.slot[1]][wait.slot[2]] # wait.v
    BY Zenon DEF CompletionTest
  <1> DEFINE r == wait.slot[1]
             j == wait.slot[2]
  <1>1. wait.v \in Iov /\ r \in TxRing /\ j \in TxSlot
    BY Zenon, WaitTypes
  <1>2. IF slot_buf[r][j] = wait.v THEN bidx[TxH(r, j)] = wait.orig
                                   ELSE bidx[IovH(wait.v)] = wait.orig
    BY Zenon DEF WaitInv
  <1>3. bidx[TxH(r, j)] # bidx[IovH(wait.v)]
    BY <1>1, HolderFacts DEF RingCore, TxType, BufConservation, IsInjective
  <1> QED
    BY Zenon, <1>2, <1>3

\* When eth_tx_and_free() returns, its w_iov is in no slot.
LEMMA DoneNotSlotted ==
    ASSUME RingCore, RestType, FlightInv, WaitInv, AppWaits, ~Pipe, wait.v # None,
           bidx[IovH(wait.v)] = wait.orig
    PROVE  ~Slotted(wait.v)
  <1> SUFFICES ASSUME NEW r \in TxRing, NEW j \in TxSlot, slot_buf[r][j] = wait.v
               PROVE  FALSE
    BY Zenon DEF Slotted
  <1>1. wait.slot = <<r, j>>
    BY Zenon DEF FlightInv, WaitSlotInv
  <1>2. wait.slot # None
    BY <1>1, ValuesAssumption
  <1>3. CompletionTest
    BY Zenon, CompletionFacts
  <1> QED
    BY <1>1, <1>2, <1>3 DEF CompletionTest

-----------------------------------------------------------------------------
\* A w_iov that eth_tx() just took from w_tx() or from the pool is elsewhere.
LEMMA NotHome ==
    ASSUME PartInv', NEW v \in Iov, (v \in app' /\ v \notin tosend') \/ v = wait'.v
    PROVE  ~Home(v)'
  <1>1. v # None
    BY Zenon, ValuesAssumption
  <1>2. v \in app' \/ v \in Waiting'
    BY Zenon, <1>1 DEF Waiting
  <1>3. v = wait'.v => v \notin app'
    BY Zenon, <1>1 DEF PartInv, Parts, Waiting
  <1>4. v \notin tosend'
    BY Zenon, <1>3 DEF PartInv
  <1>5. v \notin Range(pool') /\ v \notin dropped' /\ \A s \in Sock : v \notin Received'[s]
    BY Zenon, <1>2 DEF PartInv, Parts
  <1>6. \A s \in Sock : Received'[s] = Range(iv'[s])
    BY Zenon DEF Received
  <1> QED
    BY Zenon, <1>4, <1>5, <1>6 DEF Home

\* Steps that leave slots and buffers alone, and take only idle w_iovs home.
LEMMA FlightStays ==
    ASSUME FlightInv, UNCHANGED <<slot_buf, bidx, base>>,
           wait'.v = None \/ (wait'.v = wait.v /\ wait'.slot = wait.slot),
           AppWaits /\ ~Pipe => \A v \in Iov : Home(v)' => Home(v) \/ ~Slotted(v)
    PROVE  FlightInv'
  <1> SUFFICES ASSUME AppWaits, ~Pipe PROVE OwnInv' /\ HomeInv' /\ WaitSlotInv'
    BY Zenon DEF FlightInv
  <1>1. OwnInv /\ HomeInv /\ WaitSlotInv
    BY Zenon DEF FlightInv
  <1>2. \A v : Slotted(v)' <=> Slotted(v)
    BY Zenon DEF Slotted
  <1>3. OwnInv'
    BY <1>1, <1>2 DEF OwnInv
  <1>4. HomeInv'
    BY Zenon, <1>1, <1>2 DEF HomeInv
  <1>5. WaitSlotInv'
    BY Zenon, <1>1 DEF WaitSlotInv
  <1> QED
    BY Zenon, <1>3, <1>4, <1>5

\* eth_tx() of a w_iov that is in no slot.
LEMMA FlightEthTx ==
    ASSUME RingCore, FlightInv, AppWaits, ~Pipe,
           NEW v \in Iov, Home(v), NEW q \in TxRing, EthTx(v, q), base' = base,
           ~Home(v)', \A w \in Iov : Home(w)' => Home(w),
           wait'.v = None \/ (wait'.v = v /\ wait'.slot = <<q, txcur[q]>>)
    PROVE  FlightInv'
  <1>1. OwnInv /\ HomeInv /\ ~Slotted(v)
    BY Zenon DEF FlightInv, HomeInv
  <1>2. OwnInv'
    BY Zenon, <1>1, OwnEthTx
  <1> DEFINE c == txcur[q]
  <1>3. \A r \in TxRing, j \in TxSlot :
          slot_buf'[r][j] = IF r = q /\ j = c THEN v ELSE slot_buf[r][j]
    BY SMTT(60), EthTxStep
  <1> HIDE DEF c
  <1>4. HomeInv'
    BY SMTT(60), <1>1, <1>3 DEF HomeInv, Slotted
  <1>5. WaitSlotInv'
    BY SMTT(60), <1>1, <1>3 DEF WaitSlotInv, Slotted, c
  <1> QED
    BY Zenon, <1>2, <1>4, <1>5 DEF FlightInv

\* eth_tx_and_free() takes a spare w_iov.
LEMMA FlightSend ==
    ASSUME RingCore, FlightInv, NEW v \in Iov, Home(v), EthTxAndFree(v), base' = base,
           PartInv', \A w \in Iov : Home(w)' => Home(w)
    PROVE  FlightInv'
  <1> SUFFICES ASSUME AppWaits, ~Pipe PROVE FlightInv'
    BY Zenon DEF FlightInv
  <1>1. CASE \E q \in TxRing : EthTx(v, q) /\ wait'.v = v /\ wait'.slot = <<q, txcur[q]>>
    BY Zenon, <1>1, NotHome, FlightEthTx
  <1>2. CASE UNCHANGED <<slot_buf, bidx>> /\ wait'.v = v
    <2>1. OwnInv /\ HomeInv /\ ~Slotted(v)
      BY Zenon DEF FlightInv, HomeInv
    <2>2. \A w : Slotted(w)' <=> Slotted(w)
      BY Zenon, <1>2 DEF Slotted
    <2>3. OwnInv'
      BY <1>2, <2>1, <2>2 DEF OwnInv
    <2>4. HomeInv'
      BY Zenon, <2>1, <2>2 DEF HomeInv
    <2>5. WaitSlotInv'
      BY Zenon, <1>2, <2>1 DEF WaitSlotInv, Slotted
    <2> QED
      BY Zenon, <2>3, <2>4, <2>5 DEF FlightInv
  <1> QED
    BY <1>1, <1>2 DEF EthTxAndFree, ringVars

\* w_nic_tx() clears a slot.
LEMMA FlightReclaim ==
    ASSUME RingCore, FlightInv, Reclaim PROVE FlightInv'
  <1> SUFFICES ASSUME AppWaits, ~Pipe PROVE FlightInv'
    BY Zenon DEF FlightInv
  <1>1. OwnInv /\ HomeInv /\ WaitSlotInv
    BY Zenon DEF FlightInv
  <1>2. OwnInv'
    BY Zenon, <1>1, OwnReclaim
  <1>3. \A r \in TxRing, j \in TxSlot : slot_buf'[r][j] \in {None, slot_buf[r][j]}
    BY Zenon, ReclaimStep
  <1>4. UNCHANGED <<pool, iv, dropped, tosend, wait>>
    BY Zenon DEF Reclaim, queVars, txVars
  <1>5. \A v \in Iov : Slotted(v)' => Slotted(v)
    BY <1>3, ValuesAssumption DEF Slotted
  <1>6. HomeInv'
    BY Zenon, <1>1, <1>4, <1>5 DEF HomeInv, Home
  <1>7. WaitSlotInv'
    BY Zenon, <1>1, <1>3, <1>4 DEF WaitSlotInv
  <1> QED
    BY Zenon, <1>2, <1>6, <1>7 DEF FlightInv

\* What is taken out of the pool, or put back into it.
LEMMA HomeSteps ==
    ASSUME RestType, PartInv
    PROVE  /\ pool # <<>> => Head(pool) \in Iov /\ Home(Head(pool))
                             /\ Range(Tail(pool)) \subseteq Range(pool)
           /\ \A v \in Iov : /\ Range(<<v>> \o pool) = Range(pool) \cup {v}
                             /\ Range(pool \o <<v>>) = Range(pool) \cup {v}
  <1>1. pool # <<>> => /\ Head(pool) \in Iov /\ Head(pool) \in Range(pool)
                       /\ Range(Tail(pool)) = Range(pool) \ {Head(pool)}
    BY Zenon, PoolPop
  <1>2. pool \in Seq(Iov)
    BY Zenon DEF RestType
  <1> QED
    BY <1>1, <1>2, PushFacts DEF Home

\* Every step keeps what is known of w_iovs in flight.
LEMMA FlightNext ==
    ASSUME RingCore, RestType, PartInv, PartInv', FlightInv, WaitInv, [Next]_vars
    PROVE  FlightInv'
  <1> USE DEF queVars, txVars, bufVars, ringVars
  <1>0. \A v \in Iov : InFlight(v) <=> ~Pipe /\ Slotted(v)
    BY Zenon DEF InFlight, Slotted
  <1>1. CASE UNCHANGED vars
    BY Zenon, <1>1, FlightStays DEF vars, Home
  <1>2. CASE NicTx \/ WhoHasRx \/ (\E b \in BOOLEAN : NicRx(b)) \/ \E s \in Sock : Bind(s)
    BY Zenon, <1>2, FlightStays DEF NicTx, WhoHasRx, NicRx, Bind, Home
  <1>3. CASE Poll \/ RxRingDone \/ RxOther \/ \E r \in TxRing : NicSend(r)
    BY ZenonT(60), <1>3, FlightStays DEF Poll, RxRingDone, RxOther, NicSend, Home
  <1>4. CASE \E q \in SUBSET app : Tx(q)
    <2>1. PICK q \in SUBSET app : Tx(q)
      BY Zenon, <1>4
    <2>2. ASSUME AppWaits, ~Pipe, NEW v \in Iov, Home(v)' PROVE Home(v) \/ ~Slotted(v)
      BY Zenon, <1>0, <2>1, <2>2 DEF Tx, Home
    <2> QED
      BY Zenon, <2>1, <2>2, FlightStays DEF Tx
  <1>5. CASE Alloc
    <2>1. pool # <<>> /\ pool' = Tail(pool) /\ UNCHANGED <<iv, dropped, tosend>>
      BY Zenon, <1>5 DEF Alloc
    <2>2. Range(pool') \subseteq Range(pool)
      BY Zenon, <2>1, HomeSteps
    <2>3. \A v \in Iov : Home(v)' => Home(v)
      BY Zenon, <2>1, <2>2 DEF Home
    <2> QED
      BY Zenon, <1>5, <2>3, FlightStays DEF Alloc
  <1>6. CASE \E v \in app : Free(v)
    <2>1. PICK v \in app : Free(v)
      BY Zenon, <1>6
    <2>2. v \in Iov
      BY Zenon DEF RestType
    <2>3. pool' \in {<<v>> \o pool, pool \o <<v>>} /\ UNCHANGED <<iv, dropped, tosend>>
      BY Zenon, <2>1 DEF Free
    <2>4. Range(pool') = Range(pool) \cup {v}
      BY ZenonT(60), <2>2, <2>3, HomeSteps, Zenon
    <2>5. ASSUME AppWaits, ~Pipe, NEW w \in Iov, Home(w)' PROVE Home(w) \/ ~Slotted(w)
      <3>1. w = v => ~Slotted(w)
        BY Zenon, <1>0, <2>1, <2>5 DEF Free
      <3> QED
        BY Zenon, <2>3, <2>4, <2>5, <3>1 DEF Home
    <2> QED
      BY Zenon, <2>1, <2>5, FlightStays DEF Free
  <1>7. CASE \E s \in Sock : Rx(s) \/ Close(s)
    <2>1. PICK s \in Sock : Rx(s) \/ Close(s)
      BY Zenon, <1>7
    <2>2. /\ UNCHANGED <<pool, tosend>> /\ iv' = [iv EXCEPT ![s] = <<>>]
          /\ dropped' \subseteq dropped \cup Range(iv[s])
      BY Zenon, <2>1 DEF Rx, Close
    <2>3. \A t \in Sock : Range(iv'[t]) \subseteq Range(iv[t])
      <3>1. \A t \in Sock : iv'[t] = IF t = s THEN <<>> ELSE iv[t]
        BY Zenon, <2>2 DEF RestType
      <3>2. Range(<<>>) = {}
        BY SMTT(60) DEF Range
      <3> QED
        BY Zenon, <3>1, <3>2
    <2>4. \A v \in Iov : Home(v)' => Home(v)
      BY Zenon, <2>1, <2>2, <2>3 DEF Home
    <2> QED
      BY Zenon, <2>1, <2>4, FlightStays DEF Rx, Close
  <1>8. CASE Reclaim
    BY Zenon, <1>8, FlightReclaim
  <1>9. CASE EthTxAndFreeSync
    <2>1. wait'.v = wait.v /\ wait'.slot = wait.slot
      BY Zenon, <1>9 DEF EthTxAndFreeSync, RestType, WaitType
    <2> QED
      BY Zenon, <1>9, <2>1, FlightStays DEF EthTxAndFreeSync, Home
  <1>10. CASE EthTxAndFreeDone
    <2>1. /\ wait.v # None /\ bidx[IovH(wait.v)] = wait.orig /\ pool' = <<wait.v>> \o pool
          /\ wait'.v = None /\ UNCHANGED <<iv, dropped, tosend>>
      BY Zenon, <1>10 DEF EthTxAndFreeDone, NoWait
    <2>2. wait.v \in Iov
      BY Zenon, <2>1 DEF RestType, WaitType
    <2>3. Range(pool') = Range(pool) \cup {wait.v}
      BY Zenon, <2>1, <2>2, HomeSteps
    <2>4. ASSUME AppWaits, ~Pipe, NEW w \in Iov, Home(w)' PROVE Home(w) \/ ~Slotted(w)
      <3>1. ~Slotted(wait.v)
        BY Zenon, <2>1, <2>4, DoneNotSlotted
      <3> QED
        BY Zenon, <2>1, <2>3, <2>4, <3>1 DEF Home
    <2> QED
      BY Zenon, <1>10, <2>1, <2>4, FlightStays DEF EthTxAndFreeDone
  <1>11. CASE WhoHasQuery
    <2>1. UNCHANGED <<base, iv, dropped, tosend>>
      BY Zenon, <1>11 DEF WhoHasQuery
    <2>2. CASE UNCHANGED <<pool, bidx, ringVars, wait>>
      BY Zenon, <2>1, <2>2, FlightStays DEF Home
    <2>3. CASE pool # <<>> /\ pool' = Tail(pool) /\ EthTxAndFree(Head(pool))
      <3>1. \A w \in Iov : Home(w)' => Home(w)
        BY Zenon, <2>1, <2>3, HomeSteps DEF Home
      <3> QED
        BY Zenon, <2>1, <2>3, <3>1, HomeSteps, FlightSend
    <2> QED
      BY Zenon, <1>11, <2>2, <2>3 DEF WhoHasQuery
  <1>12. CASE RxQuery
    <2>1. /\ UNCHANGED <<base, iv, dropped, tosend>>
          /\ pool # <<>> /\ pool' = Tail(pool) /\ EthTxAndFree(Head(pool))
      BY Zenon, <1>12 DEF RxQuery
    <2>2. \A w \in Iov : Home(w)' => Home(w)
      BY Zenon, <2>1, HomeSteps DEF Home
    <2> QED
      BY Zenon, <2>1, <2>2, HomeSteps, FlightSend
  <1>13. CASE UdpRxReject
    <2>1. /\ UNCHANGED <<iv, tosend>> /\ pool' = Tail(pool) /\ pool # <<>>
          /\ dropped' = dropped \cup {Head(pool)}
      BY SMTT(60), <1>13 DEF UdpRxReject, RestType
    <2>2. \A w \in Iov : Home(w)' => Home(w)
      BY Zenon, <2>1, HomeSteps DEF Home
    <2> QED
      BY Zenon, <1>13, <2>2, FlightStays DEF UdpRxReject
  <1>14. CASE UdpRxUnreach
    <2> DEFINE y == Head(Tail(pool))
    <2>1. /\ UNCHANGED <<base, iv, tosend>> /\ pool' = Tail(Tail(pool)) /\ EthTxAndFree(y)
          /\ dropped' = dropped \cup {Head(pool)} /\ Len(pool) > 1
      BY Zenon, <1>14 DEF UdpRxUnreach
    <2>2. pool # <<>> /\ Tail(pool) # <<>>
      BY <2>1, SeqTypes DEF RestType
    <2>3. /\ Tail(pool) \in Seq(Iov) /\ Range(Tail(pool)) \subseteq Range(pool)
          /\ IsInjective(Tail(pool)) /\ Head(pool) \in Range(pool)
      BY Zenon, <2>2, PoolPop
    <2>4. y \in Range(Tail(pool)) /\ Range(Tail(Tail(pool))) \subseteq Range(Tail(pool))
          /\ y \in Iov
      <3> DEFINE e == Tail(pool)
      <3>1. e \in Seq(Iov) /\ e # <<>> /\ IsInjective(e)
        BY Zenon, <2>2, <2>3
      <3> HIDE DEF e
      <3>2. Head(e) \in Range(e) /\ Range(e) = Range(Tail(e)) \cup {Head(e)} /\ Head(e) \in Iov
        BY SMTT(60), <3>1, PopFacts, SeqTypes
      <3> QED
        BY Zenon, <3>2 DEF e
    <2> HIDE DEF y
    <2>5. \A w \in Iov : Home(w)' => Home(w)
      BY Zenon, <2>1, <2>3, <2>4 DEF Home
    <2>6. Home(y)
      BY Zenon, <2>3, <2>4 DEF Home
    <2> QED
      BY Zenon, <2>1, <2>4, <2>5, <2>6, FlightSend
  <1>15. CASE \E s \in Sock : UdpRx(s)
    <2> DEFINE x == Head(pool)
    <2>1. PICK s \in Sock : UdpRx(s)
      BY Zenon, <1>15
    <2>2. /\ pool # <<>> /\ pool' = Tail(pool) /\ iv' = [iv EXCEPT ![s] = Append(iv[s], x)]
          /\ UNCHANGED <<slot_buf, dropped, tosend, wait>>
      BY Zenon, <2>1 DEF UdpRx
    <2>3. x \in Iov /\ Home(x) /\ Range(pool') \subseteq Range(pool)
      BY Zenon, <2>2, HomeSteps
    <2> HIDE DEF x
    <2>4. \A t \in Sock : Range(iv'[t]) \subseteq Range(iv[t]) \cup {x}
      <3>1. iv[s] \in Seq(Iov) /\ \A t \in Sock : iv'[t] = IF t = s THEN Append(iv[s], x) ELSE iv[t]
        BY Zenon, <2>2 DEF RestType
      <3>2. Range(Append(iv[s], x)) = Range(iv[s]) \cup {x}
        <4> DEFINE e == iv[s]
        <4>1. e \in Seq(Iov)
          BY Zenon, <3>1
        <4> HIDE DEF e
        <4>2. Append(e, x) = e \o <<x>> /\ Range(e \o <<x>>) = Range(e) \cup {x}
          BY SMTT(60), <2>3, <4>1, PushFacts
        <4> QED
          BY Zenon, <4>2 DEF e
      <3> QED
        BY Zenon, <3>1, <3>2
    <2>5. \A w \in Iov : Home(w)' => Home(w)
      BY Zenon, <2>2, <2>3, <2>4 DEF Home
    <2>6. ASSUME AppWaits, ~Pipe PROVE OwnInv' /\ HomeInv' /\ WaitSlotInv'
      <3>1. OwnInv /\ HomeInv /\ WaitSlotInv /\ ~Slotted(x)
        BY Zenon, <2>3, <2>6 DEF FlightInv, HomeInv
      <3>2. OwnInv'
        BY Zenon, <2>1, <3>1, OwnRx DEF x
      <3> QED
        BY Zenon, <2>2, <2>5, <3>1, <3>2 DEF HomeInv, WaitSlotInv, Slotted
    <2> QED
      BY Zenon, <2>6 DEF FlightInv
  <1>16. CASE \E v \in Iov : UdpTxFull(v) \/ UdpTxResolve(v)
    BY Zenon, <1>16, FlightStays DEF UdpTxFull, UdpTxResolve, Home
  <1>17. CASE \E v \in Iov : UdpTxSent(v)
    <2> SUFFICES ASSUME AppWaits, ~Pipe PROVE FlightInv'
      BY Zenon DEF FlightInv
    <2>1. PICK v \in Iov : UdpTxSent(v)
      BY Zenon, <1>17
    <2>2. PICK q \in TxRing : EthTx(v, q)
      BY Zenon, <2>1 DEF UdpTxSent
    <2>3. /\ v \in tosend /\ tosend' = tosend \ {v} /\ UNCHANGED <<base, pool, iv, dropped, app, wait>>
          /\ wait.v = None
      BY Zenon, <2>1 DEF UdpTxSent, Sending, NoNicRx, NoEthTx
    <2>4. Home(v) /\ v \in app' /\ v \notin tosend' /\ \A w \in Iov : Home(w)' => Home(w)
      BY Zenon, <2>3 DEF Home, PartInv
    <2>5. ~Home(v)'
      BY Zenon, <2>4, NotHome
    <2> QED
      BY ZenonT(60), <2>2, <2>3, <2>4, <2>5, FlightEthTx
  <1> QED
    BY Zenon, <1>1, <1>2, <1>3, <1>4, <1>5, <1>6, <1>7, <1>8, <1>9, <1>10, <1>11, <1>12, <1>13, <1>14,
       <1>15, <1>16, <1>17 DEF Next, Step, Call

-----------------------------------------------------------------------------
\* Reclaiming a slot brings every other slot of the ring one step closer.
LEMMA DistSteps ==
    ASSUME NEW n \in Nat \ {0, 1}, NEW o \in 0 .. n - 1, NEW j \in 0 .. n - 1,
           NEW k \in 0 .. n - 1
    PROVE  /\ j # o /\ k # o /\ Dist(o, k, n) <= Dist(o, j, n)
                => Dist(RingNext(o, n), k, n) <= Dist(RingNext(o, n), j, n)
           /\ Dist(o, k, n) <= Dist(o, o, n) => k = o
           /\ Dist(o, k, n) \in Int /\ Dist(o, k, n) <= Dist(o, k, n)
  BY DEF Dist, RingNext

\* eth_tx_and_free() starts to wait.
LEMMA WaitSend ==
    ASSUME RingCore, FlightInv, NEW v \in Iov, Home(v), EthTxAndFree(v), btail' = btail
    PROVE  WaitInv'
  <1> SUFFICES ASSUME ~Pipe, wait'.slot # None, AppWaits \/ NTx = 1
               PROVE  WaitInv'
    BY ZenonT(60) DEF WaitInv
  <1>1. PICK q \in TxRing :
          /\ EthTx(v, q)
          /\ wait' = [v |-> v, orig |-> OrigIdx(v), slot |-> <<q, txcur[q]>>, synced |-> FALSE]
    BY SMTT(60) DEF EthTxAndFree
  <1> DEFINE c == txcur[q]
             o == RingNext(btail[q], TxN)
  <1>2. wait'.v = v /\ wait'.orig = bidx[IovH(v)] /\ wait'.slot[1] = q /\ wait'.slot[2] = c
    BY Zenon, <1>1 DEF OrigIdx
  <1>3. /\ c \in TxSlot /\ bidx'[TxH(q, c)] = bidx[IovH(v)]
        /\ \A r \in TxRing, j \in TxSlot :
             slot_buf'[r][j] = IF r = q /\ j = c THEN v ELSE slot_buf[r][j]
    BY ZenonT(60), <1>1, EthTxStep
  <1>4. v # None /\ TxType /\ Window(q)
    BY Zenon, ValuesAssumption DEF RingCore, RingInv
  <1>5. o \in TxSlot /\ TxN \in Nat \ {0, 1} /\ TxSlot = 0 .. TxN - 1
    BY Zenon, <1>4, TxTypes, SizesAssumption DEF TxSlot
  <1>6. ASSUME NEW r \in TxRing, NEW k \in TxSlot, slot_buf'[r][k] = v
        PROVE  r = q /\ Dist(o, k, TxN) <= Dist(o, c, TxN)
    <2>1. CASE r = q /\ k = c
      BY ZenonT(60), <1>3, <1>5, <2>1, DistSteps
    <2>2. CASE ~(r = q /\ k = c)
      <3>1. slot_buf[r][k] = v
        BY ZenonT(60), <1>3, <1>6, <2>2
      <3>2. NTx = 1
        BY Zenon, <3>1 DEF FlightInv, HomeInv, Slotted
      <3>3. r = q
        BY SMTT(60), <3>2 DEF TxRing
      <3>4. Within(k, btail[q], c, TxN)
        BY Zenon, <1>4, <3>1, <3>3 DEF Window
      <3>5. Dist(o, k, TxN) < Dist(o, c, TxN)
        BY Zenon, <3>4 DEF Within
      <3> DEFINE a == Dist(o, k, TxN)
                 b == Dist(o, c, TxN)
      <3>6. a \in Int /\ b \in Int /\ a < b
        <4>1. a \in Int /\ b \in Int
          BY Zenon, <1>3, <1>5, DistSteps
        <4> QED
          BY Zenon, <3>5, <4>1
      <3> HIDE DEF a, b
      <3>7. a <= b
        BY SMTT(60), <3>6
      <3> QED
        BY Zenon, <3>3, <3>7 DEF a, b
    <2> QED
      BY Zenon, <2>1, <2>2
  <1>7. slot_buf'[q][c] = v
    BY Zenon, <1>3
  <1>8. RingNext(btail'[q], TxN) = o
    BY Zenon
  <1> HIDE DEF c, o
  <1>9. /\ bidx'[TxH(q, c)] = wait'.orig
        /\ \A r \in TxRing, k \in TxSlot : slot_buf'[r][k] = wait'.v =>
             r = q /\ Dist(o, k, TxN) <= Dist(o, c, TxN)
    BY Zenon, <1>2, <1>3, <1>6
  <1> QED
    BY <1>2, <1>7, <1>8, <1>9, Zenon DEF WaitInv

\* w_nic_tx() empties the slot that is waited for, or another one.
LEMMA WaitReclaim ==
    ASSUME RingCore, RestType, WaitInv, Reclaim
    PROVE  WaitInv'
  <1>0. wait' = wait
    BY Zenon DEF Reclaim
  <1> SUFFICES ASSUME ~Pipe, wait.v # None, wait.slot # None, AppWaits \/ NTx = 1
               PROVE  WaitInv'
    BY ZenonT(60), <1>0 DEF WaitInv
  <1> DEFINE u == wait.v
             r == wait.slot[1]
             j == wait.slot[2]
             o == RingNext(btail[r], TxN)
             on == RingNext(btail'[r], TxN)
  <1>1. u \in Iov /\ r \in TxRing /\ j \in TxSlot
    BY Zenon, WaitTypes
  <1>2. PICK q \in TxRing, k \in TxSlot, v \in Iov :
             /\ k = RingNext(btail[q], TxN) /\ btail' = [btail EXCEPT ![q] = k]
             /\ slot_buf[q][k] = v
             /\ \A p \in TxRing, m \in TxSlot :
                  slot_buf'[p][m] = IF p = q /\ m = k THEN None ELSE slot_buf[p][m]
             /\ bidx'[IovH(v)] = bidx[TxH(q, k)]
             /\ \A p \in TxRing, m \in TxSlot :
                  ~(p = q /\ m = k) => bidx'[TxH(p, m)] = bidx[TxH(p, m)]
             /\ \A w \in Iov : w # v => bidx'[IovH(w)] = bidx[IovH(w)]
    BY ZenonT(60), ReclaimStep
  <1>3. /\ TxN \in Nat \ {0, 1} /\ TxSlot = 0 .. TxN - 1 /\ o \in TxSlot
        /\ btail \in [TxRing -> TxSlot]
    BY Zenon, <1>1, TxTypes, SizesAssumption DEF TxSlot, RingCore, TxType
  <1>4. IF slot_buf[r][j] = u
          THEN /\ bidx[TxH(r, j)] = wait.orig
               /\ \A p \in TxRing, m \in TxSlot : slot_buf[p][m] = u =>
                    p = r /\ Dist(o, m, TxN) <= Dist(o, j, TxN)
          ELSE bidx[IovH(u)] = wait.orig /\ ~Slotted(u)
    BY Zenon DEF WaitInv
  <1>5. on = IF q = r THEN RingNext(o, TxN) ELSE o
    BY Zenon, <1>1, <1>2, <1>3
  <1>6. q = r => k = o
    BY Zenon, <1>2
  <1> SUFFICES IF slot_buf'[r][j] = u
                 THEN /\ bidx'[TxH(r, j)] = wait.orig
                      /\ \A p \in TxRing, m \in TxSlot : slot_buf'[p][m] = u =>
                           p = r /\ Dist(on, m, TxN) <= Dist(on, j, TxN)
                 ELSE /\ bidx'[IovH(u)] = wait.orig
                      /\ \A p \in TxRing, m \in TxSlot : slot_buf'[p][m] # u
    BY ZenonT(60), <1>0 DEF WaitInv, Slotted
  <1> HIDE DEF u, r, j, o, on
  <1>7. u # None
    BY Zenon DEF u
  <1>8. CASE slot_buf[r][j] # u
    <2>1. v # u /\ \A p \in TxRing, m \in TxSlot : slot_buf[p][m] # u
      BY Zenon, <1>2, <1>4, <1>8 DEF Slotted
    <2>2. ASSUME NEW p \in TxRing, NEW m \in TxSlot
          PROVE  slot_buf'[p][m] # u
      <3>1. slot_buf'[p][m] = IF p = q /\ m = k THEN None ELSE slot_buf[p][m]
        BY Zenon, <1>2
      <3>2. slot_buf[p][m] # u
        BY Zenon, <2>1
      <3> QED
        BY Zenon, <1>7, <3>1, <3>2
    <2> QED
      BY Zenon, <1>1, <1>2, <1>4, <1>8, <2>1, <2>2
  <1>9. CASE slot_buf[r][j] = u /\ q = r /\ k = j
    <2>1. v = u /\ j = o
      BY Zenon, <1>2, <1>6, <1>9
    <2>2. \A p \in TxRing, m \in TxSlot : slot_buf[p][m] = u => p = r /\ m = j
      <3> SUFFICES ASSUME NEW p \in TxRing, NEW m \in TxSlot, slot_buf[p][m] = u
                   PROVE  p = r /\ m = j
        BY Zenon
      <3>1. p = r /\ Dist(o, m, TxN) <= Dist(o, j, TxN)
        BY Zenon, <1>4, <1>9
      <3>2. Dist(o, m, TxN) <= Dist(o, o, TxN)
        BY ZenonT(60), <2>1, <3>1, Zenon
      <3>3. o \in 0 .. TxN - 1 /\ m \in 0 .. TxN - 1 /\ TxN \in Nat \ {0, 1}
        BY Zenon, <1>3
      <3>4. m = o
        BY Zenon, <3>2, <3>3, DistSteps
      <3> QED
        BY Zenon, <2>1, <3>1, <3>4
    <2>3. \A p \in TxRing, m \in TxSlot : slot_buf'[p][m] # u
      BY <1>2, <1>7, <1>9, <2>2
    <2> QED
      BY ZenonT(60), <1>1, <1>2, <1>4, <1>9, <2>1, <2>3
  <1>10. CASE slot_buf[r][j] = u /\ ~(q = r /\ k = j)
    <2>1. slot_buf'[r][j] = u /\ bidx'[TxH(r, j)] = wait.orig
      BY ZenonT(60), <1>1, <1>2, <1>4, <1>10
    <2>2. ASSUME NEW p \in TxRing, NEW m \in TxSlot, slot_buf'[p][m] = u
          PROVE  p = r /\ Dist(on, m, TxN) <= Dist(on, j, TxN)
      <3>1. slot_buf[p][m] = u /\ ~(p = q /\ m = k)
        BY Zenon, <1>2, <1>7, <2>2
      <3>2. p = r /\ Dist(o, m, TxN) <= Dist(o, j, TxN)
        BY Zenon, <1>4, <1>10, <3>1
      <3>3. CASE q = r
        <4>1. m # o /\ j # o /\ on = RingNext(o, TxN)
          BY Zenon, <1>5, <1>6, <1>10, <3>1, <3>2, <3>3
        <4>2. Dist(RingNext(o, TxN), m, TxN) <= Dist(RingNext(o, TxN), j, TxN)
          BY Zenon, <1>1, <1>3, <3>2, <4>1, DistSteps
        <4> QED
          BY Zenon, <3>2, <4>1, <4>2
      <3>4. CASE q # r
        BY ZenonT(60), <1>5, <3>2, <3>4
      <3> QED
        BY Zenon, <3>3, <3>4
    <2> QED
      BY Zenon, <2>1, <2>2
  <1> QED
    BY Zenon, <1>8, <1>9, <1>10

\* Every step keeps what is known of the frame that is waited for.
LEMMA WaitNext ==
    ASSUME RingCore, RestType, PartInv, FlightInv, WaitInv, [Next]_vars
    PROVE  WaitInv'
  <1> USE DEF bufVars, ringVars
  <1>0. pool # <<>> => Head(pool) \in Iov /\ Home(Head(pool))
    BY Zenon, HomeSteps
  <1>1. CASE UNCHANGED <<bidx, slot_buf, btail, wait>>
    BY Zenon, <1>1 DEF WaitInv, Slotted
  <1>2. CASE wait'.v = None
    BY Zenon, <1>2 DEF WaitInv
  <1>3. CASE UNCHANGED vars \/ NicTx \/ WhoHasRx \/ (\E b \in BOOLEAN : NicRx(b))
               \/ (\E s \in Sock : Bind(s)) \/ Alloc \/ (\E q \in SUBSET app : Tx(q))
               \/ (\E v \in app : Free(v)) \/ \E s \in Sock : Rx(s) \/ Close(s)
    BY Zenon, <1>1, <1>3 DEF vars, NicTx, WhoHasRx, NicRx, Bind, Alloc, Tx, Free, Rx, Close
  <1>4. CASE Poll \/ RxRingDone \/ RxOther \/ (\E r \in TxRing : NicSend(r)) \/ UdpRxReject
               \/ \E v \in Iov : UdpTxFull(v) \/ UdpTxResolve(v)
    BY ZenonT(60), <1>1, <1>4 DEF Poll, RxRingDone, RxOther, NicSend, UdpRxReject, UdpTxFull, UdpTxResolve
  <1>5. CASE (\E s \in Sock : UdpRx(s)) \/ EthTxAndFreeDone \/ \E v \in Iov : UdpTxSent(v)
    <2>1. (\E s \in Sock : UdpRx(s)) => wait'.v = None
      BY ZenonT(60) DEF UdpRx, Handling, NoEthTx
    <2>2. EthTxAndFreeDone => wait'.v = None
      BY SMTT(60) DEF EthTxAndFreeDone, NoWait
    <2>3. (\E v \in Iov : UdpTxSent(v)) => wait'.v = None
      BY Zenon DEF UdpTxSent, Sending, NoNicRx, NoEthTx
    <2> QED
      BY Zenon, <1>2, <1>5, <2>1, <2>2, <2>3
  <1>6. CASE EthTxAndFreeSync
    <2>1. /\ wait'.v = wait.v /\ wait'.orig = wait.orig /\ wait'.slot = wait.slot
          /\ UNCHANGED <<bidx, slot_buf, btail>>
      BY Zenon, <1>6 DEF EthTxAndFreeSync, RestType, WaitType
    <2> QED
      BY Zenon, <2>1 DEF WaitInv, Slotted
  <1>7. CASE Reclaim
    BY Zenon, <1>7, WaitReclaim
  <1>8. CASE WhoHasQuery
    BY Zenon, <1>0, <1>1, <1>8, WaitSend DEF WhoHasQuery
  <1>9. CASE RxQuery
    BY Zenon, <1>0, <1>9, WaitSend DEF RxQuery
  <1>10. CASE UdpRxUnreach
    <2> DEFINE e == Tail(pool)
    <2>1. Len(pool) > 1 /\ EthTxAndFree(Head(e)) /\ btail' = btail
      BY Zenon, <1>10 DEF UdpRxUnreach
    <2>2. pool # <<>> /\ e # <<>>
      BY <2>1, SeqTypes DEF RestType
    <2>3. e \in Seq(Iov) /\ Range(e) \subseteq Range(pool) /\ IsInjective(e)
      BY Zenon, <2>2, PoolPop
    <2> HIDE DEF e
    <2>4. Head(e) \in Range(e) /\ Head(e) \in Iov
      BY <2>2, <2>3, PopFacts, SeqTypes
    <2>5. Home(Head(e))
      BY Zenon, <2>3, <2>4 DEF Home
    <2> QED
      BY Zenon, <2>1, <2>4, <2>5, WaitSend
  <1> QED
    BY Zenon, <1>3, <1>4, <1>5, <1>6, <1>7, <1>8, <1>9, <1>10 DEF Next, Step, Call

\* A pipe never exchanges the buffers of a w_iov and a TX slot.
LEMMA PipeNext ==
    ASSUME RingCore, RestType, PipeInv, [Next]_vars
    PROVE  PipeInv'
  <1> SUFFICES ASSUME Pipe PROVE \A v \in Iov : base'[v] = bidx'[IovH(v)]
    BY Zenon DEF PipeInv
  <1> USE DEF bufVars, ringVars
  <1>0. \A v \in Iov : base[v] = bidx[IovH(v)]
    BY Zenon DEF PipeInv
  <1>1. CASE UNCHANGED <<bidx, base>>
    BY Zenon, <1>0, <1>1
  <1>2. CASE UNCHANGED vars \/ NicTx \/ WhoHasRx \/ (\E b \in BOOLEAN : NicRx(b))
               \/ (\E s \in Sock : Bind(s)) \/ Alloc \/ (\E q \in SUBSET app : Tx(q))
               \/ (\E v \in app : Free(v)) \/ \E s \in Sock : Rx(s) \/ Close(s)
    BY Zenon, <1>1, <1>2 DEF vars, NicTx, WhoHasRx, NicRx, Bind, Alloc, Tx, Free, Rx, Close
  <1>3. CASE Poll \/ RxRingDone \/ RxOther \/ (\E r \in TxRing : NicSend(r)) \/ UdpRxReject
               \/ EthTxAndFreeSync \/ EthTxAndFreeDone
               \/ \E v \in Iov : UdpTxFull(v) \/ UdpTxResolve(v)
    BY Zenon, <1>1, <1>3 DEF Poll, RxRingDone, RxOther, NicSend, UdpRxReject, UdpTxFull, UdpTxResolve,
                      EthTxAndFreeSync, EthTxAndFreeDone
  <1>4. CASE Reclaim
    BY Zenon, <1>4 DEF Reclaim
  <1>5. CASE WhoHasQuery \/ RxQuery \/ UdpRxUnreach \/ \E v \in Iov : UdpTxSent(v)
    BY ZenonT(60), <1>1, <1>5 DEF WhoHasQuery, RxQuery, UdpRxUnreach, UdpTxSent, EthTxAndFree, EthTx
  <1>6. CASE \E s \in Sock : UdpRx(s)
    <2>1. PICK s \in Sock : UdpRx(s)
      BY Zenon, <1>6
    <2>2. /\ base'[Head(pool)] = bidx'[IovH(Head(pool))]
          /\ \A w \in Iov : w # Head(pool) =>
               bidx'[IovH(w)] = bidx[IovH(w)] /\ base'[w] = base[w]
      BY Zenon, <2>1, RxStep
    <2> QED
      BY Zenon, <1>0, <2>2
  <1> QED
    BY ZenonT(60), <1>2, <1>3, <1>4, <1>5, <1>6 DEF Next, Step, Call

\* Nothing is in flight at first.
LEMMA FlightInit == ASSUME Init PROVE FlightInv /\ WaitInv /\ PipeInv
  <1>1. \A r \in TxRing, j \in TxSlot : slot_buf[r][j] = None
    BY Zenon DEF Init
  <1>2. \A v \in Iov : ~Slotted(v) /\ base[v] = bidx[IovH(v)]
    BY ZenonT(60), <1>1, ValuesAssumption DEF Slotted, Init
  <1>3. wait.v = None
    BY Zenon DEF Init, NoWait
  <1>4. OwnInv /\ HomeInv /\ WaitSlotInv
    BY Zenon, <1>1, <1>2 DEF OwnInv, HomeInv, WaitSlotInv
  <1> QED
    BY ZenonT(60), <1>2, <1>3, <1>4 DEF FlightInv, WaitInv, PipeInv

\* So the three hold in every state.
LEMMA FlightInvariant == Spec => [](FlightInv /\ WaitInv /\ PipeInv)
  <1>1. Init => FlightInv /\ WaitInv /\ PipeInv
    BY Zenon, FlightInit
  <1>2. /\ RingCore /\ RestType /\ PartInv /\ PartInv' /\ FlightInv /\ WaitInv /\ PipeInv
        /\ [Next]_vars
        => (FlightInv /\ WaitInv /\ PipeInv)'
    BY Zenon, FlightNext, WaitNext, PipeNext
  <1> QED
    BY <1>1, <1>2, RingInvariant, PartInvariant, PTL DEF Spec

\* While eth_tx_and_free() waits, v->idx = orig_idx holds exactly when w_nic_tx()
\* has cleared the slot of its frame, for an application that leaves w_iovs in
\* flight alone or for an interface with a single TX ring.
THEOREM CompletionTestSound == Spec => [](AppWaits \/ NTx = 1 => CompletionTest)
  <1>1. RingCore /\ RestType /\ WaitInv => (AppWaits \/ NTx = 1 => CompletionTest)
    BY Zenon, CompletionFacts
  <1> QED
    BY <1>1, RingInvariant, FlightInvariant, PTL

\* For such an application, and on a pipe for any, a w_iov that is not in flight
\* points to the buffer it owns, and one in flight to the one it will get back.
THEOREM BaseIsOwned == Spec => []BaseOwned
  <1>1. RingCore /\ FlightInv /\ PipeInv => BaseOwned
    <2> SUFFICES ASSUME RingCore, FlightInv, PipeInv, AppWaits \/ Pipe, NEW v \in Iov
                 PROVE  IF InFlight(v)
                          THEN \A r \in TxRing, j \in TxSlot :
                                 slot_buf[r][j] = v => base[v] = bidx[TxH(r, j)]
                          ELSE base[v] = bidx[IovH(v)]
      BY Zenon DEF BaseOwned
    <2>1. CASE Pipe
      BY Zenon, <2>1 DEF InFlight, PipeInv
    <2>2. CASE ~Pipe
      <3>1. OwnInv /\ v # None /\ (InFlight(v) <=> Slotted(v))
        BY Zenon, <2>2, ValuesAssumption DEF InFlight, Slotted, FlightInv
      <3>2. \A r \in TxRing, j \in TxSlot : slot_buf[r][j] = v => base[v] = bidx[TxH(r, j)]
        BY Zenon, <3>1 DEF OwnInv
      <3> QED
        BY ZenonT(60), <3>1, <3>2 DEF OwnInv
    <2> QED
      BY Zenon, <2>1, <2>2
  <1> QED
    BY <1>1, RingInvariant, FlightInvariant, PTL

-----------------------------------------------------------------------------
(* The buffers that backend_cleanup() returns.                             *)

INSTANCE FiniteSetTheorems

\* The pool holds at most all w_iovs: backend_cleanup() stays within w->bufs.
LEMMA PoolBounded == ASSUME RestType, PartInv PROVE Len(pool) \in 0 .. NBufs
  <1>1. /\ pool \in [1 .. Len(pool) -> Iov] /\ Len(pool) \in Nat /\ NBufs \in Nat
        /\ DOMAIN pool = 1 .. Len(pool)
    BY SMTT(60), SizesAssumption DEF RestType
  <1>2. /\ IsFiniteSet(1 .. Len(pool)) /\ Cardinality(1 .. Len(pool)) = Len(pool)
        /\ IsFiniteSet(Iov) /\ Cardinality(Iov) = NBufs
    <2>1. ASSUME NEW n \in Nat PROVE IsFiniteSet(1 .. n) /\ Cardinality(1 .. n) = n
      <3>1. /\ IsFiniteSet(1 .. n)
            /\ Cardinality(1 .. n) = IF 1 > n THEN 0 ELSE n - 1 + 1
        BY SMTT(60), FS_Interval
      <3> QED
        BY SMTT(60), <3>1
    <2> QED
      BY Zenon, <1>1, <2>1 DEF Iov
  <1>3. ASSUME NBufs < Len(pool) PROVE FALSE
    <2>1. \E x, y \in 1 .. Len(pool) : x # y /\ pool[x] = pool[y]
      BY Zenon, <1>1, <1>2, <1>3, FS_PigeonHole
    <2> QED
      BY Zenon, <1>1, <2>1 DEF PartInv, IsInjective
  <1> QED
    BY SMTT(60), <1>1, <1>3

\* What backend_cleanup() gives back is what no ring has, and with every w_iov in the
\* pool all of it.
LEMMA ExtraFacts == ASSUME RingCore, RestType, PartInv PROVE ExtraSound
  <1> DEFINE inRings == {bidx[g] : g \in Holder \ {IovH(v) : v \in Iov}}
             l == IF pool = <<>> THEN 1 ELSE Len(pool)
  <1>1. 1 .. l \subseteq Iov /\ (Len(pool) = NBufs => 1 .. l = Iov)
    <2>1. NBufs \in Nat /\ NBufs >= 1 /\ Len(pool) \in Nat /\ Len(pool) <= NBufs
      BY SMTT(60), PoolBounded, SizesAssumption
    <2>2. l \in Nat /\ l <= NBufs /\ (Len(pool) = NBufs => l = NBufs)
      BY SMTT(60), <2>1
    <2> QED
      BY ONLY SMTT(60), <2>1, <2>2 DEF Iov
  <1>2. /\ bidx \in [Holder -> Buf] /\ DOMAIN bidx = Holder
        /\ \A g, k \in Holder : bidx[g] = bidx[k] => g = k
    BY Zenon DEF RingCore, TxType, BufConservation, IsInjective
  <1>3. /\ DOMAIN ExtraBufs = 1 .. l
        /\ \A n \in 1 .. l : ExtraBufs[n] = bidx[IovH(n)] /\ IovH(n) \in Holder
    BY Zenon, <1>1, HolderFacts DEF ExtraBufs
  <1>4. IsInjective(ExtraBufs)
    BY SMTT(60), <1>1, <1>2, <1>3, HolderFacts DEF IsInjective
  <1>5. Range(ExtraBufs) = {bidx[IovH(n)] : n \in 1 .. l}
    BY Zenon, <1>3 DEF Range
  <1>6. Range(ExtraBufs) \cap inRings = {}
    <2>1. ASSUME NEW n \in 1 .. l, NEW g \in Holder \ {IovH(v) : v \in Iov},
                 bidx[IovH(n)] = bidx[g]
          PROVE  FALSE
      <3>1. n \in Iov /\ g = IovH(n)
        BY Zenon, <1>1, <1>2, <1>3, <2>1
      <3> QED
        BY Zenon, <2>1, <3>1
    <2> QED
      BY Zenon, <1>5, <2>1
  <1>7. ASSUME Len(pool) = NBufs PROVE Range(ExtraBufs) \cup inRings = Range(bidx)
    <2>1. Range(ExtraBufs) = {bidx[IovH(n)] : n \in Iov}
      BY Zenon, <1>1, <1>5, <1>7
    <2>2. Range(bidx) = {bidx[g] : g \in Holder}
      BY Zenon, <1>2 DEF Range
    <2>3. \A n \in Iov : IovH(n) \in Holder
      BY Zenon, HolderFacts
    <2> QED
      BY Zenon, <2>1, <2>2, <2>3
  <1>8. ASSUME pool # <<>>
        PROVE  (Range(ExtraBufs) \cup (ExtraAfter \ {0})) \cap inRings = {}
    BY Zenon, <1>6, <1>8 DEF ExtraAfter
  <1> QED
    BY ZenonT(60), <1>4, <1>6, <1>7, <1>8 DEF ExtraSound

\* backend_cleanup() gives netmap no buffer twice and none of a ring if a w_iov is in
\* the pool, and every extra buffer if all are; of the list it leaves when the pool is
\* empty, it only fixes the head.
THEOREM ExtraBufsSound == Spec => []ExtraSound
  <1>1. RingCore /\ RestType /\ PartInv => ExtraSound
    BY Zenon, ExtraFacts
  <1> QED
    BY <1>1, RingInvariant, PartInvariant, PTL
=============================================================================
