------------------------- MODULE SockBackendProofs --------------------------
(***************************************************************************)
(* Proofs about the backends that use the sockets of an operating system,  *)
(* for any number of sockets and w_iovs and any size of batches, event     *)
(* buffers and queues.  The inductive invariant has four parts: RxInv for  *)
(* the datagrams, BufInv for the w_iovs, TxInv for w_tx() and EvInv for    *)
(* the lists of ready sockets.                                             *)
(***************************************************************************)
EXTENDS SockBackend, TLAPS

\* Datagram numbers.
Num == 0 .. Seqs - 1

\* The w_iovs: IovPartition, without the types of the rest.
BufInv ==
    /\ pool \in Seq(Iov) /\ app \subseteq Iov /\ IsInjective(pool)
    /\ Range(pool) \cap app = {} /\ Range(pool) \cup app = Iov

\* Datagrams: InOrder, with types.
Chain(q, g, a) ==
    /\ \A k \in 1 .. Len(q) : q[k] = Succ(IF k = 1 THEN g ELSE q[k - 1])
    /\ a = IF q = <<>> THEN g ELSE q[Len(q)]

\* The datagrams of a socket are in a chain, from the last one read to the last one
\* that arrived.
RxInv ==
    /\ variant \in Variants /\ inetd \in BOOLEAN /\ told \in BOOLEAN
    /\ open \subseteq Sock /\ rxs \in Sock \cup {None}
    /\ kq \in [Sock -> Seq(Num)]
    /\ arr \in [Sock -> Num] /\ got \in [Sock -> Num]
    /\ \A s \in Sock : Chain(kq[s], got[s], arr[s])

\* Succ of a datagram number is one.
LEMMA SuccType == ASSUME NEW n \in Num PROVE Succ(n) \in Num
  <1>1. Seqs \in Nat /\ Seqs > 0
    BY ConstAssumption
  <1>2. \A m \in Nat : m % Seqs \in Num
    BY <1>1 DEF Num
  <1> QED
    BY SMTT(60), <1>1, <1>2 DEF Succ, Num

\* The chains are what InOrder says.
LEMMA InOrderChain == ASSUME RxInv PROVE InOrder
  <1> SUFFICES ASSUME NEW s \in Sock
               PROVE  LET all == <<got[s]>> \o kq[s]
                      IN  /\ \A k \in 1 .. Len(kq[s]) : all[k + 1] = Succ(all[k])
                          /\ all[Len(all)] = arr[s]
    BY Zenon DEF InOrder
  <1> DEFINE q == kq[s]
             all == <<got[s]>> \o q
  <1>1. q \in Seq(Num) /\ got[s] \in Num /\ Chain(q, got[s], arr[s])
    BY Zenon DEF RxInv
  <1>2. Len(all) = Len(q) + 1 /\ \A k \in 1 .. Len(q) + 1 : all[k] = IF k = 1 THEN got[s] ELSE q[k - 1]
    BY <1>1
  <1>3. Len(q) \in Nat /\ (q = <<>> <=> Len(q) = 0)
    BY <1>1
  <1> HIDE DEF q, all
  <1>4. \A k \in 1 .. Len(q) : all[k + 1] = Succ(all[k])
    BY <1>1, <1>2, <1>3 DEF Chain
  <1>5. all[Len(all)] = arr[s]
    BY <1>1, <1>2, <1>3 DEF Chain
  <1> QED
    BY Zenon, <1>4, <1>5 DEF q, all

\* A datagram that arrives is the successor of the last one.
LEMMA ChainAppend ==
  ASSUME NEW q \in Seq(Num), NEW g \in Num, NEW a, Chain(q, g, a)
  PROVE  Append(q, Succ(a)) \in Seq(Num) /\ Chain(Append(q, Succ(a)), g, Succ(a))
  <1>0. Len(q) \in Nat /\ (q = <<>> <=> Len(q) = 0) /\ \A k \in 1 .. Len(q) : q[k] \in Num
    OBVIOUS
  <1>1. a \in Num
    <2>1. a = IF q = <<>> THEN g ELSE q[Len(q)]
      BY Zenon DEF Chain
    <2>2. q # <<>> => Len(q) \in 1 .. Len(q)
      BY <1>0
    <2> QED
      BY Zenon, <1>0, <2>1, <2>2
  <1>2. Succ(a) \in Num
    BY Zenon, <1>1, SuccType
  <1> DEFINE b == Succ(a)
             r == Append(q, b)
  <1>3. r \in Seq(Num) /\ Len(r) = Len(q) + 1 /\ r[Len(q) + 1] = b
        /\ \A k \in 1 .. Len(q) : r[k] = q[k]
    BY <1>2
  <1>4. Len(q) \in Nat /\ (q = <<>> <=> Len(q) = 0) /\ r # <<>>
    BY <1>3
  <1>5. b = Succ(IF Len(q) = 0 THEN g ELSE q[Len(q)])
    BY Zenon, <1>4 DEF Chain
  <1> HIDE DEF b, r
  <1>6. \A k \in 1 .. Len(r) : r[k] = Succ(IF k = 1 THEN g ELSE r[k - 1])
    <2> SUFFICES ASSUME NEW k \in 1 .. Len(r)
                 PROVE  r[k] = Succ(IF k = 1 THEN g ELSE r[k - 1])
      BY Zenon
    <2>1. CASE k = Len(q) + 1
      <3>1. (k = 1 <=> Len(q) = 0) /\ k - 1 = Len(q) /\ r[k] = b
        BY <2>1, <1>3, <1>4
      <3>2. Len(q) # 0 => r[Len(q)] = q[Len(q)]
        BY <1>3, <1>4
      <3> QED
        BY Zenon, <3>1, <3>2, <1>5
    <2>2. CASE k \in 1 .. Len(q)
      <3>1. q[k] = Succ(IF k = 1 THEN g ELSE q[k - 1])
        BY Zenon, <2>2 DEF Chain
      <3>2. r[k] = q[k] /\ (k # 1 => r[k - 1] = q[k - 1])
        BY <2>2, <1>3, <1>4
      <3> QED
        BY Zenon, <3>1, <3>2
    <2> QED
      BY <2>1, <2>2, <1>3, <1>4
  <1>7. Chain(r, g, b)
    BY Zenon, <1>3, <1>4, <1>6 DEF Chain
  <1> QED
    BY Zenon, <1>3, <1>7 DEF b, r

\* Taking n datagrams from the head leaves the rest a chain.
LEMMA ChainRest ==
  ASSUME NEW q \in Seq(Num), NEW g \in Num, NEW a, Chain(q, g, a),
         NEW n \in 1 .. Len(q)
  PROVE  /\ Rest(q, n) \in Seq(Num) /\ q[n] \in Num
         /\ Chain(Rest(q, n), q[n], a)
  <1> DEFINE r == Rest(q, n)
  <1>1. r \in Seq(Num) /\ Len(r) = Len(q) - n /\ \A k \in 1 .. Len(r) : r[k] = q[n + k]
    BY DEF Rest
  <1>2. Len(q) \in Nat /\ (r = <<>> <=> Len(q) = n) /\ q # <<>> /\ n \in Nat \ {0}
    <2>1. Len(q) \in Nat /\ n \in Nat \ {0} /\ Len(q) >= 1
      OBVIOUS
    <2>2. r = <<>> <=> Len(r) = 0
      BY <1>1
    <2>3. q # <<>>
      BY <2>1
    <2> HIDE DEF r
    <2> QED
      BY <1>1, <2>1, <2>2, <2>3
  <1> HIDE DEF r
  <1>3. ASSUME NEW k \in 1 .. Len(r) PROVE r[k] = Succ(IF k = 1 THEN q[n] ELSE r[k - 1])
    <2>1. n + k \in 1 .. Len(q) /\ n + k # 1 /\ r[k] = q[n + k] /\ n + k - 1 = n + (k - 1)
      BY <1>1, <1>2
    <2>2. q[n + k] = Succ(q[n + k - 1])
      BY <2>1 DEF Chain
    <2>3. q[n + k - 1] = IF k = 1 THEN q[n] ELSE r[k - 1]
      <3>1. CASE k = 1
        <4>1. n + k - 1 = n
          BY <3>1, <1>2
        <4> QED
          BY Zenon, <3>1, <4>1
      <3>2. CASE k # 1
        <4>1. k - 1 \in 1 .. Len(r)
          BY <3>2, <1>1, <1>2
        <4> QED
          BY Zenon, <3>2, <4>1, <1>1, <2>1
      <3> QED
        BY Zenon, <3>1, <3>2
    <2> QED
      BY Zenon, <2>1, <2>2, <2>3
  <1>4. a = IF r = <<>> THEN q[n] ELSE r[Len(r)]
    <2>1. a = q[Len(q)]
      BY Zenon, <1>2 DEF Chain
    <2>2. CASE Len(q) = n
      BY Zenon, <1>2, <2>1, <2>2
    <2>3. CASE Len(q) # n
      <3>1. Len(r) \in 1 .. Len(r) /\ n + Len(r) = Len(q)
        BY <1>1, <1>2, <2>3
      <3>2. r[Len(r)] = q[Len(q)]
        BY Zenon, <1>1, <3>1
      <3> QED
        BY Zenon, <1>2, <2>1, <2>3, <3>2
    <2> QED
      BY Zenon, <2>2, <2>3
  <1>5. Chain(r, q[n], a)
    BY Zenon, <1>3, <1>4 DEF Chain
  <1>6. q[n] \in Num
    OBVIOUS
  <1> QED
    BY Zenon, <1>1, <1>5, <1>6 DEF r

\* Tail is Rest by one.
LEMMA TailRest == ASSUME NEW S, NEW q \in Seq(S), q # <<>>
                  PROVE  Tail(q) = Rest(q, 1) /\ Head(q) = q[1] /\ 1 \in 1 .. Len(q)
  BY DEF Rest

\* w_rx() takes no more w_iovs than there are.
LEMMA TakenFacts ==
  ASSUME pool \in Seq(Iov)
  PROVE  NBufsTaken \in 0 .. Len(pool) /\ (pool # <<>> => NBufsTaken >= 1)
  <1>1. RecvMax \in Nat \ {0}
    BY ConstAssumption DEF RecvMax
  <1>2. Len(pool) \in Nat /\ (pool # <<>> => Len(pool) >= 1)
    OBVIOUS
  <1> QED
    BY <1>1, <1>2 DEF NBufsTaken, Least

\* No datagram has arrived yet.
LEMMA RxInvInit == Init => RxInv
  <1> SUFFICES ASSUME Init PROVE RxInv
    BY Zenon
  <1>1. 0 \in Num
    BY ConstAssumption DEF Num
  <1>2. Chain(<<>>, 0, 0)
    BY DEF Chain
  <1>3. \A s \in Sock : kq[s] = <<>> /\ got[s] = 0 /\ arr[s] = 0
    BY Zenon DEF Init
  <1>4. \A s \in Sock : Chain(kq[s], got[s], arr[s])
    BY <1>2, <1>3, Zenon
  <1>5. kq \in [Sock -> Seq(Num)] /\ arr \in [Sock -> Num]
        /\ got \in [Sock -> Num]
    BY <1>1 DEF Init
  <1> QED
    BY Zenon, <1>4, <1>5 DEF Init, RxInv

\* A step that takes n datagrams of rxs.
LEMMA RxTakes ==
  ASSUME RxInv, rxs # None, NEW n \in 1 .. Len(kq[rxs]),
         kq' = [kq EXCEPT ![rxs] = Rest(@, n)], got' = [got EXCEPT ![rxs] = kq[rxs][n]],
         rxs' \in {rxs, None}, UNCHANGED <<variant, inetd, told, open, arr>>
  PROVE  RxInv'
  <1>1. rxs \in Sock /\ kq[rxs] \in Seq(Num) /\ got[rxs] \in Num
        /\ Chain(kq[rxs], got[rxs], arr[rxs])
    BY Zenon DEF RxInv
  <1>2. /\ Rest(kq[rxs], n) \in Seq(Num) /\ kq[rxs][n] \in Num
        /\ Chain(Rest(kq[rxs], n), kq[rxs][n], arr[rxs])
    BY Zenon, <1>1, ChainRest
  <1>3. kq' \in [Sock -> Seq(Num)] /\ got' \in [Sock -> Num]
    BY Zenon, <1>1, <1>2 DEF RxInv
  <1>4. ASSUME NEW s \in Sock PROVE Chain(kq'[s], got'[s], arr'[s])
    <2>1. CASE s = rxs
      BY Zenon, <2>1, <1>1, <1>2 DEF RxInv
    <2>2. CASE s # rxs
      BY Zenon, <2>2, <1>1 DEF RxInv
    <2> QED
      BY Zenon, <2>1, <2>2
  <1> QED
    BY Zenon, <1>3, <1>4 DEF RxInv

\* Every step keeps the datagrams of every socket in order.
LEMMA RxInvNext == RxInv /\ BufInv /\ [Next]_vars => RxInv'
  <1> SUFFICES ASSUME RxInv, BufInv, [Next]_vars PROVE RxInv'
    BY Zenon
  <1>1. ASSUME NEW s \in Sock, Arrive(s) PROVE RxInv'
    <2>1. /\ kq' = [kq EXCEPT ![s] = Append(@, Succ(arr[s]))]
          /\ arr' = [arr EXCEPT ![s] = Succ(@)]
          /\ UNCHANGED <<variant, inetd, told, open, rxs, got>>
      BY Zenon, <1>1 DEF Arrive, build, evVars
    <2>2. kq[s] \in Seq(Num) /\ got[s] \in Num /\ arr[s] \in Num
          /\ Chain(kq[s], got[s], arr[s])
      BY Zenon DEF RxInv
    <2>3. /\ Append(kq[s], Succ(arr[s])) \in Seq(Num)
          /\ Chain(Append(kq[s], Succ(arr[s])), got[s], Succ(arr[s]))
      BY Zenon, <2>2, ChainAppend
    <2>4. Succ(arr[s]) \in Num
      BY Zenon, <2>2, SuccType
    <2>5. ASSUME NEW u \in Sock PROVE Chain(kq'[u], got'[u], arr'[u])
      <3>1. CASE u = s
        BY Zenon, <3>1, <2>1, <2>3 DEF RxInv
      <3>2. CASE u # s
        BY Zenon, <3>2, <2>1 DEF RxInv
      <3> QED
        BY Zenon, <3>1, <3>2
    <2>6. kq' \in [Sock -> Seq(Num)] /\ arr' \in [Sock -> Num]
      BY Zenon, <2>1, <2>3, <2>4 DEF RxInv
    <2> QED
      BY Zenon, <2>1, <2>5, <2>6 DEF RxInv
  <1>2. ASSUME NEW s \in Sock, Close(s) PROVE RxInv'
    <2>1. /\ kq' = [kq EXCEPT ![s] = <<>>] /\ arr' = [arr EXCEPT ![s] = 0]
          /\ got' = [got EXCEPT ![s] = 0] /\ open' = open \ {s}
          /\ UNCHANGED <<variant, inetd, told, rxs>>
      BY Zenon, <1>2 DEF Close, build
    <2>2. 0 \in Num /\ Chain(<<>>, 0, 0) /\ <<>> \in Seq(Num)
      BY ConstAssumption DEF Chain, Num
    <2>3. ASSUME NEW u \in Sock PROVE Chain(kq'[u], got'[u], arr'[u])
      <3>1. CASE u = s
        <4>1. kq'[s] = <<>> /\ got'[s] = 0 /\ arr'[s] = 0
          BY Zenon, <2>1 DEF RxInv
        <4> QED
          BY <3>1, <4>1, <2>2, Zenon
      <3>2. CASE u # s
        BY Zenon, <3>2, <2>1 DEF RxInv
      <3> QED
        BY Zenon, <3>1, <3>2
    <2>4. kq' \in [Sock -> Seq(Num)] /\ arr' \in [Sock -> Num]
          /\ got' \in [Sock -> Num]
      BY Zenon, <2>1, <2>2 DEF RxInv
    <2> QED
      BY Zenon, <2>1, <2>3, <2>4 DEF RxInv
  <1>3. ASSUME NEW n \in 1 .. RecvSize, RxBatch(n) PROVE RxInv'
    <2>1. /\ rxs # None /\ n \in 1 .. Least(NBufsTaken, Len(kq[rxs]))
          /\ kq' = [kq EXCEPT ![rxs] = Rest(@, n)]
          /\ got' = [got EXCEPT ![rxs] = kq[rxs][Inserted(n)[n]]]
          /\ rxs' \in {rxs, None} /\ UNCHANGED <<variant, inetd, told, open, arr>>
      BY Zenon, <1>3 DEF RxBatch, build, evVars
    <2>2. Inserted(n)[n] = n
      BY DEF Inserted
    <2>3. n \in 1 .. Len(kq[rxs])
      <3>1. rxs \in Sock /\ Len(kq[rxs]) \in Nat
        BY <2>1 DEF RxInv
      <3>2. NBufsTaken \in Nat
        BY TakenFacts DEF BufInv
      <3> QED
        BY <2>1, <3>1, <3>2 DEF Least
    <2> QED
      BY Zenon, <2>1, <2>2, <2>3, RxTakes
  <1>4. CASE RxEmpty \/ RxFrom
    <2>1. /\ rxs # None /\ kq[rxs] # <<>> /\ rxs' = None
          /\ kq' = [kq EXCEPT ![rxs] = Tail(@)] /\ got' = [got EXCEPT ![rxs] = Head(kq[rxs])]
          /\ UNCHANGED <<variant, inetd, told, open, arr>>
      BY Zenon, <1>4 DEF RxEmpty, RxFrom, build, evVars
    <2>2. rxs \in Sock /\ kq[rxs] \in Seq(Num)
      BY Zenon, <2>1 DEF RxInv
    <2>3. Tail(kq[rxs]) = Rest(kq[rxs], 1) /\ Head(kq[rxs]) = kq[rxs][1] /\ 1 \in 1 .. Len(kq[rxs])
      BY Zenon, <2>1, <2>2, TailRest
    <2>4. kq' = [kq EXCEPT ![rxs] = Rest(@, 1)] /\ got' = [got EXCEPT ![rxs] = kq[rxs][1]]
      BY Zenon, <2>1, <2>3
    <2> QED
      BY Zenon, <2>1, <2>3, <2>4, RxTakes
  <1>5. ASSUME UNCHANGED <<variant, inetd, kq, arr, got>>, told' \in BOOLEAN,
               open' \subseteq Sock, rxs' \in Sock \cup {None}
        PROVE  RxInv'
    BY Zenon, <1>5 DEF RxInv
  <1>6. ASSUME NEW s \in Sock, Bind(s) \/ RxAny(s) PROVE RxInv'
    BY Zenon, <1>5, <1>6 DEF Bind, RxAny, sockVars, build, evVars, RxInv
  <1>7. CASE NicRx \/ NicRxInterrupted \/ NicRxSelect \/ RxReady \/ RxReadySelect
    BY Zenon, <1>5, <1>7 DEF NicRx, NicRxInterrupted, NicRxSelect, RxReady, RxReadySelect,
                      sockVars, build, evVars, RxInv
  <1>8. CASE Serve
    BY Zenon, <1>5, <1>8 DEF Serve, sockVars, build, RxInv
  <1>9. CASE RxFromFails \/ RxNone \/ Alloc \/ TxReturn
    BY Zenon, <1>5, <1>9 DEF RxFromFails, RxNone, Alloc, TxReturn, sockVars, build, evVars, RxInv
  <1>10. ASSUME NEW o, Tx(o) PROVE RxInv'
    BY Zenon, <1>5, <1>10 DEF Tx, sockVars, build, evVars, RxInv
  <1>11. ASSUME NEW r, TxPass(r) PROVE RxInv'
    BY Zenon, <1>5, <1>11 DEF TxPass, sockVars, build, evVars, RxInv
  <1>12. ASSUME NEW v, Free(v) PROVE RxInv'
    BY Zenon, <1>5, <1>12 DEF Free, sockVars, build, evVars, RxInv
  <1>13. CASE UNCHANGED vars
    BY Zenon, <1>5, <1>13 DEF vars, sockVars, build, evVars, RxInv
  <1> QED
    BY Zenon, <1>1, <1>2, <1>3, <1>4, <1>6, <1>7, <1>8, <1>9, <1>10, <1>11, <1>12, <1>13
    DEF Next, TxBatch, TxTo

\* The pool after w_rx() has freed what it did not use: the same w_iovs, each once,
\* but for the first n.
LEMMA FreedFacts ==
  ASSUME BufInv, NEW m \in 0 .. Len(pool), NEW n \in 0 .. m
  PROVE  LET r == UnusedFreed(n, m)
         IN  /\ r \in Seq(Iov) /\ IsInjective(r)
             /\ \A x : x \in Range(r) <=> \E k \in n + 1 .. Len(pool) : x = pool[k]
  <1> DEFINE r == UnusedFreed(n, m)
             b == [k \in 1 .. m - n |-> pool[m + 1 - k]]
             c == Rest(pool, m)
             at(k) == IF k <= m - n THEN m + 1 - k ELSE k + n
  <1>1. pool \in Seq(Iov) /\ Len(pool) \in Nat /\ m \in Nat /\ n \in Nat /\ n <= m /\ m <= Len(pool)
    BY DEF BufInv
  <1>2. \A k \in 1 .. Len(pool) : pool[k] \in Iov
    BY <1>1
  <1>3. b \in Seq(Iov) /\ Len(b) = m - n /\ \A k \in 1 .. m - n : b[k] = pool[m + 1 - k]
    <2>1. \A k \in 1 .. m - n : m + 1 - k \in 1 .. Len(pool)
      BY <1>1
    <2>2. b \in [1 .. m - n -> Iov] /\ m - n \in Nat
      BY <1>1, <1>2, <2>1
    <2> QED
      BY <2>2
  <1>4. c \in Seq(Iov) /\ Len(c) = Len(pool) - m /\ \A k \in 1 .. Len(pool) - m : c[k] = pool[m + k]
    BY <1>1 DEF Rest
  <1> HIDE DEF b, c
  <1>5. r \in Seq(Iov) /\ Len(r) = Len(pool) - n
        /\ \A k \in 1 .. Len(r) : r[k] = IF k <= m - n THEN b[k] ELSE c[k - (m - n)]
    <2>1. r = b \o c
      BY Zenon DEF UnusedFreed, b, c
    <2>2. /\ b \o c \in Seq(Iov) /\ Len(b \o c) = Len(b) + Len(c)
          /\ \A k \in 1 .. Len(b) + Len(c) :
               (b \o c)[k] = IF k <= Len(b) THEN b[k] ELSE c[k - Len(b)]
      <3>1. b \in Seq(Iov) /\ c \in Seq(Iov)
        BY Zenon, <1>3, <1>4
      <3> QED
        BY ONLY <3>1
    <2>3. Len(b) + Len(c) = Len(pool) - n
      BY <1>1, <1>3, <1>4
    <2> QED
      BY Zenon, <1>3, <2>1, <2>2, <2>3
  <1> HIDE DEF r
  <1>6. \A k \in 1 .. Len(r) : r[k] = pool[at(k)] /\ at(k) \in n + 1 .. Len(pool)
    <2> SUFFICES ASSUME NEW k \in 1 .. Len(r)
                 PROVE  r[k] = pool[at(k)] /\ at(k) \in n + 1 .. Len(pool)
      BY Zenon
    <2>1. CASE k <= m - n
      BY <1>1, <1>3, <1>5, <2>1
    <2>2. CASE ~(k <= m - n)
      <3>1. k - (m - n) \in 1 .. Len(pool) - m /\ m + (k - (m - n)) = k + n
        BY <1>1, <1>5, <2>2
      <3>2. r[k] = c[k - (m - n)]
        BY Zenon, <1>5, <2>2
      <3> QED
        <4>1. c[k - (m - n)] = pool[k + n]
          BY Zenon, <1>4, <3>1
        <4>2. at(k) = k + n
          BY Zenon, <2>2
        <4>3. k + n \in n + 1 .. Len(pool)
          BY ONLY SMTT(60), <1>1, <1>5, k \in 1 .. Len(r)
        <4> QED
          BY Zenon, <3>2, <4>1, <4>2, <4>3
    <2> QED
      BY Zenon, <2>1, <2>2
  <1>7. \A x \in n + 1 .. Len(pool) : \E k \in 1 .. Len(r) : at(k) = x
    <2> SUFFICES ASSUME NEW x \in n + 1 .. Len(pool) PROVE \E k \in 1 .. Len(r) : at(k) = x
      BY Zenon
    <2>1. CASE x <= m
      <3>1. m + 1 - x \in 1 .. Len(r) /\ at(m + 1 - x) = x
        BY <1>1, <1>5, <2>1
      <3> QED
        BY Zenon, <3>1
    <2>2. CASE x > m
      <3>1. x - n \in 1 .. Len(r) /\ at(x - n) = x
        BY <1>1, <1>5, <2>2
      <3> QED
        BY Zenon, <3>1
    <2> QED
      BY <1>1, <2>1, <2>2
  <1>8. \A k, h \in 1 .. Len(r) : at(k) = at(h) => k = h
    BY <1>1, <1>5
  <1>9. \A k, h \in 1 .. Len(pool) : pool[k] = pool[h] => k = h
    BY <1>1 DEF BufInv, IsInjective
  <1>10. DOMAIN r = 1 .. Len(r) /\ DOMAIN pool = 1 .. Len(pool)
    BY <1>1, <1>5
  <1> HIDE DEF at
  <1>11. ASSUME NEW k \in 1 .. Len(r), NEW h \in 1 .. Len(r), r[k] = r[h] PROVE k = h
    <2>1. pool[at(k)] = pool[at(h)] /\ at(k) \in n + 1 .. Len(pool) /\ at(h) \in n + 1 .. Len(pool)
      BY Zenon, <1>6, <1>11
    <2>2. at(k) \in 1 .. Len(pool) /\ at(h) \in 1 .. Len(pool)
      BY <2>1, <1>1
    <2>3. at(k) = at(h)
      BY Zenon, <1>9, <2>1, <2>2
    <2> QED
      BY Zenon, <1>8, <2>3
  <1>12. IsInjective(r)
    BY Zenon, <1>10, <1>11 DEF IsInjective
  <1>13. \A x : x \in Range(r) <=> \E k \in n + 1 .. Len(pool) : x = pool[k]
    <2>1. \A x : x \in Range(r) <=> \E k \in 1 .. Len(r) : x = r[k]
      BY Zenon, <1>10 DEF Range
    <2>2. \A k \in 1 .. Len(r) : \E h \in n + 1 .. Len(pool) : r[k] = pool[h]
      BY Zenon, <1>6
    <2>3. ASSUME NEW h \in n + 1 .. Len(pool) PROVE \E k \in 1 .. Len(r) : pool[h] = r[k]
      <3>1. PICK k \in 1 .. Len(r) : at(k) = h
        BY Zenon, <1>7
      <3> QED
        BY Zenon, <1>6, <3>1
    <2>4. ASSUME NEW x, NEW h \in n + 1 .. Len(pool), x = pool[h] PROVE x \in Range(r)
      BY <2>1, <2>3, <2>4, Zenon
    <2>5. ASSUME NEW x, x \in Range(r) PROVE \E k \in n + 1 .. Len(pool) : x = pool[k]
      <3>1. PICK k \in 1 .. Len(r) : x = r[k]
        BY Zenon, <2>1, <2>5
      <3> QED
        BY Zenon, <2>2, <3>1
    <2> QED
      BY <2>4, <2>5, Zenon
  <1> QED
    BY Zenon, <1>5, <1>12, <1>13 DEF r

\* A step that gives the first n w_iovs of the pool to the application.
LEMMA BufTaken ==
  ASSUME BufInv, NEW m \in 0 .. Len(pool), NEW n \in 0 .. m,
         pool' = UnusedFreed(n, m), app' = app \cup {pool[k] : k \in 1 .. n}
  PROVE  BufInv'
  <1>1. pool \in Seq(Iov) /\ Len(pool) \in Nat /\ n \in Nat /\ n <= Len(pool)
        /\ DOMAIN pool = 1 .. Len(pool)
    BY DEF BufInv
  <1>2. /\ pool' \in Seq(Iov) /\ IsInjective(pool')
        /\ \A x : x \in Range(pool') <=> \E k \in n + 1 .. Len(pool) : x = pool[k]
    BY FreedFacts
  <1>3. \A x : x \in Range(pool) <=> \E k \in 1 .. Len(pool) : x = pool[k]
    BY Zenon, <1>1 DEF Range
  <1>4. \A k, h \in 1 .. Len(pool) : pool[k] = pool[h] => k = h
    BY Zenon, <1>1 DEF BufInv, IsInjective
  <1>5. \A k \in 1 .. n : k \in 1 .. Len(pool) /\ k \notin n + 1 .. Len(pool)
    BY <1>1
  <1>6. \A k \in n + 1 .. Len(pool) : k \in 1 .. Len(pool)
    BY <1>1
  <1>7. \A k \in 1 .. Len(pool) : k \in 1 .. n \/ k \in n + 1 .. Len(pool)
    BY SMTT(60), <1>1
  <1>8. app' \subseteq Iov
    BY <1>1, <1>5 DEF BufInv
  <1>9. Range(pool') \cap app' = {}
    <2> SUFFICES ASSUME NEW x \in Range(pool'), x \in app' PROVE FALSE
      BY Zenon
    <2>1. PICK k \in n + 1 .. Len(pool) : x = pool[k]
      BY Zenon, <1>2
    <2>2. x \in Range(pool)
      BY Zenon, <1>3, <1>6, <2>1
    <2>3. x \notin app
      BY Zenon, <2>2 DEF BufInv
    <2>4. PICK h \in 1 .. n : x = pool[h]
      BY Zenon, <2>3
    <2> QED
      BY Zenon, <1>4, <1>5, <1>6, <2>1, <2>4
  <1>10. Range(pool') \cup app' = Iov
    <2>1. \A x \in Iov : x \in Range(pool) \/ x \in app
      BY Zenon DEF BufInv
    <2>2. \A x \in Iov : x \in Range(pool') \/ x \in app'
      BY <1>2, <1>3, <1>7, <2>1, Zenon
    <2>3. Range(pool') \subseteq Iov
      BY Zenon, <1>2, <1>3, <1>6 DEF BufInv
    <2> QED
      BY Zenon, <1>8, <2>2, <2>3
  <1> QED
    BY Zenon, <1>2, <1>8, <1>9, <1>10 DEF BufInv

\* backend_init() puts every w_iov into the pool.
LEMMA BufInvInit == Init => BufInv
  <1> SUFFICES ASSUME Init PROVE BufInv
    BY Zenon
  <1>1. NBufs \in Nat /\ pool = [k \in 1 .. NBufs |-> NBufs + 1 - k] /\ app = {}
    BY Zenon, ConstAssumption DEF Init, InitPool, Iov
  <1>2. pool \in [1 .. NBufs -> Iov] /\ DOMAIN pool = 1 .. NBufs
    BY <1>1 DEF Iov
  <1>3. pool \in Seq(Iov)
    BY <1>1, <1>2
  <1>4. IsInjective(pool)
    BY <1>1, <1>2 DEF IsInjective
  <1>5. ASSUME NEW x \in Iov PROVE x \in Range(pool)
    <2>1. NBufs + 1 - x \in 1 .. NBufs /\ pool[NBufs + 1 - x] = x
      BY <1>1 DEF Iov
    <2> QED
      BY Zenon, <1>2, <2>1 DEF Range
  <1>6. Range(pool) \subseteq Iov
    BY Zenon, <1>2 DEF Range
  <1> QED
    BY Zenon, <1>1, <1>3, <1>4, <1>5, <1>6 DEF BufInv

\* Whatever w_rx() gets, the w_iovs it does not return are in the pool again, and
\* no call loses or duplicates one.
LEMMA BufInvNext == RxInv /\ BufInv /\ [Next]_vars => BufInv'
  <1> SUFFICES ASSUME RxInv, BufInv, [Next]_vars PROVE BufInv'
    BY Zenon
  <1>0. pool \in Seq(Iov)
    BY Zenon DEF BufInv
  <1>1. UNCHANGED <<pool, app>> => BufInv'
    BY Zenon DEF BufInv
  <1>2. NBufsTaken \in 0 .. Len(pool) /\ (pool # <<>> => NBufsTaken >= 1)
    BY Zenon, <1>0, TakenFacts
  <1>3. ASSUME NEW n \in 1 .. RecvSize, RxBatch(n) PROVE BufInv'
    <2>1. /\ rxs # None /\ n \in 1 .. Least(NBufsTaken, Len(kq[rxs]))
          /\ app' = app \cup {pool[k] : k \in Range(Inserted(n))}
          /\ pool' = UnusedFreed(n, NBufsTaken)
      BY Zenon, <1>3 DEF RxBatch
    <2>2. Len(kq[rxs]) \in Nat
      BY <2>1 DEF RxInv
    <2>3. n \in 0 .. NBufsTaken
      BY <1>2, <2>1, <2>2 DEF Least
    <2>4. Range(Inserted(n)) = 1 .. n
      BY Zenon DEF Inserted, Range
    <2> QED
      BY Zenon, <1>2, <2>1, <2>3, <2>4, BufTaken
  <1>4. CASE RxNone
    <2>1. pool' = UnusedFreed(0, NBufsTaken) /\ app' = app
      BY Zenon, <1>4 DEF RxNone
    <2>2. app' = app \cup {pool[k] : k \in 1 .. 0}
      BY <2>1
    <2>3. 0 \in 0 .. NBufsTaken
      BY <1>2
    <2> QED
      BY Zenon, <1>2, <2>1, <2>2, <2>3, BufTaken
  <1>5. ASSUME pool # <<>>, app' = app \cup {Head(pool)}, pool' = Tail(pool) PROVE BufInv'
    <2>1. pool' = UnusedFreed(1, 1)
      <3>1. [k \in 1 .. 1 - 1 |-> pool[1 + 1 - k]] = <<>>
        OBVIOUS
      <3>2. Tail(pool) = Rest(pool, 1) /\ Rest(pool, 1) \in Seq(Iov)
        BY <1>0, <1>5 DEF Rest
      <3> QED
        BY SMTT(60), <1>5, <3>1, <3>2 DEF UnusedFreed
    <2>2. app' = app \cup {pool[k] : k \in 1 .. 1}
      BY <1>0, <1>5
    <2>3. 1 \in 0 .. Len(pool)
      BY <1>0, <1>5
    <2>4. 1 \in 0 .. 1
      OBVIOUS
    <2> QED
      BY Zenon, <2>1, <2>2, <2>3, <2>4, BufTaken
  <1>6. CASE RxFrom
    BY Zenon, <1>1, <1>5, <1>6 DEF RxFrom
  <1>7. CASE RxFromFails \/ Alloc
    BY Zenon, <1>5, <1>7 DEF RxFromFails, Alloc
  <1>8. ASSUME NEW v \in Iov, Free(v) PROVE BufInv'
    <2>1. v \in app /\ app' = app \ {v} /\ pool' = <<v>> \o pool
      BY Zenon, <1>8 DEF Free
    <2>2. pool' \in Seq(Iov) /\ Len(pool') = Len(pool) + 1 /\ pool'[1] = v
          /\ \A k \in 1 .. Len(pool) : pool'[k + 1] = pool[k]
      BY <1>0, <2>1
    <2>3. DOMAIN pool' = 1 .. Len(pool) + 1 /\ DOMAIN pool = 1 .. Len(pool) /\ Len(pool) \in Nat
      BY <1>0, <2>2
    <2>4. \A k \in DOMAIN pool' : k = 1 \/ (k - 1 \in DOMAIN pool /\ pool'[k] = pool[k - 1])
      <3>1. \A k \in DOMAIN pool' : k = 1 \/ k - 1 \in 1 .. Len(pool)
        BY <2>3
      <3>2. \A k \in DOMAIN pool' : (k - 1) + 1 = k
        BY <2>3
      <3> QED
        BY Zenon, <2>2, <2>3, <3>1, <3>2
    <2>5. Range(pool') = Range(pool) \cup {v}
      <3>1. Range(pool') \subseteq Range(pool) \cup {v}
        BY <2>2, <2>4 DEF Range
      <3>2. \A k \in DOMAIN pool : k + 1 \in DOMAIN pool' /\ pool'[k + 1] = pool[k]
        BY <2>2, <2>3
      <3>3. 1 \in DOMAIN pool' /\ pool'[1] = v
        BY <2>2, <2>3
      <3>4. Range(pool) \cup {v} \subseteq Range(pool')
        BY Zenon, <3>2, <3>3 DEF Range
      <3> QED
        BY Zenon, <3>1, <3>4
    <2>6. v \notin Range(pool)
      BY Zenon, <2>1 DEF BufInv
    <2>7. ASSUME NEW k \in DOMAIN pool', NEW h \in DOMAIN pool', pool'[k] = pool'[h]
          PROVE  k = h
      <3>1. \A x \in DOMAIN pool : pool[x] # v
        BY Zenon, <2>6 DEF Range
      <3>2. k = 1 <=> h = 1
        BY Zenon, <2>2, <2>4, <2>7, <3>1
      <3>3. k # 1 => k - 1 = h - 1
        BY Zenon, <2>4, <2>7, <3>2 DEF BufInv, IsInjective
      <3> QED
        BY <2>3, <3>2, <3>3
    <2>8. IsInjective(pool')
      BY Zenon, <2>7 DEF IsInjective
    <2> QED
      BY <2>1, <2>2, <2>5, <2>6, <2>8 DEF BufInv
  <1>9. ASSUME NEW s, Arrive(s) \/ Bind(s) \/ Close(s) \/ RxAny(s) PROVE BufInv'
    BY Zenon, <1>1, <1>9 DEF Arrive, Bind, Close, RxAny
  <1>10. CASE NicRx \/ NicRxInterrupted \/ NicRxSelect \/ RxReady \/ RxReadySelect \/ Serve
    BY Zenon, <1>1, <1>10 DEF NicRx, NicRxInterrupted, NicRxSelect, RxReady, RxReadySelect, Serve
  <1>11. CASE RxEmpty \/ TxReturn
    BY Zenon, <1>1, <1>11 DEF RxEmpty, TxReturn
  <1>12. ASSUME NEW o, Tx(o) PROVE BufInv'
    BY Zenon, <1>1, <1>12 DEF Tx
  <1>13. ASSUME NEW r, TxPass(r) PROVE BufInv'
    BY Zenon, <1>1, <1>13 DEF TxPass
  <1>14. CASE UNCHANGED vars
    BY Zenon, <1>1, <1>14 DEF vars
  <1> QED
    BY Zenon, <1>3, <1>4, <1>6, <1>7, <1>8, <1>9, <1>10, <1>11, <1>12, <1>13, <1>14
    DEF Next, TxBatch, TxTo

-----------------------------------------------------------------------------
\* w_tx(): the positions in the queue of what the kernel took are in order, and
\* before v.
TxInv ==
    /\ tx \in [o : Seq(Iov), i : Nat \ {0}, wire : Seq(Iov)]
    /\ tx.i <= Len(tx.o) + 1
    /\ \E pos \in [1 .. Len(tx.wire) -> 1 .. tx.i - 1] :
         /\ \A k \in 1 .. Len(tx.wire) : tx.wire[k] = tx.o[pos[k]]
         /\ \A h, k \in 1 .. Len(tx.wire) : h < k => pos[h] < pos[k]

\* The positions show that what is on the wire is in the order of the queue.
LEMMA TxInvImplies == ASSUME TxInv PROVE TxInOrder
  <1>1. PICK pos \in [1 .. Len(tx.wire) -> 1 .. tx.i - 1] :
         /\ \A k \in 1 .. Len(tx.wire) : tx.wire[k] = tx.o[pos[k]]
         /\ \A h, k \in 1 .. Len(tx.wire) : h < k => pos[h] < pos[k]
    BY ZenonT(60) DEF TxInv
  <1>2. tx.i \in Nat /\ Len(tx.o) \in Nat /\ tx.i <= Len(tx.o) + 1
    BY DEF TxInv
  <1>3. 1 .. tx.i - 1 \subseteq 1 .. Len(tx.o)
    BY SMTT(60), <1>2
  <1>4. pos \in [1 .. Len(tx.wire) -> 1 .. Len(tx.o)] /\ DOMAIN pos = 1 .. Len(tx.wire)
    BY Zenon, <1>3
  <1> QED
    BY <1>1, <1>4, Zenon DEF TxInOrder

\* Outside of w_tx(), nothing is under way.
LEMMA TxInvNo == ASSUME tx = NoTx PROVE TxInv
  <1>1. /\ tx \in [o : Seq(Iov), i : Nat \ {0}, wire : Seq(Iov)]
        /\ Len(tx.wire) = 0 /\ Len(tx.o) = 0 /\ tx.i = 1
    BY DEF NoTx
  <1>2. [k \in 1 .. 0 |-> 1] \in [1 .. Len(tx.wire) -> 1 .. tx.i - 1]
    BY <1>1
  <1> QED
    BY <1>1, <1>2 DEF TxInv

\* A pass of w_tx() sends what is at v and after, and moves v past it.
LEMMA TxPassInv == ASSUME TxInv, NEW r \in 0 .. SendSize, TxPass(r) PROVE TxInv'
  <1> DEFINE o == tx.o
             c == tx.i
             b == BatchLen
             u == tx.wire
             x == SubSeq(o, c, c + r - 1)
  <1>1. o \in Seq(Iov) /\ c \in Nat \ {0} /\ u \in Seq(Iov) /\ Len(o) \in Nat /\ Len(u) \in Nat
        /\ c <= Len(o) + 1
    BY DEF TxInv
  <1>2. c <= Len(o) /\ r \in 0 .. b
        /\ tx' = [tx EXCEPT !.i = c + b, !.wire = u \o x]
    BY Zenon DEF TxPass, NextI
  <1>3. b \in 1 .. Len(o) + 1 - c /\ r \in Nat /\ r <= b
    <2>1. SendMax \in Nat \ {0}
      BY ConstAssumption DEF SendMax
    <2>2. Len(o) + 1 - c \in Nat \ {0}
      BY <1>1, <1>2
    <2>3. b = IF SendMax < Len(o) + 1 - c THEN SendMax ELSE Len(o) + 1 - c
      BY Zenon DEF BatchLen, Least
    <2> HIDE DEF b, c, o
    <2>4. b \in 1 .. Len(o) + 1 - c
      BY <2>1, <2>2, <2>3
    <2> QED
      BY <1>2, <2>4
  <1>4. x \in Seq(Iov) /\ Len(x) = r /\ \A k \in 1 .. r : x[k] = o[c + k - 1]
    <2> HIDE DEF b, c, o
    <2>1. c + r - 1 <= Len(o) /\ c + r - 1 \in Int
      BY <1>1, <1>2, <1>3
    <2>2. CASE r = 0
      BY <1>1, <2>1, <2>2
    <2>3. CASE r # 0
      <3>1. c \in 1 .. Len(o) /\ c + r - 1 \in 1 .. Len(o) /\ (c + r - 1) - c + 1 = r
        BY SMTT(60), <1>1, <1>2, <1>3, <2>1, <2>3
      <3> QED
        BY <1>1, <3>1
    <2> QED
      BY Zenon, <2>2, <2>3
  <1>5. tx'.o = o /\ tx'.i = c + b /\ tx'.wire = u \o x
        /\ tx' \in [o : Seq(Iov), i : Nat \ {0}, wire : Seq(Iov)]
    <2> HIDE DEF o, c, b, u, x
    <2>1. u \o x \in Seq(Iov) /\ c + b \in Nat \ {0}
      BY SMTT(60), <1>1, <1>3, <1>4
    <2> QED
      BY Zenon, <1>2, <2>1 DEF TxInv, o
  <1>6. PICK pos \in [1 .. Len(u) -> 1 .. c - 1] :
         /\ \A k \in 1 .. Len(u) : u[k] = o[pos[k]]
         /\ \A h, k \in 1 .. Len(u) : h < k => pos[h] < pos[k]
    BY Zenon DEF TxInv
  <1> DEFINE new == [k \in 1 .. Len(u) + r |-> IF k <= Len(u) THEN pos[k] ELSE c + (k - Len(u)) - 1]
             y == u \o x
  <1> HIDE DEF o, c, b, u, x
  <1>7. y \in Seq(Iov) /\ Len(y) = Len(u) + r
        /\ \A k \in 1 .. Len(u) + r : y[k] = IF k <= Len(u) THEN u[k] ELSE x[k - Len(u)]
    <2>0. u \in Seq(Iov) /\ x \in Seq(Iov)
      BY Zenon, <1>1, <1>4
    <2>1. /\ u \o x \in Seq(Iov) /\ Len(u \o x) = Len(u) + Len(x)
          /\ \A k \in 1 .. Len(u) + Len(x) :
               (u \o x)[k] = IF k <= Len(u) THEN u[k] ELSE x[k - Len(u)]
      BY <2>0
    <2> QED
      BY Zenon, <1>4, <2>1
  <1> HIDE DEF y
  <1>8. \A k \in 1 .. Len(u) : pos[k] \in 1 .. c - 1
    BY Zenon, <1>6
  <1>9. \A k \in 1 .. Len(u) + r :
         IF k <= Len(u) THEN k \in 1 .. Len(u) /\ new[k] = pos[k]
         ELSE k - Len(u) \in 1 .. r /\ new[k] = c + (k - Len(u)) - 1
    BY <1>1, <1>3
  <1>10. new \in [1 .. Len(y) -> 1 .. (c + b) - 1]
    <2>1. \A k \in 1 .. Len(u) + r : new[k] \in 1 .. (c + b) - 1
      BY SMTT(60), <1>1, <1>3, <1>8, <1>9
    <2> QED
      BY Zenon, <1>7, <2>1
  <1> HIDE DEF new
  <1>11. ASSUME NEW k \in 1 .. Len(y) PROVE y[k] = o[new[k]]
    <2>0. k \in 1 .. Len(u) + r
      BY Zenon, <1>7
    <2>1. CASE k <= Len(u)
      BY Zenon, <2>0, <2>1, <1>6, <1>7, <1>9
    <2>2. CASE ~(k <= Len(u))
      BY Zenon, <2>0, <2>2, <1>4, <1>7, <1>9
    <2> QED
      BY Zenon, <2>1, <2>2
  <1>12. ASSUME NEW h \in 1 .. Len(y), NEW k \in 1 .. Len(y), h < k PROVE new[h] < new[k]
    <2>0. k \in 1 .. Len(u) + r /\ h \in 1 .. Len(u) + r
      BY Zenon, <1>7
    <2>1. CASE k <= Len(u)
      <3>1. h <= Len(u)
        BY <2>0, <2>1, <1>1, <1>12
      <3> QED
        BY Zenon, <2>0, <2>1, <3>1, <1>6, <1>9, <1>12
    <2>2. CASE ~(k <= Len(u))
      <3>1. CASE h <= Len(u)
        <4>1. new[h] \in 1 .. c - 1
          BY Zenon, <2>0, <3>1, <1>8, <1>9
        <4>2. new[k] = c + (k - Len(u)) - 1 /\ k - Len(u) \in 1 .. r
          BY Zenon, <2>0, <2>2, <1>9
        <4> QED
          BY <1>1, <1>3, <4>1, <4>2
      <3>2. CASE ~(h <= Len(u))
        <4>1. new[h] = c + (h - Len(u)) - 1 /\ new[k] = c + (k - Len(u)) - 1
          BY Zenon, <2>0, <2>2, <3>2, <1>9
        <4> QED
          BY <1>1, <1>12, <2>0, <4>1
      <3> QED
        BY Zenon, <3>1, <3>2
    <2> QED
      BY Zenon, <2>1, <2>2
  <1>13. c + b <= Len(o) + 1
    BY <1>1, <1>3
  <1>14. /\ tx'.o = o /\ tx'.i = c + b /\ tx'.wire = y
    BY Zenon, <1>5 DEF y, o, c, b
  <1>15. \E z \in [1 .. Len(tx'.wire) -> 1 .. tx'.i - 1] :
         /\ \A k \in 1 .. Len(tx'.wire) : tx'.wire[k] = tx'.o[z[k]]
         /\ \A h, k \in 1 .. Len(tx'.wire) : h < k => z[h] < z[k]
    BY <1>10, <1>11, <1>12, <1>14, Zenon
  <1> QED
    BY Zenon, <1>5, <1>13, <1>14, <1>15 DEF TxInv

\* Every step keeps the positions in order.
LEMMA TxInvNext == BufInv /\ TxInv /\ [Next]_vars => TxInv'
  <1> SUFFICES ASSUME BufInv, TxInv, [Next]_vars PROVE TxInv'
    BY Zenon
  <1>1. tx' = tx => TxInv'
    BY ZenonT(60) DEF TxInv
  <1>2. ASSUME NEW o \in Queues, Tx(o) PROVE TxInv'
    <2>1. o \in Seq(Iov)
      <3>1. PICK n \in 1 .. Cardinality(app) : o \in [1 .. n -> app]
        BY Zenon DEF Queues
      <3>2. n \in Nat /\ app \subseteq Iov
        BY DEF BufInv
      <3> QED
        BY <3>1, <3>2
    <2>2. tx' = [o |-> o, i |-> 1, wire |-> <<>>]
      BY Zenon, <1>2 DEF Tx
    <2>3. tx' \in [o : Seq(Iov), i : Nat \ {0}, wire : Seq(Iov)]
          /\ Len(tx'.wire) = 0 /\ tx'.o = o /\ tx'.i = 1 /\ Len(o) \in Nat
      BY <2>1, <2>2
    <2>4. [k \in 1 .. 0 |-> 1] \in [1 .. Len(tx'.wire) -> 1 .. tx'.i - 1]
      BY <2>3
    <2> QED
      BY <2>3, <2>4 DEF TxInv
  <1>3. ASSUME NEW r \in 0 .. SendSize, TxBatch(r) \/ TxTo(r) PROVE TxInv'
    BY Zenon, <1>3, TxPassInv DEF TxBatch, TxTo
  <1>4. CASE TxReturn
    <2>1. (tx = NoTx)'
      BY Zenon, <1>4 DEF TxReturn, NoTx
    <2> QED
      BY <2>1, TxInvNo, PTL
  <1>5. ASSUME NEW s, Arrive(s) \/ Bind(s) \/ Close(s) \/ RxAny(s) PROVE TxInv'
    BY Zenon, <1>1, <1>5 DEF Arrive, Bind, Close, RxAny
  <1>6. CASE NicRx \/ NicRxInterrupted \/ NicRxSelect \/ RxReady \/ RxReadySelect \/ Serve
    BY Zenon, <1>1, <1>6 DEF NicRx, NicRxInterrupted, NicRxSelect, RxReady, RxReadySelect, Serve
  <1>7. CASE RxEmpty \/ RxFrom \/ RxFromFails \/ RxNone \/ Alloc
    BY Zenon, <1>1, <1>7 DEF RxEmpty, RxFrom, RxFromFails, RxNone, Alloc
  <1>8. ASSUME NEW n, RxBatch(n) PROVE TxInv'
    BY Zenon, <1>1, <1>8 DEF RxBatch
  <1>9. ASSUME NEW v, Free(v) PROVE TxInv'
    BY Zenon, <1>1, <1>9 DEF Free
  <1>10. CASE UNCHANGED vars
    BY Zenon, <1>1, <1>10 DEF vars
  <1>11. CASE Next
    BY <1>11, <1>2, <1>3, <1>4, <1>5, <1>6, <1>7, <1>8, <1>9, Zenon DEF Next
  <1> QED
    BY Zenon, <1>10, <1>11

-----------------------------------------------------------------------------
\* What Select(q, T) promises: elements of q, those in T only, none twice.
SelectSound ==
    \A q \in Seq(Sock), T \in SUBSET Sock :
      /\ Select(q, T) \in Seq(Sock)
      /\ Range(Select(q, T)) \subseteq T \cap Range(q)
      /\ IsInjective(q) => IsInjective(Select(q, T))

\* The types of the lists of sockets.
EvTypes ==
    /\ fds \subseteq Sock /\ socks \in Seq(Sock) /\ ep \in Seq(Sock)
    /\ ev \in Seq(Sock) /\ sl \in Seq(Sock)

\* In the loop of inetd.c on RIOT: every socket that is still to be served has data,
\* is in the list once only, and nothing is read between w_nic_rx() and w_rx_ready().
NoWaitInv ==
    Riot /\ inetd =>
      /\ IsInjective(socks) /\ Range(socks) \subseteq open
      /\ IsInjective(sl) /\ \A s \in Range(sl) : kq[s] # <<>>
      /\ rxs # None => kq[rxs] # <<>> /\ rxs \notin Range(sl)
      /\ told => sl = <<>> /\ rxs = None /\ \A s \in fds : kq[s] # <<>>

\* The lists of sockets.
EvInv == EvTypes /\ NoWaitInv

\* A list that is reversed.
LEMMA ReversedFacts ==
  ASSUME NEW q \in Seq(Sock)
  PROVE  /\ Reversed(q) \in Seq(Sock) /\ Range(Reversed(q)) \subseteq Range(q)
         /\ IsInjective(q) => IsInjective(Reversed(q))
  <1> DEFINE r == Reversed(q)
  <1>1. Len(q) \in Nat /\ DOMAIN q = 1 .. Len(q) /\ \A k \in 1 .. Len(q) : q[k] \in Sock
    OBVIOUS
  <1>2. \A k \in 1 .. Len(q) : Len(q) + 1 - k \in 1 .. Len(q)
    BY <1>1
  <1>3. r \in [1 .. Len(q) -> Sock] /\ \A k \in 1 .. Len(q) : r[k] = q[Len(q) + 1 - k]
    BY Zenon, <1>1, <1>2 DEF Reversed
  <1> HIDE DEF r
  <1>4. r \in Seq(Sock) /\ DOMAIN r = 1 .. Len(q)
    BY <1>1, <1>3
  <1>5. Range(r) \subseteq Range(q)
    BY Zenon, <1>1, <1>2, <1>3, <1>4 DEF Range
  <1>6. IsInjective(q) => IsInjective(r)
    <2> SUFFICES ASSUME IsInjective(q), NEW k \in 1 .. Len(q), NEW h \in 1 .. Len(q), r[k] = r[h]
                 PROVE  k = h
      BY Zenon, <1>4 DEF IsInjective
    <2>1. Len(q) + 1 - k = Len(q) + 1 - h
      BY ZenonT(60), <1>1, <1>2, <1>3 DEF IsInjective
    <2> QED
      BY <1>1, <2>1
  <1> QED
    BY Zenon, <1>4, <1>5, <1>6 DEF r

\* A socket put at the head of a list.
LEMMA PrependFacts ==
  ASSUME NEW q \in Seq(Sock), NEW s \in Sock
  PROVE  /\ <<s>> \o q \in Seq(Sock) /\ Range(<<s>> \o q) \subseteq Range(q) \cup {s}
         /\ IsInjective(q) /\ s \notin Range(q) => IsInjective(<<s>> \o q)
  <1> DEFINE r == <<s>> \o q
  <1>1. r \in Seq(Sock) /\ Len(r) = Len(q) + 1 /\ r[1] = s /\ Len(q) \in Nat
        /\ \A k \in 1 .. Len(q) : r[k + 1] = q[k]
    OBVIOUS
  <1> HIDE DEF r
  <1>2. DOMAIN r = 1 .. Len(q) + 1 /\ DOMAIN q = 1 .. Len(q)
    BY <1>1
  <1>3. \A k \in DOMAIN r : k = 1 \/ (k - 1 \in DOMAIN q /\ r[k] = q[k - 1])
    <2>1. \A k \in DOMAIN r : (k = 1 \/ k - 1 \in 1 .. Len(q)) /\ (k - 1) + 1 = k
      BY <1>1, <1>2
    <2> QED
      BY Zenon, <1>1, <1>2, <2>1
  <1>4. Range(r) \subseteq Range(q) \cup {s}
    BY <1>1, <1>3 DEF Range
  <1>5. ASSUME IsInjective(q), s \notin Range(q), NEW k \in DOMAIN r, NEW h \in DOMAIN r,
               r[k] = r[h]
        PROVE  k = h
    <2>1. \A x \in DOMAIN q : q[x] # s
      BY Zenon, <1>5 DEF Range
    <2>2. k = 1 <=> h = 1
      BY Zenon, <1>1, <1>3, <1>5, <2>1
    <2>3. k # 1 => k - 1 = h - 1
      BY Zenon, <1>3, <1>5, <2>2 DEF IsInjective
    <2> QED
      BY <1>2, <2>2, <2>3
  <1>6. IsInjective(q) /\ s \notin Range(q) => IsInjective(r)
    BY Zenon, <1>5 DEF IsInjective
  <1> QED
    BY Zenon, <1>1, <1>4, <1>6 DEF r

\* The head of a list without duplicates is not in its tail.
LEMMA TailFacts ==
  ASSUME NEW q \in Seq(Sock), q # <<>>
  PROVE  /\ Tail(q) \in Seq(Sock) /\ Head(q) \in Range(q) /\ Range(Tail(q)) \subseteq Range(q)
         /\ IsInjective(q) => IsInjective(Tail(q)) /\ Head(q) \notin Range(Tail(q))
  <1> DEFINE r == Tail(q)
  <1>1. r \in Seq(Sock) /\ Len(r) = Len(q) - 1 /\ Head(q) = q[1] /\ Len(q) \in Nat \ {0}
        /\ \A k \in 1 .. Len(r) : r[k] = q[k + 1]
    OBVIOUS
  <1> HIDE DEF r
  <1>2. DOMAIN r = 1 .. Len(q) - 1 /\ DOMAIN q = 1 .. Len(q)
    BY <1>1
  <1>3. 1 \in DOMAIN q /\ \A k \in DOMAIN r : k + 1 \in DOMAIN q /\ k + 1 # 1 /\ r[k] = q[k + 1]
    BY <1>1, <1>2
  <1>4. Head(q) \in Range(q) /\ Range(r) \subseteq Range(q)
    BY <1>1, <1>3 DEF Range
  <1>5. ASSUME IsInjective(q) PROVE Head(q) \notin Range(r)
    BY <1>1, <1>3, <1>5 DEF Range, IsInjective
  <1>6. ASSUME IsInjective(q), NEW k \in DOMAIN r, NEW h \in DOMAIN r, r[k] = r[h] PROVE k = h
    <2>1. k + 1 = h + 1
      BY Zenon, <1>3, <1>6 DEF IsInjective
    <2> QED
      BY <1>2, <2>1
  <1>7. IsInjective(q) => IsInjective(r)
    BY Zenon, <1>6 DEF IsInjective
  <1> QED
    BY Zenon, <1>1, <1>4, <1>5, <1>7 DEF r

\* epoll_wait() reports sockets.
LEMMA EventsTypes ==
  ASSUME SelectSound, EvTypes
  PROVE  Events \in Seq(Sock) /\ Rest(Ready, Len(Events)) \o Events \in Seq(Sock)
  <1>1. Ready \in Seq(Sock)
    BY Zenon DEF Ready, SelectSound, EvTypes
  <1>2. Least(EvMax, Len(Ready)) \in 0 .. Len(Ready)
    BY <1>1, ConstAssumption DEF Least
  <1> DEFINE n == Least(EvMax, Len(Ready))
             q == Ready
  <1> HIDE DEF n, q
  <1>3. SubSeq(q, 1, n) \in Seq(Sock) /\ Len(SubSeq(q, 1, n)) = n
    BY <1>1, <1>2 DEF n, q
  <1>4. SubSeq(q, n + 1, Len(q)) \in Seq(Sock)
    BY <1>1, <1>2 DEF n, q
  <1>5. Events = SubSeq(q, 1, n) /\ Rest(Ready, n) = SubSeq(q, n + 1, Len(q))
    BY Zenon DEF Events, Prefix, Rest, n, q
  <1>6. Len(Events) = n
    BY Zenon, <1>3, <1>5
  <1>7. SubSeq(q, n + 1, Len(q)) \o SubSeq(q, 1, n) \in Seq(Sock)
    BY <1>3, <1>4
  <1> QED
    BY ZenonT(60), <1>3, <1>5, <1>6, <1>7, Zenon

\* Every step keeps the types of the lists.
LEMMA EvTypesNext ==
  ASSUME SelectSound, RxInv, EvTypes, [Next]_vars
  PROVE  EvTypes'
  <1>1. UNCHANGED <<fds, socks, ep, ev, sl>> => EvTypes'
    BY Zenon DEF EvTypes
  <1>2. ASSUME NEW q \in Seq(Sock), NEW s PROVE Without(q, s) \in Seq(Sock)
    <2>1. Range(q) \ {s} \in SUBSET Sock
      BY DEF Range
    <2> QED
      BY Zenon, <2>1 DEF Without, SelectSound
  <1>3. ASSUME NEW s \in Sock, Arrive(s) PROVE EvTypes'
    <2>1. UNCHANGED <<socks, ev, fds, sl>> /\ ep' \in {ep, Append(ep, s)}
      BY Zenon, <1>3 DEF Arrive, evVars
    <2>2. ep \in Seq(Sock) /\ Append(ep, s) \in Seq(Sock)
      BY DEF EvTypes
    <2> QED
      BY Zenon, <2>1, <2>2 DEF EvTypes
  <1>4. ASSUME NEW s \in Sock, Bind(s) PROVE EvTypes'
    <2>1. socks' \in Seq(Sock)
      BY Zenon, <1>4, PrependFacts DEF Bind, SocksBound, EvTypes
    <2> QED
      BY Zenon, <1>4, <2>1 DEF Bind, evVars, EvTypes
  <1>5. ASSUME NEW s \in Sock, Close(s) PROVE EvTypes'
    BY Zenon, <1>2, <1>5 DEF Close, SocksClosed, EvTypes
  <1>6. CASE NicRx
    BY Zenon, <1>6, EventsTypes DEF NicRx, EpollWait, EvTypes
  <1>7. CASE NicRxInterrupted
    BY SMTT(60), <1>7 DEF NicRxInterrupted, sockVars, EvTypes
  <1>8. CASE NicRxSelect
    BY <1>8 DEF NicRxSelect, FdsReady, Range, sockVars, EvTypes
  <1>9. CASE RxReady
    <2>1. sl' \in Seq(Sock) /\ ep' \in Seq(Sock)
      BY ZenonT(60), <1>9, EventsTypes, ReversedFacts DEF RxReady, EpollWait, EvTypes
    <2> QED
      BY Zenon, <1>9, <2>1 DEF RxReady, EvTypes
  <1>10. CASE RxReadySelect
    <2>1. Select(socks, fds) \in Seq(Sock)
      BY Zenon DEF SelectSound, EvTypes
    <2> QED
      BY Zenon, <1>10, <2>1, ReversedFacts DEF RxReadySelect, sockVars, EvTypes
  <1>11. CASE Serve
    <2>1. sl # <<>> /\ sl' = Tail(sl) /\ UNCHANGED <<fds, socks, ep, ev>>
      BY Zenon, <1>11 DEF Serve, sockVars
    <2> QED
      BY Zenon, <2>1, TailFacts DEF EvTypes
  <1>12. ASSUME NEW s, RxAny(s) PROVE EvTypes'
    BY Zenon, <1>1, <1>12 DEF RxAny, sockVars, evVars
  <1>13. CASE RxEmpty \/ RxFrom \/ RxFromFails \/ RxNone \/ Alloc \/ TxReturn
    BY Zenon, <1>1, <1>13 DEF RxEmpty, RxFrom, RxFromFails, RxNone, Alloc, TxReturn, sockVars, evVars
  <1>14. ASSUME NEW n, RxBatch(n) PROVE EvTypes'
    BY ZenonT(60), <1>1, <1>14 DEF RxBatch, evVars
  <1>15. ASSUME NEW o, Tx(o) PROVE EvTypes'
    BY Zenon, <1>1, <1>15 DEF Tx, sockVars, evVars
  <1>16. ASSUME NEW r, TxPass(r) PROVE EvTypes'
    BY Zenon, <1>1, <1>16 DEF TxPass, sockVars, evVars
  <1>17. ASSUME NEW v, Free(v) PROVE EvTypes'
    BY Zenon, <1>1, <1>17 DEF Free, sockVars, evVars
  <1>18. CASE UNCHANGED vars
    BY Zenon, <1>1, <1>18 DEF vars, sockVars, evVars
  <1>19. CASE Next
    BY Zenon, <1>19, <1>3, <1>4, <1>5, <1>6, <1>7, <1>8, <1>9, <1>10, <1>11, <1>12, <1>13, <1>14,
       <1>15, <1>16, <1>17, Zenon DEF Next, TxBatch, TxTo
  <1> QED
    BY Zenon, <1>18, <1>19

\* Every step keeps the sockets to be served readable.
LEMMA NoWaitNext ==
  ASSUME SelectSound, RxInv, EvInv, [Next]_vars
  PROVE  NoWaitInv'
  <1> SUFFICES ASSUME Riot', inetd' PROVE NoWaitInv'
    BY Zenon DEF NoWaitInv
  <1>1. UNCHANGED <<variant, inetd>>
    BY Zenon DEF Next, vars, sockVars, build, Arrive, Bind, Close, RxAny, NicRx, NicRxInterrupted,
           NicRxSelect, RxReady, RxReadySelect, Serve, RxEmpty, RxFrom, RxFromFails, RxNone,
           Alloc, TxReturn, RxBatch, Tx, TxBatch, TxTo, TxPass, Free
  <1>2. Riot /\ inetd
    BY Zenon, <1>1 DEF Riot
  <1>3. /\ IsInjective(socks) /\ Range(socks) \subseteq open
        /\ IsInjective(sl) /\ \A s \in Range(sl) : kq[s] # <<>>
        /\ rxs # None => kq[rxs] # <<>> /\ rxs \notin Range(sl)
        /\ told => sl = <<>> /\ rxs = None /\ \A s \in fds : kq[s] # <<>>
        /\ socks \in Seq(Sock) /\ sl \in Seq(Sock) /\ fds \subseteq Sock
    BY Zenon, <1>2 DEF EvInv, EvTypes, NoWaitInv
  <1>4. Range(sl) \subseteq Sock /\ Range(socks) \subseteq Sock
    BY SMTT(60), <1>3 DEF Range
  <1>5. UNCHANGED <<open, kq, told, socks, fds, sl, rxs>> => NoWaitInv'
    BY SMTT(60), <1>3 DEF NoWaitInv
  <1>6. UNCHANGED <<open, kq, told, socks, fds, sl>> /\ rxs' = None => NoWaitInv'
    BY SMTT(60), <1>3 DEF NoWaitInv
  <1>7. ASSUME NEW s \in Sock, Arrive(s) PROVE NoWaitInv'
    <2>1. UNCHANGED <<open, told, socks, fds, sl, rxs>>
          /\ kq' = [kq EXCEPT ![s] = Append(@, Succ(arr[s]))]
      BY Zenon, <1>7 DEF Arrive, evVars
    <2>2. \A u \in Sock : kq[u] # <<>> => kq'[u] # <<>>
      <3>1. kq[s] \in Seq(Num) /\ kq \in [Sock -> Seq(Num)] /\ Succ(arr[s]) \in Num
        <4>1. arr[s] \in Num /\ kq[s] \in Seq(Num) /\ kq \in [Sock -> Seq(Num)]
          BY Zenon DEF RxInv
        <4> QED
          BY Zenon, <4>1, SuccType
      <3>2. ASSUME NEW q \in Seq(Num), NEW n \in Num PROVE Append(q, n) # <<>>
        <4>1. Len(Append(q, n)) = Len(q) + 1 /\ Len(q) \in Nat
          OBVIOUS
        <4>2. Len(<<>>) = 0
          BY Zenon
        <4> QED
          BY <4>1, <4>2
      <3> QED
        BY Zenon, <2>1, <3>1, <3>2
    <2>3. rxs \in Sock \cup {None}
      BY Zenon DEF RxInv
    <2> QED
      BY Zenon, <1>3, <1>4, <2>1, <2>2, <2>3 DEF NoWaitInv
  <1>8. ASSUME NEW s \in Sock, Bind(s) PROVE NoWaitInv'
    <2>1. UNCHANGED <<kq, told, fds, sl, rxs>> /\ s \notin open /\ open' = open \cup {s}
          /\ socks' = <<s>> \o socks
      BY Zenon, <1>2, <1>8 DEF Bind, SocksBound, evVars
    <2>2. IsInjective(socks') /\ Range(socks') \subseteq open'
      <3>1. s \notin Range(socks)
        BY Zenon, <1>3, <2>1
      <3>2. Range(<<s>> \o socks) \subseteq Range(socks) \cup {s} /\ IsInjective(<<s>> \o socks)
        BY Zenon, <1>3, <3>1, PrependFacts
      <3> QED
        BY Zenon, <1>3, <2>1, <3>2
    <2> QED
      BY Zenon, <1>3, <2>1, <2>2 DEF NoWaitInv
  <1>9. ASSUME NEW s, Close(s) \/ RxAny(s) PROVE FALSE
    BY Zenon, <1>2, <1>9 DEF Close, RxAny
  <1>10. CASE NicRx \/ NicRxInterrupted \/ RxReady
    BY Zenon, <1>2, <1>10 DEF NicRx, NicRxInterrupted, RxReady
  <1>11. CASE NicRxSelect
    <2>1. sl = <<>> /\ rxs = None /\ fds' = FdsReady /\ UNCHANGED <<open, kq, socks, sl, rxs>>
      BY Zenon, <1>2, <1>11 DEF NicRxSelect, TurnNicRx, Idle, sockVars
    <2>2. \A s \in fds' : kq'[s] # <<>>
      BY Zenon, <2>1 DEF FdsReady
    <2> QED
      BY Zenon, <1>3, <2>1, <2>2 DEF NoWaitInv
  <1>12. CASE RxReadySelect
    <2>1. told /\ rxs = None /\ sl' = Reversed(Select(socks, fds)) /\ told' = FALSE
          /\ UNCHANGED <<open, kq, socks, fds, rxs>>
      BY Zenon, <1>2, <1>12 DEF RxReadySelect, Idle, sockVars
    <2> DEFINE q == Select(socks, fds)
    <2> HIDE DEF q
    <2>2. q \in Seq(Sock) /\ Range(q) \subseteq fds /\ IsInjective(q)
      BY Zenon, <1>3 DEF q, SelectSound
    <2>3. Range(Reversed(q)) \subseteq Range(q) /\ IsInjective(Reversed(q))
      BY Zenon, <2>2, ReversedFacts
    <2>4. sl' = Reversed(q)
      BY Zenon, <2>1 DEF q
    <2> QED
      BY Zenon, <1>3, <2>1, <2>2, <2>3, <2>4 DEF NoWaitInv
  <1>13. CASE Serve
    <2>1. sl # <<>> /\ rxs = None /\ sl' = Tail(sl) /\ rxs' \in {Head(sl), None}
          /\ UNCHANGED <<open, kq, told, socks, fds>>
      BY Zenon, <1>13 DEF Serve, Idle, sockVars
    <2>2. Head(sl) \in Range(sl) /\ Range(Tail(sl)) \subseteq Range(sl)
          /\ IsInjective(Tail(sl)) /\ Head(sl) \notin Range(Tail(sl))
      BY Zenon, <1>3, <2>1, TailFacts
    <2>3. ~told
      BY Zenon, <1>3, <2>1
    <2> QED
      BY Zenon, <1>3, <2>1, <2>2, <2>3 DEF NoWaitInv
  <1>14. CASE RxFrom
    <2>1. rxs # None /\ kq' = [kq EXCEPT ![rxs] = Tail(@)] /\ rxs' = None
          /\ UNCHANGED <<open, told, socks, fds, sl>>
      BY Zenon, <1>14 DEF RxFrom, evVars
    <2>2. \A s \in Sock : s # rxs => kq'[s] = kq[s]
      BY Zenon, <2>1 DEF RxInv
    <2>3. ~told
      BY Zenon, <1>3, <2>1
    <2>4. \A s \in Range(sl) : kq'[s] # <<>>
      BY Zenon, <1>3, <1>4, <2>1, <2>2
    <2> QED
      BY Zenon, <1>3, <2>1, <2>3, <2>4 DEF NoWaitInv
  <1>15. CASE RxEmpty
    BY Zenon, <1>2, <1>15 DEF RxEmpty, Riot
  <1>16. ASSUME NEW n, RxBatch(n) PROVE NoWaitInv'
    BY Zenon, <1>2, <1>16 DEF RxBatch
  <1>17. CASE RxFromFails \/ RxNone
    BY Zenon, <1>6, <1>17 DEF RxFromFails, RxNone, sockVars, evVars
  <1>18. CASE Alloc \/ TxReturn
    BY Zenon, <1>5, <1>18 DEF Alloc, TxReturn, sockVars, evVars
  <1>19. ASSUME NEW o, Tx(o) PROVE NoWaitInv'
    BY Zenon, <1>5, <1>19 DEF Tx, sockVars, evVars
  <1>20. ASSUME NEW r, TxPass(r) PROVE NoWaitInv'
    BY Zenon, <1>5, <1>20 DEF TxPass, sockVars, evVars
  <1>21. ASSUME NEW v, Free(v) PROVE NoWaitInv'
    BY Zenon, <1>5, <1>21 DEF Free, sockVars, evVars
  <1>22. CASE UNCHANGED vars
    BY Zenon, <1>5, <1>22 DEF vars, sockVars, evVars
  <1>23. CASE Next
    BY ZenonT(60), <1>23, <1>7, <1>8, <1>9, <1>10, <1>11, <1>12, <1>13, <1>14, <1>15, <1>16, <1>17, <1>18,
       <1>19, <1>20, <1>21, Zenon DEF Next, TxBatch, TxTo
  <1> QED
    BY Zenon, <1>22, <1>23

-----------------------------------------------------------------------------
INSTANCE FiniteSetTheorems

\* Select picks, in order, each index whose element is in T: their ranks are the
\* numbers from one to how many there are.
LEMMA SelectIsSound == SelectSound
  <1> SUFFICES ASSUME NEW q \in Seq(Sock), NEW T \in SUBSET Sock
               PROVE  /\ Select(q, T) \in Seq(Sock)
                      /\ Range(Select(q, T)) \subseteq T \cap Range(q)
                      /\ IsInjective(q) => IsInjective(Select(q, T))
    BY Zenon DEF SelectSound
  <1> DEFINE I == {i \in DOMAIN q : q[i] \in T}
             upto(i) == {h \in I : h <= i}
             rank(i) == Cardinality(upto(i))
             n == Cardinality(I)
             f == [i \in I |-> rank(i)]
             at(k) == CHOOSE i \in I : rank(i) = k
             r == Select(q, T)
  <1>1. Len(q) \in Nat /\ DOMAIN q = 1 .. Len(q) /\ \A i \in DOMAIN q : q[i] \in Sock
    OBVIOUS
  <1>2. IsFiniteSet(1 .. Len(q))
    BY SMTT(60), <1>1, FS_Interval
  <1>3. IsFiniteSet(I) /\ n \in Nat
    <2>1. I \in SUBSET (1 .. Len(q))
      BY Zenon, <1>1
    <2>2. IsFiniteSet(I)
      BY Zenon, <1>2, <2>1, FS_Subset
    <2> QED
      BY Zenon, <2>2, FS_CardinalityType
  <1>4. r = [k \in 1 .. n |-> q[at(k)]]
    BY Zenon DEF Select
  <1>5. \A i \in I : i \in Nat /\ i \in DOMAIN q /\ q[i] \in T
    BY SMTT(60), <1>1
  <1>6. \A i \in I : upto(i) \in SUBSET I /\ i \in upto(i)
    BY SMTT(60), <1>5
  <1>7. \A i, h \in I : i < h => upto(i) \in SUBSET upto(h) /\ upto(i) # upto(h)
    <2> SUFFICES ASSUME NEW i \in I, NEW h \in I, i < h
                 PROVE  upto(i) \in SUBSET upto(h) /\ upto(i) # upto(h)
      BY Zenon
    <2>1. upto(i) \subseteq upto(h)
      BY SMTT(60), <1>5
    <2>2. h \in upto(h) /\ h \notin upto(i)
      BY SMTT(60), <1>5
    <2> QED
      BY Zenon, <2>1, <2>2
  <1> HIDE DEF I, upto, at, r, f
  <1>8. ASSUME NEW i \in I PROVE rank(i) \in 1 .. n /\ IsFiniteSet(upto(i))
    <2>1. IsFiniteSet(upto(i)) /\ rank(i) <= n
      BY Zenon, <1>3, <1>6, FS_Subset
    <2>2. rank(i) \in Nat
      BY Zenon, <2>1, FS_CardinalityType
    <2>3. rank(i) # 0
      BY Zenon, <1>6, <2>1, FS_EmptySet
    <2> QED
      BY SMTT(60), <1>3, <2>1, <2>2, <2>3
  <1>9. ASSUME NEW i \in I, NEW h \in I, i < h PROVE rank(i) < rank(h)
    <2>1. upto(i) \in SUBSET upto(h) /\ upto(i) # upto(h) /\ IsFiniteSet(upto(h))
      BY Zenon, <1>7, <1>8, <1>9
    <2>2. rank(i) <= rank(h) /\ rank(h) # rank(i)
      BY Zenon, <2>1, FS_Subset
    <2>3. rank(i) \in Nat /\ rank(h) \in Nat
      BY SMTT(60), <1>8
    <2> QED
      BY SMTT(60), <2>2, <2>3
  <1> HIDE DEF n, rank
  <1>10. \A i, h \in I : rank(i) = rank(h) => i = h
    <2> SUFFICES ASSUME NEW i \in I, NEW h \in I, rank(i) = rank(h), i # h PROVE FALSE
      BY Zenon
    <2>1. i < h \/ h < i
      BY SMTT(60), <1>5
    <2>2. rank(i) \in 1 .. n
      BY Zenon, <1>8
    <2> QED
      BY <1>9, <2>1, <2>2
  <1>11. f \in Injection(I, 1 .. n)
    BY Zenon, <1>8, <1>10 DEF f, Injection, IsInjective
  <1>12. IsFiniteSet(1 .. n) /\ Cardinality(1 .. n) = Cardinality(I)
    <2>1. Cardinality(1 .. n) = n
      BY SMTT(60), <1>3, FS_Interval
    <2> QED
      BY <1>3, <2>1, FS_Interval DEF n
  <1>13. f \in Surjection(I, 1 .. n)
    BY Zenon, <1>11, <1>12, FS_Injection
  <1>14. \A k \in 1 .. n : \E i \in I : rank(i) = k
    BY Zenon, <1>13 DEF Surjection, f
  <1>15. \A k \in 1 .. n : at(k) \in I /\ rank(at(k)) = k
    BY Zenon, <1>14 DEF at
  <1>16. r \in [1 .. n -> Sock] /\ \A k \in 1 .. n : r[k] = q[at(k)]
    BY Zenon, <1>1, <1>4, <1>5, <1>15
  <1>17. r \in Seq(Sock) /\ DOMAIN r = 1 .. n
    BY SMTT(60), <1>3, <1>16
  <1>18. Range(r) \subseteq T \cap Range(q)
    BY Zenon, <1>5, <1>15, <1>16, <1>17 DEF Range
  <1>19. ASSUME IsInjective(q), NEW k \in 1 .. n, NEW h \in 1 .. n, r[k] = r[h] PROVE k = h
    <2>1. at(k) = at(h)
      BY Zenon, <1>5, <1>15, <1>16, <1>19 DEF IsInjective
    <2> QED
      BY Zenon, <1>15, <2>1
  <1>20. IsInjective(q) => IsInjective(r)
    BY Zenon, <1>17, <1>19 DEF IsInjective
  <1> QED
    BY Zenon, <1>17, <1>18, <1>20 DEF r

\* No socket is ready.
LEMMA EvInvInit == Init => EvInv
  <1> SUFFICES ASSUME Init PROVE EvInv
    BY Zenon
  <1>1. socks = <<>> /\ sl = <<>> /\ ep = <<>> /\ ev = <<>> /\ fds = {} /\ told = FALSE /\ rxs = None
    BY Zenon DEF Init
  <1>2. IsInjective(<<>>) /\ Range(<<>>) = {}
    BY DEF IsInjective, Range
  <1> QED
    BY <1>1, <1>2 DEF EvInv, EvTypes, NoWaitInv

\* The inductive invariant.
Inv == RxInv /\ BufInv /\ TxInv /\ EvInv

\* The invariant holds in every state.
LEMMA InvAlways == Spec => []Inv
  <1>1. Init => Inv
    <2>1. Init => TxInv
      BY Zenon, TxInvNo DEF Init
    <2> QED
      BY Zenon, <2>1, RxInvInit, BufInvInit, EvInvInit DEF Inv
  <1>2. Inv /\ [Next]_vars => Inv'
    BY Zenon, RxInvNext, BufInvNext, TxInvNext, EvTypesNext, NoWaitNext, SelectIsSound DEF Inv, EvInv
  <1> QED
    BY <1>1, <1>2, PTL DEF Spec

\* Whatever the variant, whatever recvmmsg(), recvmsg() or recvfrom() return and
\* however few spare w_iovs there are, every w_iov is in w->iov or with the
\* application, and in one place only.
THEOREM IovsPartitioned == Spec => []IovPartition
  <1>1. Inv => IovPartition
    BY ZenonT(60) DEF Inv, RxInv, BufInv, TxInv, EvInv, EvTypes, IovPartition, TypeOK, Num
  <1> QED
    BY <1>1, InvAlways, PTL

\* w_rx() takes every datagram of a socket from the kernel once and in order, for
\* batches of any size.
THEOREM DatagramsInOrder == Spec => []InOrder
  BY InvAlways, InOrderChain, PTL DEF Inv

\* What w_tx() hands to the kernel is in the order of its queue and never sent twice,
\* however many messages of each batch the kernel takes.
THEOREM TransmitsInOrder == Spec => []TxInOrder
  BY InvAlways, TxInvImplies, PTL DEF Inv

\* In the loop of inetd.c, backend_riot.c calls recvfrom() on sockets that have data.
THEOREM RecvfromNeverWaits == Spec => []RxNoWait
  <1>1. Inv => RxNoWait
    BY Zenon DEF Inv, EvInv, NoWaitInv, RxNoWait
  <1> QED
    BY <1>1, InvAlways, PTL
=============================================================================
