--------------------------- MODULE LibraryProofs ----------------------------
(***************************************************************************)
(* What the smaller parts of warpcore guarantee: the neighbor table for any*)
(* number of engines, MAC addresses and frames, and for all arguments the  *)
(* functions that change no state of their own: queue.h, checksums, the    *)
(* comparisons and hashes of addresses, and w_rand_uniform32().            *)
(***************************************************************************)
EXTENDS TailQueue, InCksum, SockAddr, RandUniform, Neighbor, TLAPS

-----------------------------------------------------------------------------
(* The neighbor table and who_has().                                       *)

\* The MAC address x is, or was, one of engine m.
Owns(m, x) == x \in Mac /\ MacOf[x] = m

\* Every copy of a MAC address, in a frame, in the cache, in a socket, belongs to
\* the address it is stored for.
CopiesOwned ==
    /\ \A n \in Node : Owns(n, mac[n])
    /\ \A f \in net : Owns(f.spa, f.sha)
    /\ \A n, m \in Node : cache[n][m] # Bcast => Owns(m, cache[n][m])
    /\ \A n \in Node : peer[n] # None => Owns(peer[n], dmac[n])

\* who_has() knows whom it looks up and for whom.
WhoSound ==
    \A n \in Node :
      \/ who[n] = NoWho
      \/ /\ who[n].at \in {"find", "rx"} /\ who[n].addr \in Node
         /\ who[n].from \in {"connect", "mk_eth_hdr"}

\* last_mac is that of last_addr, except while mk_eth_hdr() is in who_has(), which
\* then looks up last_addr.
LastSound ==
    \A n \in Node :
      IF who[n].from = "mk_eth_hdr"
        THEN last[n].addr = who[n].addr
        ELSE last[n].addr # None => Owns(last[n].addr, last[n].mac)

\* What a frame was sent with.
SentSound == \A n \in Node : sent[n].addr # None => Owns(sent[n].addr, sent[n].mac)

\* The inductive invariant.
Inv == TypeOK /\ CopiesOwned /\ WhoSound /\ LastSound /\ SentSound

\* NewMac keeps the copies of MAC addresses right.
LEMMA InvNewMac ==
    ASSUME Inv, NEW n \in Node, NEW x \in Mac, NewMac(n, x)
    PROVE  Inv'
  <1> USE ConstAssumption DEF Inv, NewMac, NoWho
  <1>1. TypeOK'
    BY Zenon DEF TypeOK
  <1>2. CopiesOwned'
    BY SMTT(60) DEF TypeOK, CopiesOwned, Owns, WhoSound
  <1>3. WhoSound'
    BY Zenon DEF TypeOK, WhoSound
  <1>4. LastSound'
    BY SMTT(60) DEF TypeOK, LastSound, Owns
  <1>5. SentSound'
    BY SMTT(60) DEF TypeOK, SentSound, LastSound, CopiesOwned, Owns, WhoSound
  <1> QED BY Zenon, <1>1, <1>2, <1>3, <1>4, <1>5

\* Connect keeps the copies of MAC addresses right.
LEMMA InvConnect ==
    ASSUME Inv, NEW n \in Node, NEW m \in Node, Connect(n, m)
    PROVE  Inv'
  <1> USE ConstAssumption DEF Inv, Connect, NoWho
  <1>1. TypeOK'
    BY Zenon DEF TypeOK
  <1>2. CopiesOwned'
    BY SMTT(60) DEF TypeOK, CopiesOwned, Owns, WhoSound
  <1>3. WhoSound'
    BY SMTT(60) DEF TypeOK, WhoSound
  <1>4. LastSound'
    BY SMTT(60) DEF TypeOK, LastSound, CopiesOwned, Owns, WhoSound
  <1>5. SentSound'
    BY Zenon DEF TypeOK, SentSound, LastSound, CopiesOwned, Owns, WhoSound
  <1> QED BY ZenonT(60), <1>1, <1>2, <1>3, <1>4, <1>5

\* TxConnected keeps the copies of MAC addresses right.
LEMMA InvTxConnected ==
    ASSUME Inv, NEW n \in Node, TxConnected(n)
    PROVE  Inv'
  <1> USE ConstAssumption DEF Inv, TxConnected, NoWho
  <1>1. TypeOK'
    BY Zenon DEF TypeOK
  <1>2. CopiesOwned'
    BY DEF TypeOK, CopiesOwned, Owns, WhoSound
  <1>3. WhoSound'
    BY Zenon DEF TypeOK, WhoSound
  <1>4. LastSound'
    BY Zenon DEF TypeOK, LastSound, CopiesOwned, Owns, WhoSound
  <1>5. SentSound'
    BY SMTT(60) DEF TypeOK, SentSound, LastSound, CopiesOwned, Owns, WhoSound
  <1> QED BY Zenon, <1>1, <1>2, <1>3, <1>4, <1>5

\* TxUnconnected keeps the copies of MAC addresses right.
LEMMA InvTxUnconnected ==
    ASSUME Inv, NEW n \in Node, NEW m \in Node, TxUnconnected(n, m)
    PROVE  Inv'
  <1> USE ConstAssumption DEF Inv, TxUnconnected, NoWho
  <1>1. TypeOK'
    <2>1. last[n] \in [addr : Node \cup {None}, mac : Mac \cup {Bcast}]
      BY Zenon DEF TypeOK
    <2>2. CASE last[n].addr = m
      BY ZenonT(60), <2>1, <2>2 DEF TypeOK
    <2>3. CASE last[n].addr # m
      <3>1. /\ last' = [last EXCEPT ![n] = [addr |-> m, mac |-> last[n].mac]]
            /\ who' = [who EXCEPT ![n] = [at |-> "find", addr |-> m,
                                          from |-> "mk_eth_hdr"]]
        BY Zenon, <2>3
      <3>2. UNCHANGED <<mac, net, cache, peer, dmac, sent>>
        BY Zenon, <2>3
      <3>3. TypeOK
        BY Zenon
      <3> HIDE DEF TxUnconnected, Inv
      <3> QED BY Zenon, <2>1, <3>1, <3>2, <3>3 DEF TypeOK
    <2> QED BY Zenon, <2>2, <2>3
  <1>2. CopiesOwned'
    BY SMTT(60) DEF TypeOK, CopiesOwned, Owns, WhoSound
  <1>3. WhoSound'
    <2>1. WhoSound /\ who \in [Node -> [at : {"off", "find", "rx"}, addr : Node \cup {None},
                                       from : {"none", "connect", "mk_eth_hdr"}]]
      BY Zenon DEF TypeOK
    <2>2. CASE last[n].addr = m
      <3>1. who' = who
        BY Zenon, <2>2
      <3> QED BY ONLY Zenon, <2>1, <3>1 DEF WhoSound, NoWho
    <2>3. CASE last[n].addr # m
      <3>1. who' = [who EXCEPT ![n] = [at |-> "find", addr |-> m,
                                       from |-> "mk_eth_hdr"]]
        BY Zenon, <2>3
      <3> QED BY ONLY SMTT(60), n \in Node, m \in Node, <2>1, <3>1 DEF WhoSound, NoWho
    <2> QED BY Zenon, <2>2, <2>3
  <1>4. LastSound'
    <2>1. SUFFICES ASSUME NEW k \in Node
                   PROVE  IF who'[k].from = "mk_eth_hdr"
                            THEN last'[k].addr = who'[k].addr
                            ELSE last'[k].addr # None => Owns(last'[k].addr, last'[k].mac)
      BY Zenon DEF LastSound, Owns
    <2>2. CASE k = n /\ last[n].addr # m
      <3>1. who'[k].from = "mk_eth_hdr" /\ who'[k].addr = m /\ last'[k].addr = m
        BY <2>2 DEF TypeOK
      <3> QED BY Zenon, <3>1
    <2>3. CASE ~(k = n /\ last[n].addr # m)
      <3>1. who'[k] = who[k] /\ last'[k] = last[k]
        BY SMTT(60), <2>3 DEF TypeOK
      <3>2. LastSound
        BY Zenon
      <3> HIDE DEF Inv, TxUnconnected
      <3> QED BY ZenonT(60), <3>1, <3>2 DEF LastSound
    <2> QED BY Zenon, <2>2, <2>3
  <1>5. SentSound'
    <2>1. who[n].from # "mk_eth_hdr" /\ m # None
      BY SMTT(60)
    <2>2. CASE last[n].addr = m
      <3>1. Owns(last[n].addr, last[n].mac)
        BY Zenon, <2>1, <2>2 DEF LastSound
      <3>2. sent' = [sent EXCEPT ![n] = last[n]]
        BY Zenon, <2>2
      <3> QED BY SMTT(60), <3>1, <3>2 DEF TypeOK, SentSound, Owns
    <2>3. CASE last[n].addr # m
      BY Zenon, <2>3 DEF SentSound
    <2> QED BY Zenon, <2>2, <2>3
  <1> QED BY Zenon, <1>1, <1>2, <1>3, <1>4, <1>5

\* WhoHasReturn keeps the copies of MAC addresses right.
LEMMA InvWhoHasReturn ==
    ASSUME Inv, NEW n \in Node, WhoHasReturn(n)
    PROVE  Inv'
  <1> USE ConstAssumption DEF Inv, WhoHasReturn, Known, LastSet, NoWho
  <1> DEFINE m == who[n].addr
             x == cache[n][m]
  <1>0. m \in Node /\ Owns(m, x) /\ x # Bcast
    BY SMTT(60) DEF TypeOK, WhoSound, CopiesOwned
  <1>1. TypeOK'
    <2>1. x \in Mac /\ last[n].addr \in Node \cup {None}
      BY Zenon, <1>0 DEF TypeOK, Owns
    <2>2. CASE who[n].from = "connect"
      BY ZenonT(60), <1>0, <2>1, <2>2 DEF TypeOK
    <2>3. CASE who[n].from # "connect"
      <3>1. /\ last' = [last EXCEPT ![n] = [addr |-> last[n].addr, mac |-> x]]
            /\ sent' = [sent EXCEPT ![n] = [addr |-> m, mac |-> x]]
            /\ who' = [who EXCEPT ![n] = NoWho]
        BY Zenon, <2>3
      <3>2. UNCHANGED <<mac, net, cache, peer, dmac>>
        BY Zenon, <2>3
      <3>3. TypeOK
        BY Zenon
      <3> HIDE DEF WhoHasReturn, Inv, m, x
      <3> QED BY Zenon, <1>0, <2>1, <3>1, <3>2, <3>3 DEF TypeOK
    <2> QED BY Zenon, <2>2, <2>3
  <1>2. CopiesOwned'
    <2>1. CASE who[n].from = "connect"
      <3>1. /\ peer' = [peer EXCEPT ![n] = m] /\ dmac' = [dmac EXCEPT ![n] = x]
            /\ UNCHANGED <<mac, net, cache>>
        BY Zenon, <2>1
      <3>2. \A k \in Node : peer'[k] # None => Owns(peer'[k], dmac'[k])
        <4> HIDE DEF m, x
        <4> QED BY Zenon, <1>0, <3>1 DEF TypeOK, CopiesOwned
      <3>3. CopiesOwned
        BY Zenon
      <3> QED BY ONLY ZenonT(60), <3>1, <3>2, <3>3 DEF CopiesOwned, Owns
    <2>2. CASE who[n].from # "connect"
      BY ZenonT(60), <2>2 DEF CopiesOwned, Owns
    <2> QED BY Zenon, <2>1, <2>2
  <1>3. WhoSound'
    BY Zenon DEF TypeOK, WhoSound
  <1>4. LastSound'
    BY SMTT(60) DEF TypeOK, LastSound, CopiesOwned, Owns, WhoSound
  <1>5. SentSound'
    <2>1. CASE who[n].from = "connect"
      BY Zenon, <2>1 DEF SentSound, Owns
    <2>2. CASE who[n].from # "connect"
      <3>1. sent' = [sent EXCEPT ![n] = [addr |-> m, mac |-> x]]
        BY Zenon, <2>2
      <3> QED BY Zenon, <1>0, <3>1 DEF TypeOK, SentSound, Owns
    <2> QED BY Zenon, <2>1, <2>2
  <1> QED BY Zenon, <1>1, <1>2, <1>3, <1>4, <1>5

\* WhoHasQuery keeps the copies of MAC addresses right.
LEMMA InvWhoHasQuery ==
    ASSUME Inv, NEW n \in Node, WhoHasQuery(n)
    PROVE  Inv'
  <1> USE ConstAssumption DEF Inv, WhoHasQuery, At, Query, Sent, Frame, NoWho
  <1>1. TypeOK'
    <2>1. who[n].addr \in Node /\ who[n].from \in {"connect", "mk_eth_hdr"}
      BY SMTT(60) DEF TypeOK, WhoSound
    <2>2. Query(n) \in Frame
      BY Zenon, <2>1 DEF TypeOK
    <2>3. net' \subseteq Frame
      BY SMTT(60), <2>2 DEF TypeOK
    <2>4. who' \in [Node -> [at : {"off", "find", "rx"}, addr : Node \cup {None},
                            from : {"none", "connect", "mk_eth_hdr"}]]
      BY Zenon, <2>1 DEF TypeOK
    <2> QED BY Zenon, <2>3, <2>4 DEF TypeOK
  <1>2. CopiesOwned'
    BY SMTT(60) DEF TypeOK, CopiesOwned, Owns, WhoSound
  <1>3. WhoSound'
    BY SMTT(60) DEF TypeOK, WhoSound
  <1>4. LastSound'
    BY SMTT(60) DEF TypeOK, LastSound, CopiesOwned, Owns, WhoSound
  <1>5. SentSound'
    BY ZenonT(60) DEF TypeOK, SentSound, LastSound, CopiesOwned, Owns, WhoSound
  <1> QED BY Zenon, <1>1, <1>2, <1>3, <1>4, <1>5

\* WhoHasAgain keeps the copies of MAC addresses right.
LEMMA InvWhoHasAgain ==
    ASSUME Inv, NEW n \in Node, WhoHasAgain(n)
    PROVE  Inv'
  <1> USE ConstAssumption DEF Inv, WhoHasAgain, At, NoWho
  <1>1. TypeOK'
    BY Zenon DEF TypeOK
  <1>2. CopiesOwned'
    <2>1. CopiesOwned /\ UNCHANGED <<mac, net, cache, peer, dmac>>
      BY Zenon
    <2> QED
      BY ONLY SMTT(60), <2>1 DEF CopiesOwned, Owns
  <1>3. WhoSound'
    BY SMTT(60) DEF TypeOK, WhoSound
  <1>4. LastSound'
    BY SMTT(60) DEF TypeOK, LastSound, CopiesOwned, Owns, WhoSound
  <1>5. SentSound'
    BY Zenon DEF TypeOK, SentSound, LastSound, CopiesOwned, Owns, WhoSound
  <1> QED BY Zenon, <1>1, <1>2, <1>3, <1>4, <1>5

\* RxRequest keeps the copies of MAC addresses right.
LEMMA InvRxRequest ==
    ASSUME Inv, NEW n \in Node, NEW f \in net, RxRequest(n, f)
    PROVE  Inv'
  <1> USE ConstAssumption DEF Inv, RxRequest, Received, Sent, Reply, Update, Learns, Frame, NoWho
  <1>1. TypeOK'
    BY SMTT(60) DEF TypeOK
  <1>2. CopiesOwned'
    <2>1. \A k \in Node : Owns(k, mac[k])'
      BY Zenon DEF CopiesOwned, Owns
    <2>2. \A g \in net' : Owns(g.spa, g.sha)
      BY SMTT(60) DEF TypeOK, CopiesOwned, Owns
    <2>3. \A k, m \in Node : cache'[k][m] # Bcast => Owns(m, cache'[k][m])
      BY SMTT(60) DEF TypeOK, CopiesOwned, Owns
    <2>4. \A k \in Node : peer'[k] # None => Owns(peer'[k], dmac'[k])
      BY Zenon DEF CopiesOwned, Owns
    <2> QED
      BY Zenon, <2>1, <2>2, <2>3, <2>4 DEF CopiesOwned, Owns
  <1>3. WhoSound'
    BY ZenonT(60) DEF TypeOK, WhoSound
  <1>4. LastSound'
    BY ZenonT(60) DEF TypeOK, LastSound, CopiesOwned, Owns, WhoSound
  <1>5. SentSound'
    BY ZenonT(60) DEF TypeOK, SentSound, LastSound, CopiesOwned, Owns, WhoSound
  <1> QED BY Zenon, <1>1, <1>2, <1>3, <1>4, <1>5

\* RxReply keeps the copies of MAC addresses right.
LEMMA InvRxReply ==
    ASSUME Inv, NEW n \in Node, NEW f \in net, RxReply(n, f)
    PROVE  Inv'
  <1> USE ConstAssumption DEF Inv, RxReply, Received, Update, Frame, NoWho
  <1>1. TypeOK'
    BY Zenon DEF TypeOK
  <1>2. CopiesOwned'
    <2>1. \A k \in Node : Owns(k, mac[k])'
      BY Zenon DEF CopiesOwned, Owns
    <2>2. \A g \in net' : Owns(g.spa, g.sha)
      BY SMTT(60) DEF CopiesOwned
    <2>3. \A k, m \in Node : cache'[k][m] # Bcast => Owns(m, cache'[k][m])
      <3>1. cache' = [cache EXCEPT ![n][f.spa] = f.sha] /\ Owns(f.spa, f.sha)
        BY Zenon DEF CopiesOwned
      <3>2. cache \in [Node -> [Node -> Mac \cup {Bcast}]]
        BY Zenon DEF TypeOK
      <3>3. \A k, m \in Node : cache[k][m] # Bcast => Owns(m, cache[k][m])
        BY Zenon DEF CopiesOwned
      <3> QED BY ONLY SMTT(60), n \in Node, <3>1, <3>2, <3>3
    <2>4. \A k \in Node : peer'[k] # None => Owns(peer'[k], dmac'[k])
      BY Zenon DEF CopiesOwned, Owns
    <2> QED
      BY Zenon, <2>1, <2>2, <2>3, <2>4 DEF CopiesOwned, Owns
  <1>3. WhoSound'
    BY Zenon DEF TypeOK, WhoSound
  <1>4. LastSound'
    BY Zenon DEF TypeOK, LastSound, CopiesOwned, Owns, WhoSound
  <1>5. SentSound'
    BY Zenon DEF TypeOK, SentSound, LastSound, CopiesOwned, Owns, WhoSound
  <1> QED BY Zenon, <1>1, <1>2, <1>3, <1>4, <1>5

\* The engines start with empty caches and unconnected sockets.
LEMMA InvInit == Init => Inv
  <1> USE ConstAssumption DEF Init, NoWho
  <1>1. Init => TypeOK
    BY SMTT(60) DEF TypeOK
  <1>2. Init => CopiesOwned /\ WhoSound /\ LastSound /\ SentSound
    BY DEF CopiesOwned, Owns, WhoSound, LastSound, SentSound
  <1> QED BY Zenon, <1>1, <1>2 DEF Inv

\* Every step of an engine, of the network or of a restarting host keeps Inv.
LEMMA InvNext == Inv /\ [Next]_vars => Inv'
  <1> SUFFICES ASSUME Inv, [Next]_vars
               PROVE  Inv'
    BY Zenon
  <1>1. ASSUME NEW n \in Node, NodeStep(n)
        PROVE  Inv'
    <2>1. CASE \E m \in Node \ {n} : Connect(n, m) \/ TxUnconnected(n, m)
      BY Zenon, <2>1, InvConnect, InvTxUnconnected
    <2>2. CASE TxConnected(n)
      BY Zenon, <2>2, InvTxConnected
    <2>3. CASE WhoHasReturn(n)
      BY Zenon, <2>3, InvWhoHasReturn
    <2>4. CASE WhoHasQuery(n)
      BY Zenon, <2>4, InvWhoHasQuery
    <2>5. CASE WhoHasAgain(n)
      BY Zenon, <2>5, InvWhoHasAgain
    <2>6. CASE \E f \in net : RxRequest(n, f) \/ RxReply(n, f)
      BY Zenon, <2>6, InvRxRequest, InvRxReply
    <2> QED BY Zenon, <1>1, <2>1, <2>2, <2>3, <2>4, <2>5, <2>6 DEF NodeStep
  <1>2. ASSUME NEW n \in Node, NEW x \in Mac, NewMac(n, x)
        PROVE  Inv'
    BY Zenon, <1>2, InvNewMac
  <1>3. CASE UNCHANGED vars
    <2>1. UNCHANGED <<mac, net, cache, who, last, peer, dmac, sent>>
      BY Zenon, <1>3 DEF vars
    <2>2. TypeOK'
      BY Zenon, <2>1 DEF Inv, TypeOK, Frame
    <2>3. CopiesOwned'
      BY SMTT(60), <2>1 DEF Inv, CopiesOwned, Owns
    <2>4. WhoSound' /\ LastSound'
      BY SMTT(60), <2>1 DEF Inv, WhoSound, LastSound, Owns, NoWho
    <2>5. SentSound'
      BY SMTT(60), <2>1 DEF Inv, SentSound, Owns
    <2> QED
      BY Zenon, <2>2, <2>3, <2>4, <2>5 DEF Inv
  <1> QED BY Zenon, <1>1, <1>2, <1>3 DEF Next

\* The state of every engine and the frames between them keep their types:
\* neighbor_update() never stores anything but a MAC address in the cache.
THEOREM NeighborType == Spec => []TypeOK
  <1>1. Inv => TypeOK
    BY DEF Inv
  <1> QED BY InvInit, InvNext, <1>1, PTL DEF Spec

\* Whatever the network loses, repeats or reorders, and although mk_eth_hdr() stores
\* last_addr before it has last_mac and frames are handled in between, a UDP frame
\* carries a MAC address of the host it is for.
THEOREM FramesToOwner == Spec => []SentToOwner
  <1>1. Inv => SentToOwner
    BY SMTT(60), ConstAssumption DEF Inv, TypeOK, SentSound, Owns, SentToOwner
  <1> QED BY InvInit, InvNext, <1>1, PTL DEF Spec

-----------------------------------------------------------------------------
(* What the operations of queue.h do to the sequence of elements that a    *)
(* queue holds, for queues of any length: the pointers follow, and the     *)
(* other queues keep what they hold.                                       *)

\* What a pointer may be.
Link == Elem \cup {NULL}

\* The memory of the queues.
Heap(h) ==
    /\ h = [first |-> h.first, last |-> h.last, len |-> h.len, next |-> h.next]
    /\ h.first \in [Queue -> Link] /\ h.last \in [Queue -> Link]
    /\ h.len \in [Queue -> Nat] /\ h.next \in [Elem -> Link]

\* c and d have no element in common.
Apart(c, d) == \A i \in 1 .. Len(c) : \A j \in 1 .. Len(d) : c[i] # d[j]

\* Inserting v at the tail of a queue that holds c, v not among them, makes it hold
\* c and then v, whatever the next of v was (queue.h:453).
THEOREM InsertTail ==
  ASSUME NEW h, Heap(h), NEW q \in Queue, NEW c, IsQueue(h, q, c),
         NEW v \in Elem, \A i \in 1 .. Len(c) : c[i] # v
  PROVE  IsQueue(sq_insert_tail(h, q, v), q, Append(c, v))
<1> DEFINE g == sq_insert_tail(h, q, v)
           d == Append(c, v)
<1>1. c \in Seq(Elem) /\ d \in Seq(Elem) /\ Len(d) = Len(c) + 1
  BY DEF IsQueue
<1>2. d[Len(d)] = v /\ \A i \in 1 .. Len(c) : d[i] = c[i]
  BY <1>1
<1>3. IsInjective(d)
  BY <1>1, <1>2 DEF IsQueue, IsInjective
<1>4. g.len[q] = Len(d) /\ g.last[q] = v /\ g.next[v] = NULL
  BY Zenon, <1>1, NullAssumption DEF sq_insert_tail, StoreLast, IsQueue, Heap
<1>5. CASE c = <<>>
  <2>1. h.last[q] = NULL /\ Len(c) = 0
    BY Zenon, <1>5 DEF IsQueue
  <2>2. g.first[q] = v
    BY Zenon, <2>1 DEF sq_insert_tail, StoreLast, Heap
  <2>3. Len(d) = 1 /\ d[1] = v /\ d # <<>>
    BY <1>1, <1>2, <2>1
  <2>4. \A i \in 1 .. Len(d) - 1 : g.next[d[i]] = d[i + 1]
    BY <2>3
  <2> HIDE DEF g, d
  <2>5. IsQueue(g, q, d)
    BY Zenon, <1>1, <1>3, <1>4, <2>2, <2>3, <2>4 DEF IsQueue
  <2> QED
    BY Zenon, <2>5 DEF g, d
<1>6. CASE c # <<>>
  <2>1. h.last[q] = c[Len(c)] /\ Len(c) \in Nat \ {0} /\ c[Len(c)] \in Elem
    BY <1>6, <1>1 DEF IsQueue
  <2>2. g.first = h.first /\ g.next = [[h.next EXCEPT ![c[Len(c)]] = v] EXCEPT ![v] = NULL]
    BY Zenon, <2>1, NullAssumption DEF sq_insert_tail, StoreLast
  <2>3. g.first[q] = d[1]
    BY <2>1, <2>2, <1>2, <1>6 DEF IsQueue
  <2>4. ASSUME NEW i \in 1 .. Len(d) - 1 PROVE g.next[d[i]] = d[i + 1]
    <3>1. i \in 1 .. Len(c) /\ c[i] \in Elem /\ c[i] # v /\ d[i] = c[i]
      BY <1>1, <1>2
    <3>2. CASE i = Len(c)
      BY Zenon, <3>1, <3>2, <2>2, <2>1, <1>1, <1>2 DEF Heap
    <3>3. CASE i # Len(c)
      <4>1. i \in 1 .. Len(c) - 1 /\ i + 1 \in 1 .. Len(c)
        BY <3>1, <3>3, <1>1
      <4>2. c[i] # c[Len(c)]
        BY <3>1, <3>3, <2>1, <1>1 DEF IsQueue, IsInjective
      <4>3. h.next[c[i]] = c[i + 1]
        BY Zenon, <4>1, <1>6 DEF IsQueue
      <4> QED
        BY Zenon, <4>1, <4>2, <4>3, <3>1, <2>2, <1>2 DEF Heap
    <3> QED
      BY Zenon, <3>2, <3>3
  <2>5. d # <<>>
    BY <1>1
  <2> QED
    BY Zenon, <1>1, <1>2, <1>3, <1>4, <2>3, <2>4, <2>5 DEF IsQueue
<1> QED
  BY Zenon, <1>5, <1>6

\* Inserting v at the head of a queue that holds c makes it hold v and then c
\* (queue.h:445).
THEOREM InsertHead ==
  ASSUME NEW h, Heap(h), NEW q \in Queue, NEW c, IsQueue(h, q, c),
         NEW v \in Elem, \A i \in 1 .. Len(c) : c[i] # v
  PROVE  IsQueue(sq_insert_head(h, q, v), q, <<v>> \o c)
<1> DEFINE g == sq_insert_head(h, q, v)
           d == <<v>> \o c
<1>1. /\ c \in Seq(Elem) /\ d \in Seq(Elem) /\ Len(d) = Len(c) + 1
      /\ d # <<>> /\ d[1] = v
  BY DEF IsQueue
<1>2. \A i \in 2 .. Len(d) : i - 1 \in 1 .. Len(c) /\ d[i] = c[i - 1]
  BY <1>1
<1>3. IsInjective(d)
  BY <1>1, <1>2 DEF IsQueue, IsInjective
<1>4. /\ g.len[q] = Len(d) /\ g.first[q] = v
      /\ g.next = [h.next EXCEPT ![v] = h.first[q]]
  BY Zenon, <1>1 DEF sq_insert_head, IsQueue, Heap
<1>5. g.last[q] = d[Len(d)] /\ g.next[d[Len(d)]] = NULL
  <2>1. CASE c = <<>>
    <3>1. h.first[q] = NULL /\ Len(d) = 1
      BY <2>1, <1>1 DEF IsQueue
    <3> QED
      BY <3>1, <1>1, <1>4 DEF sq_insert_head, sq_empty, Heap
  <2>2. CASE c # <<>>
    <3>1. /\ Len(c) \in 1 .. Len(c) /\ c[1] \in Elem /\ c[Len(c)] \in Elem
          /\ d[Len(d)] = c[Len(c)]
      BY <2>2, <1>1, <1>2
    <3>2. h.first[q] # NULL /\ h.last[q] = c[Len(c)] /\ h.next[c[Len(c)]] = NULL
      BY Zenon, <2>2, <3>1, NullAssumption DEF IsQueue
    <3>3. c[Len(c)] # v
      BY Zenon, <3>1
    <3> QED
      BY Zenon, <3>1, <3>2, <3>3, <1>4 DEF sq_insert_head, sq_empty, Heap
  <2> QED
    BY Zenon, <2>1, <2>2
<1>6. ASSUME NEW i \in 1 .. Len(d) - 1 PROVE g.next[d[i]] = d[i + 1]
  <2>1. i + 1 \in 2 .. Len(d) /\ i \in 1 .. Len(c) /\ d[i + 1] = c[i] /\ c # <<>>
    BY <1>1, <1>2
  <2>2. CASE i = 1
    <3>1. h.first[q] = c[1]
      BY Zenon, <2>1 DEF IsQueue
    <3> QED
      BY <2>1, <2>2, <3>1, <1>1, <1>4 DEF Heap
  <2>3. CASE i # 1
    <3>1. /\ i - 1 \in 1 .. Len(c) - 1 /\ d[i] = c[i - 1]
          /\ c[i - 1] \in Elem /\ c[i - 1] # v
      BY <2>1, <2>3, <1>1, <1>2
    <3>2. h.next[c[i - 1]] = c[i]
      BY <3>1, <2>1 DEF IsQueue
    <3> QED
      BY Zenon, <3>1, <3>2, <2>1, <1>4 DEF Heap
  <2> QED
    BY Zenon, <2>2, <2>3
<1> HIDE DEF g, d
<1>7. IsQueue(g, q, d)
  BY Zenon, <1>1, <1>3, <1>4, <1>5, <1>6 DEF IsQueue
<1> QED
  BY Zenon, <1>7 DEF g, d

\* Removing the head of a queue leaves it with the rest (queue.h:490).
THEOREM RemoveHead ==
  ASSUME NEW h, Heap(h), NEW q \in Queue, NEW c, IsQueue(h, q, c), c # <<>>
  PROVE  /\ h.first[q] = c[1]
         /\ IsQueue(sq_remove_head(h, q), q, Tail(c))
<1> DEFINE g == sq_remove_head(h, q)
           d == Tail(c)
<1>1. /\ c \in Seq(Elem) /\ d \in Seq(Elem) /\ Len(d) = Len(c) - 1
      /\ Len(c) \in Nat \ {0} /\ c[1] \in Elem
  BY DEF IsQueue
<1>2. \A i \in 1 .. Len(d) : i + 1 \in 1 .. Len(c) /\ d[i] = c[i + 1]
  BY <1>1
<1>3. IsInjective(d)
  BY SMTT(60), <1>1, <1>2 DEF IsQueue, IsInjective
<1>4. h.first[q] = c[1] /\ g.next = h.next /\ g.first[q] = h.next[c[1]]
  BY Zenon, <1>1 DEF sq_remove_head, IsQueue, Heap
<1>5. g.len[q] = Len(d)
  BY Zenon, <1>1 DEF sq_remove_head, IsQueue, Heap
<1>6. CASE d = <<>>
  <2> HIDE DEF g, d
  <2>0. Len(d) = 0 /\ Len(c) = 1
    BY <1>1, <1>6
  <2>1. Len(c) = 1 /\ h.next[c[1]] = NULL
    BY Zenon, <2>0 DEF IsQueue
  <2>2. g.first[q] = NULL /\ g.last[q] = NULL
    BY Zenon, <2>1, <1>4 DEF g, sq_remove_head, Heap
  <2>3. IsQueue(g, q, d)
    BY Zenon, <1>1, <1>3, <1>5, <1>6, <2>2 DEF IsQueue
  <2> QED
    BY Zenon, <2>3, <1>4 DEF g, d
<1>7. CASE d # <<>>
  <2>1. 1 \in 1 .. Len(d) /\ 1 \in 1 .. Len(c) - 1 /\ Len(d) \in 1 .. Len(d)
    BY <1>1, <1>7
  <2>2. h.next[c[1]] = d[1] /\ d[1] \in Elem /\ d[1] # NULL
    <3>1. h.next[c[1]] = c[1 + 1]
      BY Zenon, <2>1 DEF IsQueue
    <3> QED
      BY <3>1, <2>1, <1>1, <1>2, NullAssumption
  <2>3. d[Len(d)] = c[Len(c)]
    BY <2>1, <1>1, <1>2
  <2>4. g.first[q] = d[1] /\ g.last[q] = d[Len(d)] /\ g.next[d[Len(d)]] = NULL
    BY Zenon, <2>2, <2>3, <1>4 DEF sq_remove_head, IsQueue, Heap
  <2>5. ASSUME NEW i \in 1 .. Len(d) - 1 PROVE g.next[d[i]] = d[i + 1]
    <3>1. i + 1 \in 1 .. Len(c) - 1 /\ i \in 1 .. Len(d) /\ i + 1 \in 1 .. Len(d)
      BY <1>1
    <3>2. h.next[c[i + 1]] = c[(i + 1) + 1]
      BY Zenon, <3>1 DEF IsQueue
    <3> QED
      BY Zenon, <3>1, <3>2, <1>2, <1>4
  <2> HIDE DEF g, d
  <2>6. IsQueue(g, q, d)
    BY Zenon, <1>1, <1>3, <1>5, <1>7, <2>4, <2>5 DEF IsQueue
  <2> QED
    BY Zenon, <2>6, <1>4 DEF g, d
<1> QED
  BY Zenon, <1>6, <1>7

\* An empty queue that is added leaves all as it is; any other moves, in order, to
\* the end of the queue it is added to, and is empty afterwards (queue.h:399).
THEOREM Concat ==
  ASSUME NEW h, Heap(h), NEW a \in Queue, NEW b \in Queue, a # b,
         NEW c, IsQueue(h, a, c), NEW d, IsQueue(h, b, d), Apart(c, d)
  PROVE  /\ IsQueue(sq_concat(h, a, b), a, c \o d)
         /\ IsQueue(sq_concat(h, a, b), b, <<>>)
<1> DEFINE g == sq_concat(h, a, b)
           e == c \o d
<1>1. /\ c \in Seq(Elem) /\ d \in Seq(Elem) /\ e \in Seq(Elem)
      /\ Len(e) = Len(c) + Len(d) /\ Len(c) \in Nat /\ Len(d) \in Nat
  BY DEF IsQueue
<1>2. /\ \A i \in 1 .. Len(c) : e[i] = c[i] /\ c[i] \in Elem
      /\ \A i \in 1 .. Len(d) : e[Len(c) + i] = d[i] /\ d[i] \in Elem
  BY <1>1
<1>3. IsInjective(<<>>) /\ <<>> \in Seq(Elem) /\ Len(<<>>) = 0
  BY DEF IsInjective
<1>4. CASE d = <<>>
  <2>1. h.first[b] = NULL /\ g = h
    BY Zenon, <1>4 DEF IsQueue, sq_concat, sq_empty
  <2>2. e = c
    BY <1>4, <1>1
  <2> QED
    BY Zenon, <1>4, <2>1, <2>2
<1>5. CASE d # <<>>
  <2>1. /\ Len(d) \in Nat \ {0} /\ d[1] \in Elem /\ d[Len(d)] \in Elem
        /\ e[Len(e)] = d[Len(d)] /\ e # <<>>
    <3>1. 1 \in 1 .. Len(d) /\ Len(d) \in 1 .. Len(d)
      BY SMTT(60), <1>5, <1>1
    <3> QED
      BY <3>1, <1>1, <1>2
  <2>2. /\ h.first[b] = d[1] /\ h.last[b] = d[Len(d)]
        /\ h.next[d[Len(d)]] = NULL /\ ~sq_empty(h, b)
    BY Zenon, <1>5, <2>1, NullAssumption DEF IsQueue, sq_empty
  <2>3. g = sq_init([first |-> StoreLast(h, a, h.first[b]).first,
                     last  |-> [h.last EXCEPT ![a] = h.last[b]],
                     len   |-> [h.len EXCEPT ![a] = @ + h.len[b]],
                     next  |-> StoreLast(h, a, h.first[b]).next], b)
    BY Zenon, <2>2 DEF sq_concat
  <2>4. /\ g.last[a] = d[Len(d)] /\ g.len[a] = Len(e)
        /\ g.first[b] = NULL /\ g.last[b] = NULL /\ g.len[b] = 0
    <3>1. h.len[b] = Len(d) /\ h.len[a] = Len(c)
      BY Zenon DEF IsQueue
    <3>2. /\ g.first = [StoreLast(h, a, h.first[b]).first EXCEPT ![b] = NULL]
          /\ g.last = [[h.last EXCEPT ![a] = h.last[b]] EXCEPT ![b] = NULL]
          /\ g.len = [[h.len EXCEPT ![a] = @ + h.len[b]] EXCEPT ![b] = 0]
      BY ONLY SMTT(60), <2>3 DEF sq_init
    <3>3. StoreLast(h, a, h.first[b]).first \in [Queue -> Link]
      BY SMTT(60), <2>1, <2>2 DEF StoreLast, Heap, Link
    <3>4. h.last \in [Queue -> Link] /\ h.len \in [Queue -> Nat]
      BY Zenon DEF Heap
    <3>5. g.last[a] = h.last[b] /\ g.last[b] = NULL /\ g.first[b] = NULL
      BY ONLY SMTT(60), a \in Queue, b \in Queue, a # b, <3>2, <3>3, <3>4
    <3>6. g.len[a] = h.len[a] + h.len[b] /\ g.len[b] = 0
      BY ONLY SMTT(60), a \in Queue, b \in Queue, a # b, <3>2, <3>4
    <3> QED
      BY Zenon, <2>2, <3>1, <3>5, <3>6, <1>1
  <2>5. IsQueue(g, b, <<>>)
    <3> HIDE DEF g
    <3> QED
      BY Zenon, <1>3, <2>4 DEF IsQueue
  <2>6. IsInjective(e)
    <3>1. ASSUME NEW i \in 1 .. Len(e), NEW j \in 1 .. Len(e), e[i] = e[j]
          PROVE  i = j
      <4> HIDE DEF e
      <4>1. CASE i <= Len(c) /\ j <= Len(c)
        <5>1. i \in 1 .. Len(c) /\ j \in 1 .. Len(c) /\ e[i] = c[i] /\ e[j] = c[j]
          <6>1. i \in 1 .. Len(c) /\ j \in 1 .. Len(c)
            BY ONLY SMTT(60), <4>1, <1>1, i \in 1 .. Len(e), j \in 1 .. Len(e)
          <6> QED
            BY Zenon, <6>1, <1>2
        <5>2. IsInjective(c) /\ DOMAIN c = 1 .. Len(c)
          BY <1>1 DEF IsQueue
        <5>3. c[i] = c[j] /\ i \in DOMAIN c /\ j \in DOMAIN c
          BY Zenon, <5>1, <5>2, <3>1
        <5> QED
          BY Zenon, <5>2, <5>3 DEF IsInjective
      <4> DEFINE k == i - Len(c)
                 l == j - Len(c)
      <4>5. /\ k + Len(c) = i /\ Len(c) + k = i /\ (i > Len(c) => k \in 1 .. Len(d))
            /\ l + Len(c) = j /\ Len(c) + l = j /\ (j > Len(c) => l \in 1 .. Len(d))
        BY <1>1
      <4> HIDE DEF k, l
      <4>2. CASE i > Len(c) /\ j > Len(c)
        <5>1. e[i] = d[k] /\ e[j] = d[l]
          BY Zenon, <4>2, <4>5, <1>2
        <5>3. IsInjective(d) /\ DOMAIN d = 1 .. Len(d)
          <6>1. IsInjective(d) /\ d \in Seq(Elem)
            BY Zenon DEF IsQueue
          <6> QED
            BY ONLY SMTT(60), <6>1
        <5>4. k \in DOMAIN d /\ l \in DOMAIN d /\ d[k] = d[l]
          BY Zenon, <5>1, <5>3, <4>2, <4>5, <3>1
        <5>2. k = l
          BY Zenon, <5>3, <5>4 DEF IsInjective
        <5> QED
          BY Zenon, <5>2, <4>5
      <4>3. CASE i <= Len(c) /\ j > Len(c)
        <5>1. i \in 1 .. Len(c) /\ e[i] = c[i] /\ e[j] = d[l]
          BY SMTT(60), <4>3, <4>5, <1>1, <1>2
        <5> QED
          BY ZenonT(60), <5>1, <4>3, <4>5, <3>1 DEF Apart
      <4>4. CASE i > Len(c) /\ j <= Len(c)
        <5>1. j \in 1 .. Len(c) /\ e[j] = c[j] /\ e[i] = d[k]
          BY <4>4, <4>5, <1>1, <1>2
        <5> QED
          BY Zenon, <5>1, <4>4, <4>5, <3>1 DEF Apart
      <4> QED
        BY <4>1, <4>2, <4>3, <4>4, <1>1
    <3>2. DOMAIN e = 1 .. Len(e)
      BY <1>1
    <3> HIDE DEF e
    <3> QED
      BY Zenon, <3>1, <3>2 DEF IsInjective
  <2>7. CASE c = <<>>
    <3>1. Len(c) = 0 /\ e = d
      BY SMTT(60), <2>7, <1>1
    <3>2. h.last[a] = NULL
      BY Zenon, <2>7 DEF IsQueue
    <3>3. g.first[a] = d[1] /\ g.next = h.next
      <4>1. /\ StoreLast(h, a, h.first[b]).first = [h.first EXCEPT ![a] = h.first[b]]
            /\ StoreLast(h, a, h.first[b]).next = h.next
        BY Zenon, <3>2 DEF StoreLast
      <4>2. g.first = [[h.first EXCEPT ![a] = h.first[b]] EXCEPT ![b] = NULL] /\ g.next = h.next
        BY ONLY SMTT(60), <2>3, <4>1 DEF sq_init
      <4>3. h.first \in [Queue -> Link]
        BY Zenon DEF Heap
      <4>4. g.first[a] = h.first[b]
        BY ONLY SMTT(60), a \in Queue, b \in Queue, a # b, <4>2, <4>3
      <4> QED
        BY Zenon, <2>2, <4>2, <4>4
    <3>4. \A i \in 1 .. Len(d) - 1 : g.next[d[i]] = d[i + 1]
      BY Zenon, <3>3, <1>5 DEF IsQueue
    <3> HIDE DEF g, e
    <3>5. IsQueue(g, a, e)
      BY Zenon, <1>1, <1>5, <2>2, <2>4, <2>6, <3>1, <3>3, <3>4 DEF IsQueue
    <3> QED
      BY Zenon, <3>5, <2>5 DEF g, e
  <2>8. CASE c # <<>>
    <3>1. /\ Len(c) \in 1 .. Len(c) /\ 1 \in 1 .. Len(c) /\ c[Len(c)] \in Elem
          /\ h.last[a] = c[Len(c)] /\ h.first[a] = c[1] /\ e[1] = c[1]
      <4>1. Len(c) \in 1 .. Len(c) /\ 1 \in 1 .. Len(c)
        BY SMTT(60), <2>8, <1>1
      <4> QED
        BY Zenon, <2>8, <4>1, <1>2 DEF IsQueue
    <3>2. /\ g.first[a] = e[1]
          /\ g.next = [h.next EXCEPT ![c[Len(c)]] = d[1]]
      <4>1. /\ StoreLast(h, a, h.first[b]).first = h.first
            /\ StoreLast(h, a, h.first[b]).next = [h.next EXCEPT ![c[Len(c)]] = d[1]]
        BY Zenon, <3>1, <2>2, NullAssumption DEF StoreLast
      <4>2. /\ g.first = [h.first EXCEPT ![b] = NULL]
            /\ g.next = [h.next EXCEPT ![c[Len(c)]] = d[1]]
        BY ONLY SMTT(60), <2>3, <4>1 DEF sq_init
      <4>3. h.first \in [Queue -> Link]
        BY Zenon DEF Heap
      <4>4. g.first[a] = h.first[a]
        BY ONLY ZenonT(60), a \in Queue, b \in Queue, a # b, <4>2, <4>3
      <4> QED
        BY Zenon, <3>1, <4>2, <4>4
    <3>3. g.next[e[Len(e)]] = NULL
      <4>1. Len(d) \in 1 .. Len(d)
        BY ONLY SMTT(60), <2>1
      <4>2. c[Len(c)] # d[Len(d)]
        BY Zenon, <4>1, <3>1 DEF Apart
      <4> QED
        BY Zenon, <4>2, <3>2, <2>1, <2>2 DEF Heap
    <3>4. ASSUME NEW i \in 1 .. Len(e) - 1 PROVE g.next[e[i]] = e[i + 1]
      <4> HIDE DEF g, e
      <4>1. CASE i < Len(c)
        <5>1. /\ i \in 1 .. Len(c) - 1 /\ i \in 1 .. Len(c)
              /\ i + 1 \in 1 .. Len(c) /\ i # Len(c)
          BY <4>1, <1>1
        <5>2. c[i] # c[Len(c)]
          <6>1. IsInjective(c) /\ c \in Seq(Elem)
            BY Zenon DEF IsQueue
          <6> QED
            BY ONLY SMTT(60), <5>1, <6>1 DEF IsInjective
        <5>3. h.next[c[i]] = c[i + 1]
          BY Zenon, <5>1, <2>8 DEF IsQueue
        <5> QED
          BY SMTT(60), <5>1, <5>2, <5>3, <3>2, <1>2 DEF Heap
      <4>2. CASE i = Len(c)
        <5>1. i \in 1 .. Len(c) /\ 1 \in 1 .. Len(d)
          BY SMTT(60), <4>2, <3>1, <2>1
        <5>2. e[i] = c[Len(c)] /\ e[i + 1] = d[1]
          BY Zenon, <5>1, <4>2, <1>2
        <5> QED
          BY Zenon, <5>2, <3>1, <3>2 DEF Heap
      <4>3. CASE i > Len(c)
        <5> DEFINE k == i - Len(c)
        <5>1. /\ k \in 1 .. Len(d) - 1 /\ k \in 1 .. Len(d) /\ k + 1 \in 1 .. Len(d)
              /\ Len(c) + k = i /\ Len(c) + (k + 1) = i + 1
          BY <4>3, <1>1
        <5> HIDE DEF k
        <5>2. e[i] = d[k] /\ e[i + 1] = d[k + 1] /\ d[k] \in Elem
          BY Zenon, <5>1, <1>2
        <5>3. h.next[d[k]] = d[k + 1]
          BY Zenon, <5>1, <1>5 DEF IsQueue
        <5>4. d[k] # c[Len(c)]
          BY ZenonT(60), <5>1, <3>1 DEF Apart
        <5> QED
          BY <5>2, <5>3, <5>4, <3>1, <3>2 DEF Heap
      <4> QED
        BY <4>1, <4>2, <4>3, <1>1
    <3> HIDE DEF g, e
    <3>5. IsQueue(g, a, e)
      BY Zenon, <1>1, <2>1, <2>4, <2>6, <3>2, <3>3, <3>4 DEF IsQueue
    <3> QED
      BY Zenon, <3>5, <2>5 DEF g, e
  <2> QED
    BY Zenon, <2>7, <2>8
<1> QED
  BY Zenon, <1>4, <1>5

-----------------------------------------------------------------------------
\* A queue holds what it held if its head and its elements' links are untouched.
LEMMA Untouched ==
  ASSUME NEW h, NEW g, NEW p, NEW e, IsQueue(h, p, e),
         g.first[p] = h.first[p], g.last[p] = h.last[p], g.len[p] = h.len[p],
         \A i \in 1 .. Len(e) : g.next[e[i]] = h.next[e[i]]
  PROVE  IsQueue(g, p, e)
<1>1. CASE e = <<>>
  BY Zenon, <1>1 DEF IsQueue
<1>2. CASE e # <<>>
  <2>1. e \in Seq(Elem) /\ Len(e) \in 1 .. Len(e)
    BY <1>2 DEF IsQueue
  <2>2. g.next[e[Len(e)]] = NULL
    BY Zenon, <2>1, <1>2 DEF IsQueue
  <2>3. ASSUME NEW i \in 1 .. Len(e) - 1 PROVE g.next[e[i]] = e[i + 1]
    <3>1. i \in 1 .. Len(e)
      BY <2>1
    <3> QED
      BY Zenon, <3>1, <1>2 DEF IsQueue
  <2> QED
    BY Zenon, <1>2, <2>2, <2>3 DEF IsQueue
<1> QED
  BY Zenon, <1>1, <1>2

\* The operations on a queue, or on two, leave the elements of every other queue
\* where they are, as long as no element is in two queues: the condition that
\* warpcore's callers keep (run "flights", QueuesSound).
THEOREM OthersKept ==
  ASSUME NEW h, Heap(h), NEW q \in Queue, NEW c, IsQueue(h, q, c),
         NEW p \in Queue, p # q, NEW e, IsQueue(h, p, e), Apart(c, e)
  PROVE  /\ \A v \in Elem : (\A i \in 1 .. Len(e) : e[i] # v) =>
               /\ IsQueue(sq_insert_tail(h, q, v), p, e)
               /\ IsQueue(sq_insert_head(h, q, v), p, e)
         /\ c # <<>> => IsQueue(sq_remove_head(h, q), p, e)
         /\ \A b \in Queue \ {p} : IsQueue(sq_concat(h, q, b), p, e)
<1>1. ASSUME NEW i \in 1 .. Len(e)
      PROVE  e[i] \in Elem /\ (c # <<>> => h.last[q] # e[i] /\ h.last[q] \in Elem)
  <2>1. e[i] \in Elem
    BY SMTT(60) DEF IsQueue
  <2>2. ASSUME c # <<>> PROVE h.last[q] # e[i] /\ h.last[q] \in Elem
    <3>1. c \in Seq(Elem) /\ h.last[q] = c[Len(c)]
      BY Zenon, <2>2 DEF IsQueue
    <3>2. Len(c) \in 1 .. Len(c) /\ c[Len(c)] \in Elem
      BY ONLY SMTT(60), <3>1, c # <<>>
    <3> QED
      BY Zenon, <3>1, <3>2 DEF Apart
  <2> QED
    BY Zenon, <2>1, <2>2
<1>2. c = <<>> => h.last[q] = NULL
  BY Zenon DEF IsQueue
<1>3. ASSUME NEW v \in Elem
      PROVE  LET s == StoreLast(h, q, v)
             IN  /\ s.first[p] = h.first[p]
                 /\ s.next \in [Elem -> Link]
                 /\ \A i \in 1 .. Len(e) : s.next[e[i]] = h.next[e[i]]
  <2>1. CASE h.last[q] = NULL
    BY Zenon, <2>1 DEF StoreLast, Heap
  <2>2. CASE h.last[q] # NULL
    <3>1. StoreLast(h, q, v).next = [h.next EXCEPT ![h.last[q]] = v]
      BY Zenon, <2>2 DEF StoreLast
    <3>2. StoreLast(h, q, v).first = h.first
      BY Zenon, <2>2 DEF StoreLast
    <3>3. c # <<>>
      BY Zenon, <2>2, <1>2
    <3>4. \A i \in 1 .. Len(e) : [h.next EXCEPT ![h.last[q]] = v][e[i]] = h.next[e[i]]
      BY Zenon, <3>3, <1>1 DEF Heap
    <3>5. [h.next EXCEPT ![h.last[q]] = v] \in [Elem -> Link]
      BY Zenon DEF Heap, Link
    <3> QED
      BY ONLY SMTT(60), <3>1, <3>2, <3>4, <3>5
  <2> QED
    BY Zenon, <2>1, <2>2
<1>4. ASSUME NEW v \in Elem, \A i \in 1 .. Len(e) : e[i] # v
      PROVE  /\ IsQueue(sq_insert_tail(h, q, v), p, e)
             /\ IsQueue(sq_insert_head(h, q, v), p, e)
  <2> DEFINE t == sq_insert_tail(h, q, v)
             s == StoreLast(h, q, v)
             g == sq_insert_head(h, q, v)
  <2>1. /\ t.first = s.first /\ t.last[p] = h.last[p] /\ t.len[p] = h.len[p]
        /\ t.next = [s.next EXCEPT ![v] = NULL]
    BY Zenon DEF sq_insert_tail, Heap
  <2>2. \A i \in 1 .. Len(e) : t.next[e[i]] = h.next[e[i]]
    <3>1. /\ s.next \in [Elem -> Link]
          /\ \A i \in 1 .. Len(e) : s.next[e[i]] = h.next[e[i]]
      BY Zenon, <1>3
    <3> HIDE DEF s, t
    <3> QED
      BY Zenon, <3>1, <2>1, <1>1, <1>4
  <2>3. /\ g.first[p] = h.first[p] /\ g.last[p] = h.last[p] /\ g.len[p] = h.len[p]
        /\ \A i \in 1 .. Len(e) : g.next[e[i]] = h.next[e[i]]
    BY Zenon, <1>1, <1>4 DEF sq_insert_head, Heap
  <2>4. t.first[p] = h.first[p]
    BY ZenonT(60), <2>1, <1>3
  <2> HIDE DEF t, s, g
  <2>5. IsQueue(t, p, e) /\ IsQueue(g, p, e)
    BY Zenon, <2>1, <2>2, <2>3, <2>4, Untouched
  <2> QED
    BY Zenon, <2>5 DEF t, g
<1>5. IsQueue(sq_remove_head(h, q), p, e)
  <2> DEFINE g == sq_remove_head(h, q)
  <2>1. /\ g.first[p] = h.first[p] /\ g.last[p] = h.last[p] /\ g.len[p] = h.len[p]
        /\ g.next = h.next
    BY Zenon DEF sq_remove_head, Heap
  <2> HIDE DEF g
  <2>2. IsQueue(g, p, e)
    BY Zenon, <2>1, Untouched
  <2> QED
    BY Zenon, <2>2 DEF g
<1>6. ASSUME NEW b \in Queue \ {p} PROVE IsQueue(sq_concat(h, q, b), p, e)
  <2>1. CASE sq_empty(h, b)
    BY Zenon, <2>1 DEF sq_concat
  <2>2. CASE ~sq_empty(h, b)
    <3> DEFINE f == h.first[b]
               s == StoreLast(h, q, f)
               g == sq_concat(h, q, b)
    <3>1. f \in Elem
      BY Zenon, <2>2 DEF sq_empty, Heap, Link
    <3>2. g = sq_init([first |-> s.first,
                       last  |-> [h.last EXCEPT ![q] = h.last[b]],
                       len   |-> [h.len EXCEPT ![q] = @ + h.len[b]],
                       next  |-> s.next], b)
      BY Zenon, <2>2 DEF sq_concat
    <3>3. /\ s.first[p] = h.first[p]
          /\ \A i \in 1 .. Len(e) : s.next[e[i]] = h.next[e[i]]
      BY Zenon, <3>1, <1>3
    <3>4. s.first \in [Queue -> Link]
      BY Zenon, <3>1 DEF StoreLast, Heap, Link
    <3> HIDE DEF s, g
    <3>5. /\ g.first[p] = h.first[p] /\ g.last[p] = h.last[p]
          /\ g.len[p] = h.len[p] /\ g.next = s.next
      BY Zenon, <3>2, <3>3, <3>4 DEF sq_init, Heap
    <3>6. IsQueue(g, p, e)
      BY ONLY SMTT(60), <3>3, <3>5, IsQueue(h, p, e), Untouched
    <3> QED
      BY Zenon, <3>6 DEF g
  <2> QED
    BY Zenon, <2>1, <2>2
<1> QED
  BY Zenon, <1>4, <1>5, <1>6

-----------------------------------------------------------------------------
(* What csum_oc16_reduce() guarantees for every 32-bit sum: its loop ends, *)
(* a receiver accepts the checksum that a sender computes, and which       *)
(* changes of a packet go unnoticed.                                       *)

\* The values of a uint32_t.
Sum32 == {s \in Nat : s < 4294967296}

\* A round takes the carries q off the top and adds them at the bottom.
LEMMA Carries ==
    ASSUME NEW s \in Nat
    PROVE  \E q \in Nat, r \in Nat :
             r <= 65535 /\ s = 65536 * q + r /\ Round(s) = r + q
<1>1. s \div 65536 \in Int
  BY SMT
<1>2. s \div 65536 >= 0
  BY SMT
<1>3. s % 65536 \in Int
  BY SMT
<1>7. s % 65536 >= 0
  BY SMT
<1>8. s % 65536 < 65536
  BY SMT
<1>4. s = 65536 * (s \div 65536) + (s % 65536)
  BY SMT
<1>5. Round(s) = (s % 65536) + (s \div 65536)
  BY DEF Round, W
<1>6. s \div 65536 \in Nat
  BY <1>1, <1>2
<1>9. s % 65536 \in Nat /\ s % 65536 <= 65535
  BY <1>3, <1>7, <1>8
<1> QED
  BY <1>4, <1>5, <1>6, <1>9

\* A round keeps the sum modulo 65535, and makes no sum zero.
LEMMA RoundKeeps ==
    ASSUME NEW s \in Nat
    PROVE  /\ Round(s) \in Nat
           /\ \E k \in Nat : s = Round(s) + 65535 * k
           /\ s > 0 => Round(s) > 0
           /\ s <= 65535 => Round(s) = s
           /\ s <= 131070 => Round(s) <= 65535
           /\ s < 4294967296 => Round(s) <= 131070
<1>1. PICK q \in Nat, r \in Nat :
        r <= 65535 /\ s = 65536 * q + r /\ Round(s) = r + q
  BY Carries
<1> DEFINE t == Round(s)
<1>2. t = r + q
  BY <1>1
<1> HIDE DEF t
<1>3. t \in Nat /\ s = t + 65535 * q /\ (s > 0 => t > 0)
  BY <1>1, <1>2
<1>4. (s <= 65535 => t = s) /\ (s <= 131070 => t <= 65535)
  BY <1>1, <1>2
<1>5. s < 4294967296 => t <= 131070
  BY <1>1, <1>2
<1> QED
  BY <1>3, <1>4, <1>5 DEF t

\* What the loop computes: a number below W that is congruent to the sum.
LEMMA FoldedKeeps ==
    ASSUME NEW s \in Sum32
    PROVE  /\ Folded(s) \in Nat /\ Folded(s) <= 65535
           /\ Round(Folded(s)) = Folded(s)
           /\ \E k \in Nat : s = Folded(s) + 65535 * k
           /\ s > 0 => Folded(s) > 0
<1>1. s \in Nat /\ s < 4294967296
  BY DEF Sum32
<1> DEFINE a == Round(s)
           b == Round(a)
<1>2. /\ a \in Nat /\ a <= 131070 /\ (s > 0 => a > 0)
      /\ \E k \in Nat : s = a + 65535 * k
  BY <1>1, RoundKeeps
<1> HIDE DEF a
<1>3. /\ b \in Nat /\ b <= 65535 /\ (a > 0 => b > 0)
      /\ \E k \in Nat : a = b + 65535 * k
  <2>1. a \in Nat /\ a <= 131070
    BY <1>2
  <2> QED
    BY <2>1, RoundKeeps
<1> HIDE DEF b
<1>4. Round(b) = b
  BY <1>3, RoundKeeps
<1>5. \E k \in Nat : s = b + 65535 * k
  <2>1. PICK k1 \in Nat : s = a + 65535 * k1
    BY <1>2
  <2>2. PICK k2 \in Nat : a = b + 65535 * k2
    BY <1>3
  <2> DEFINE kk == k1 + k2
  <2>3. kk \in Nat /\ s = b + 65535 * kk
    BY <1>2, <1>3, <2>1, <2>2
  <2> HIDE DEF kk
  <2> QED
    BY <2>3
<1>6. Folded(s) = b
  BY DEF Folded, a, b
<1> QED
  BY <1>2, <1>3, <1>4, <1>5, <1>6

\* csum_oc16_reduce() has a 16-bit result for every 32-bit sum, and its loop ends:
\* after two rounds, another one would change nothing.
THEOREM LoopEnds ==
    ASSUME NEW s \in Sum32
    PROVE  /\ csum_oc16_reduce(s) \in Nat /\ csum_oc16_reduce(s) <= 65535
           /\ Round(Folded(s)) = Folded(s)
<1>1. Folded(s) \in Nat /\ Folded(s) <= 65535 /\ Round(Folded(s)) = Folded(s)
  BY FoldedKeeps
<1>2. csum_oc16_reduce(s) = 65535 - Folded(s)
  BY DEF csum_oc16_reduce, W
<1> QED
  BY <1>1, <1>2

\* A sum is accepted exactly if it is a multiple of 65535, and not zero.
LEMMA AcceptedSums ==
    ASSUME NEW s \in Sum32
    PROVE  csum_oc16_reduce(s) = 0 <=> s > 0 /\ \E k \in Nat : s = 65535 * k
<1> DEFINE f == Folded(s)
<1>1. PICK k \in Nat : s = f + 65535 * k
  BY FoldedKeeps
<1>2. f \in Nat /\ f <= 65535 /\ (s > 0 => f > 0) /\ s \in Nat
  BY FoldedKeeps DEF Sum32
<1>3. csum_oc16_reduce(s) = 65535 - f
  BY DEF csum_oc16_reduce, W
<1> HIDE DEF f
<1>4. ASSUME f = 65535 PROVE s > 0 /\ \E j \in Nat : s = 65535 * j
  <2>1. s = 65535 * (k + 1) /\ k + 1 \in Nat /\ s > 0
    BY <1>1, <1>2, <1>4
  <2> QED
    BY <2>1
<1>5. ASSUME s > 0, NEW j \in Nat, s = 65535 * j PROVE f = 65535
  <2>1. f = 65535 * (j - k) /\ f > 0 /\ f <= 65535
    BY <1>1, <1>2, <1>5
  <2> QED
    BY <1>2, <2>1
<1> QED
  BY <1>2, <1>3, <1>4, <1>5

\* What ip_cksum() and payload_cksum() put into a field that was zero makes the
\* receiver's computation over the same words come out as 0: no packet is dropped
\* for its checksum unless it was changed.
THEOREM CksumAccepted ==
    ASSUME NEW s \in Sum32, s + csum_oc16_reduce(s) \in Sum32
    PROVE  csum_oc16_reduce(s + csum_oc16_reduce(s)) = 0
<1> DEFINE c == csum_oc16_reduce(s)
           f == Folded(s)
<1>1. PICK k \in Nat : s = f + 65535 * k
  BY FoldedKeeps
<1>2. f \in Nat /\ c = 65535 - f
  BY FoldedKeeps DEF csum_oc16_reduce, W
<1>3. s + c \in Sum32
  OBVIOUS
<1>4. csum_oc16_reduce(s + c) = 0
        <=> s + c > 0 /\ \E j \in Nat : s + c = 65535 * j
  BY <1>3, AcceptedSums
<1> HIDE DEF c, f
<1> DEFINE kk == k + 1
<1>5. s + c = 65535 * kk /\ s + c > 0 /\ kk \in Nat
  BY <1>1, <1>2
<1> HIDE DEF kk
<1>6. csum_oc16_reduce(s + c) = 0
  BY <1>4, <1>5
<1> QED
  BY <1>6 DEF c

\* A change of an accepted packet, from a sum of s to one of t, goes unnoticed
\* exactly if it is by a multiple of 65535.  That is all there is to say of the UDP
\* length and of the payload length of IPv6, which also decide how much of the
\* packet udp_rx() and icmp6_rx() sum up.
THEOREM CksumMisses ==
    ASSUME NEW s \in Sum32, NEW t \in Sum32, csum_oc16_reduce(s) = 0, t > 0
    PROVE  csum_oc16_reduce(t) = 0 <=> \E d \in Int : s = t + 65535 * d
<1>1. PICK j \in Nat : s = 65535 * j
  BY AcceptedSums
<1>2. csum_oc16_reduce(t) = 0 <=> \E k \in Nat : t = 65535 * k
  BY AcceptedSums
<1>3. ASSUME NEW k \in Nat, t = 65535 * k
      PROVE  \E d \in Int : s = t + 65535 * d
  <2> DEFINE d == j - k
  <2>1. d \in Int /\ s = t + 65535 * d
    BY <1>1, <1>3
  <2> HIDE DEF d
  <2> QED
    BY <2>1
<1>4. ASSUME NEW d \in Int, s = t + 65535 * d
      PROVE  \E k \in Nat : t = 65535 * k
  <2> DEFINE k == j - d
  <2>1. k \in Int /\ t = 65535 * k
    BY <1>1, <1>4 DEF Sum32
  <2> HIDE DEF k
  <2>2. k \in Nat
    BY <2>1
  <2> QED
    BY <2>1, <2>2
<1> QED
  BY <1>2, <1>3, <1>4

\* If a packet is accepted with word x and with word y in the same place, and the
\* other words that are summed (of sum s) are the same, then x and y are equal or
\* one is all zeros and the other all ones.  So the check of ip4_rx() finds every
\* other change of a single word but the first, which has the header length, and
\* those of udp_rx() and icmp6_rx() find every other one but that of a length.
THEOREM CksumDetects ==
    ASSUME NEW s \in Nat, NEW x \in Nat, NEW y \in Nat, x <= 65535, y <= 65535,
           s + x \in Sum32, s + y \in Sum32,
           csum_oc16_reduce(s + x) = 0, csum_oc16_reduce(s + y) = 0
    PROVE  x = y \/ (x = 65535 /\ y = 0) \/ (x = 0 /\ y = 65535)
<1>1. PICK j \in Nat : s + x = 65535 * j
  <2> DEFINE t == s + x
  <2>1. t \in Sum32 /\ csum_oc16_reduce(t) = 0
    OBVIOUS
  <2> HIDE DEF t
  <2>2. \E n \in Nat : t = 65535 * n
    BY <2>1, AcceptedSums
  <2> QED
    BY <2>2 DEF t
<1>2. PICK k \in Nat : s + y = 65535 * k
  <2> DEFINE t == s + y
  <2>1. t \in Sum32 /\ csum_oc16_reduce(t) = 0
    OBVIOUS
  <2> HIDE DEF t
  <2>2. \E n \in Nat : t = 65535 * n
    BY <2>1, AcceptedSums
  <2> QED
    BY <2>2 DEF t
<1> DEFINE d == j - k
<1>3. d \in Int /\ x - y = 65535 * d
  BY <1>1, <1>2
<1> HIDE DEF d
<1> QED
  BY <1>3

-----------------------------------------------------------------------------
(* What the hash tables of sockets and neighbors need of the functions in  *)
(* SockAddr, for all addresses, ports and hash functions.                  *)

\* Addresses that w_addr_cmp() takes for equal have the same hash, whatever is
\* behind an IPv4 address: the table of neighbors finds what it stored.
THEOREM AddrHashRespectsCmp ==
    ASSUME NEW a \in w_addr, NEW b \in w_addr, w_addr_cmp(a, b)
    PROVE  w_addr_hash(a) = w_addr_hash(b)
  BY SMTT(60) DEF w_addr_cmp, w_addr_hash, ip6_eql

\* The same of four-tuples: a socket bound to an address that was copied from
\* w->ifaddr is found by the tuple udp_rx() builds from a packet.
THEOREM TupleHashRespectsCmp ==
    ASSUME NEW t \in w_socktuple, NEW u \in w_socktuple, w_socktuple_cmp(t, u)
    PROVE  w_socktuple_hash(t) = w_socktuple_hash(u)
<1>1. /\ t.local.addr \in w_addr /\ u.local.addr \in w_addr
      /\ t.remote.addr \in w_addr /\ u.remote.addr \in w_addr
  BY DEF w_socktuple, w_sockaddr
<1>2. w_addr_cmp(t.local.addr, u.local.addr) /\ w_addr_cmp(t.remote.addr, u.remote.addr)
  BY SMTT(60) DEF w_socktuple_cmp, w_sockaddr_cmp
<1>3. /\ w_addr_hash(t.local.addr) = w_addr_hash(u.local.addr)
      /\ w_addr_hash(t.remote.addr) = w_addr_hash(u.remote.addr)
  BY SMTT(60), <1>1, <1>2, AddrHashRespectsCmp
<1>4. t.local.port = u.local.port /\ t.remote.addr.af = u.remote.addr.af
  BY <1>2 DEF w_socktuple_cmp, w_sockaddr_cmp, w_addr_cmp
<1> QED
  BY <1>3, <1>4 DEF w_socktuple_hash

\* w_socktuple_cmp() is an equivalence, so that the table of sockets is a map from
\* its classes; it does not tell scope IDs apart.
THEOREM TupleCmpEquivalence ==
    ASSUME NEW t \in w_socktuple, NEW u \in w_socktuple, NEW v \in w_socktuple
    PROVE  /\ w_socktuple_cmp(t, t)
           /\ w_socktuple_cmp(t, u) => w_socktuple_cmp(u, t)
           /\ w_socktuple_cmp(t, u) /\ w_socktuple_cmp(u, v) => w_socktuple_cmp(t, v)
           /\ \A x \in Scope : w_socktuple_cmp(t, [t EXCEPT !.scope_id = x])
<1>1. ASSUME NEW a \in w_addr, NEW b \in w_addr, NEW c \in w_addr
      PROVE  /\ w_addr_cmp(a, a)
             /\ w_addr_cmp(a, b) => w_addr_cmp(b, a)
             /\ w_addr_cmp(a, b) /\ w_addr_cmp(b, c) => w_addr_cmp(a, c)
  BY DEF w_addr_cmp, ip6_eql
<1>2. ASSUME NEW a \in w_sockaddr, NEW b \in w_sockaddr, NEW c \in w_sockaddr
      PROVE  /\ w_sockaddr_cmp(a, a)
             /\ w_sockaddr_cmp(a, b) => w_sockaddr_cmp(b, a)
             /\ w_sockaddr_cmp(a, b) /\ w_sockaddr_cmp(b, c) => w_sockaddr_cmp(a, c)
  <2>1. a.addr \in w_addr /\ b.addr \in w_addr /\ c.addr \in w_addr
    BY DEF w_sockaddr
  <2> QED
    BY <1>1, <2>1 DEF w_sockaddr_cmp
<1>3. \A x \in {t, u, v} : x.local \in w_sockaddr /\ x.remote \in w_sockaddr
  BY DEF w_socktuple
<1>4. \A x \in Scope : /\ [t EXCEPT !.scope_id = x].local = t.local
                       /\ [t EXCEPT !.scope_id = x].remote = t.remote
  BY DEF w_socktuple
<1> QED
  BY SMTT(60), <1>2, <1>3, <1>4 DEF w_socktuple_cmp

\* Sockets that differ in nothing but the port of their peer always collide.
THEOREM PeerPortNotHashed ==
    ASSUME NEW t \in w_socktuple, NEW p \in Port
    PROVE  w_socktuple_hash([t EXCEPT !.remote.port = p]) = w_socktuple_hash(t)
<1>1. /\ [t EXCEPT !.remote.port = p].local = t.local
      /\ [t EXCEPT !.remote.port = p].remote.addr = t.remote.addr
  BY SMTT(60) DEF w_socktuple, w_sockaddr
<1> QED
  BY <1>1 DEF w_socktuple_hash

\* The address and port that to_sockaddr() stores are those that w_to_waddr() and
\* sa_port() read back, for both families and whatever the two structs held before.
THEOREM SockaddrRoundTrip ==
    ASSUME NEW a \in w_addr, NEW wa \in w_addr, NEW sa \in sockaddr,
           NEW port \in Port, NEW scope \in Scope,
           a.af # AF_UNSPEC, AF_INET # AF_INET6
    PROVE  LET out == to_sockaddr(sa, a, port, scope)
           IN  /\ w_to_waddr_ok(out) /\ sa_port(out) = port
               /\ w_addr_cmp(w_to_waddr(wa, out), a)
               /\ a.af = AF_INET6 => out.scope_id = scope
<1>1. CASE a.af = AF_INET
  <2>1. /\ to_sockaddr(sa, a, port, scope).family = AF_INET
        /\ to_sockaddr(sa, a, port, scope).port = port
        /\ to_sockaddr(sa, a, port, scope).four = a.ip4
    BY <1>1 DEF to_sockaddr, sockaddr
  <2> QED
    BY Zenon, <1>1, <2>1 DEF w_to_waddr_ok, w_to_waddr, sa_port, w_addr_cmp, w_addr
<1>2. CASE a.af = AF_INET6
  BY <1>2 DEF to_sockaddr, w_to_waddr_ok, w_to_waddr, sa_port, w_addr_cmp, ip6_eql
<1> QED
  BY <1>1, <1>2 DEF w_addr

-----------------------------------------------------------------------------
(* Random numbers below a bound.                                           *)

\* The division behind min: what is left of the words is a multiple of the bound.
LEMMA MinQuotient ==
    ASSUME NEW max \in Nat, NEW ub \in 2 .. max
    PROVE  \E q \in Nat : max = (q + 1) * ub + RandMin(max, ub)
                          /\ RandMin(max, ub) \in 0 .. ub - 1
<1>1. PICK x \in Nat : x = max - ub
  OBVIOUS
<1>2. PICK q \in Nat, m \in 0 .. ub - 1 : x = ub * q + m /\ m = x % ub
  <2>1. x \div ub \in Nat /\ x % ub \in 0 .. ub - 1 /\ x = ub * (x \div ub) + (x % ub)
    OBVIOUS
  <2> QED
    BY Zenon, <2>1
<1>3. ub * q \in Nat /\ (q + 1) * ub = ub * q + ub
  OBVIOUS
<1>4. max = (q + 1) * ub + m
  BY <1>1, <1>2, <1>3
<1>5. m = RandMin(max, ub)
  BY Zenon, <1>1, <1>2 DEF RandMin
<1> QED
  BY Zenon, <1>2, <1>4, <1>5

\* "each retry has p > 0.5": fewer than half of the words are drawn again, whatever
\* the bound is, so the loop ends with probability one.
THEOREM RetryLikely ==
    ASSUME NEW max \in Nat, NEW ub \in 2 .. max
    PROVE  2 * RandMin(max, ub) < max
<1>1. PICK q \in Nat : max = (q + 1) * ub + RandMin(max, ub)
                       /\ RandMin(max, ub) \in 0 .. ub - 1
  BY Zenon, MinQuotient
<1>2. q * ub >= 0 /\ (q + 1) * ub = q * ub + ub
  OBVIOUS
<1> QED
  BY <1>1, <1>2

\* The result is not quite "uniformly distributed", for any bound: min is computed
\* from UINT32_MAX instead of 2**32, as the comment next to it has it, and the
\* number of words that are accepted is one more than a multiple of the bound.
THEOREM OneWordTooMany ==
    ASSUME NEW max \in Nat, NEW ub \in 2 .. max
    PROVE  \E q \in Nat : max + 1 - RandMin(max, ub) = q * ub + 1
<1>1. PICK q \in Nat : max = (q + 1) * ub + RandMin(max, ub)
                       /\ RandMin(max, ub) \in 0 .. ub - 1
  BY Zenon, MinQuotient
<1>2. q + 1 \in Nat /\ max + 1 - RandMin(max, ub) = (q + 1) * ub + 1
  BY <1>1
<1> QED
  BY Zenon, <1>2

\* Every number below the bound is returned for some word, and no other is.
THEOREM RangeExact ==
    ASSUME NEW max \in Nat, NEW ub \in 2 .. max
    PROVE  w_rand_uniform(max, ub) = 0 .. ub - 1
<1>1. PICK q \in Nat : max = (q + 1) * ub + RandMin(max, ub)
                       /\ RandMin(max, ub) \in 0 .. ub - 1
  BY Zenon, MinQuotient
<1>2. q * ub >= 0 /\ (q + 1) * ub = q * ub + ub
  OBVIOUS
<1>3. RandMin(max, ub) + ub <= max
  BY <1>1, <1>2
<1>4. ASSUME NEW x \in 0 .. ub - 1
      PROVE  \E r \in Accepted(max, ub) : Returned(ub, r) = x
  <2>1. CASE x >= RandMin(max, ub)
    <3>1. x \in Accepted(max, ub) /\ x % ub = x
      BY <1>1, <1>3, <2>1 DEF Accepted
    <3> QED
      BY <3>1 DEF Returned
  <2>2. CASE x < RandMin(max, ub)
    <3>1. x + ub \in Accepted(max, ub)
      BY <1>1, <1>3, <2>2 DEF Accepted
    <3>2. (x + ub) % ub = x
      OBVIOUS
    <3> QED
      BY <3>1, <3>2 DEF Returned
  <2> QED
    BY <1>1, <2>1, <2>2
<1>5. ASSUME NEW r \in Accepted(max, ub)
      PROVE  Returned(ub, r) \in 0 .. ub - 1
  BY DEF Accepted, Returned
<1>6. w_rand_uniform(max, ub) = {Returned(ub, r) : r \in Accepted(max, ub)}
  BY DEF w_rand_uniform
<1> QED
  BY <1>4, <1>5, <1>6, Zenon

\* pick_local_port() returns any port from 1024 to 65534, "a random port >= 1024"
\* that never is the zero of an unbound socket.
THEOREM PortsUsable ==
    ASSUME NEW max \in Nat, NEW low \in Nat, NEW top \in Nat,
           low + 2 <= top, top <= max
    PROVE  pick_local_port(max, low, top) = low .. top - 1
<1>1. top - low \in 2 .. max
  OBVIOUS
<1>2. w_rand_uniform(max, top - low) = 0 .. (top - low) - 1
  BY <1>1, RangeExact
<1>3. ASSUME NEW p \in low .. top - 1
      PROVE  p \in {low + x : x \in 0 .. (top - low) - 1}
  <2>1. p - low \in 0 .. (top - low) - 1 /\ p = low + (p - low)
    OBVIOUS
  <2> QED
    BY <2>1
<1>4. ASSUME NEW x \in 0 .. (top - low) - 1
      PROVE  low + x \in low .. top - 1
  BY SMTT(60)
<1> QED
  BY Zenon, <1>2, <1>3, <1>4 DEF pick_local_port
=============================================================================
