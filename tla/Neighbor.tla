------------------------------ MODULE Neighbor ------------------------------
(***************************************************************************)
(* Address resolution between warpcore engines on the netmap backend: the  *)
(* neighbor cache, who_has() with its ARP requests or neighbor             *)
(* solicitations, and the two places that remember a MAC address outside   *)
(* the cache, s->dmac of a connected socket and last_mac in mk_eth_hdr().  *)
(*                                                                         *)
(* The network loses, duplicates and reorders frames, engines look up each *)
(* other at the same time, and a host may come back with another MAC       *)
(* address.  Every engine has one socket, and an IP address named like the *)
(* engine itself.                                                          *)
(***************************************************************************)
EXTENDS Integers, FiniteSets

CONSTANTS
    Node,       \* engines
    Client,     \* those whose application sends; the others only answer
    Mac,        \* MAC addresses
    MacOf,      \* the engine each MAC address belongs to
    FirstMac,   \* the MAC address each engine starts with
    Bcast,      \* ETH_ADDR_BCAST, also "unknown"
    None,       \* no engine
    V6,         \* neighbor discovery rather than ARP
    MaxNet      \* bound on the frames under way

ASSUME ConstAssumption ==
    /\ Client \subseteq Node
    /\ MacOf \in [Mac -> Node] /\ FirstMac \in [Node -> Mac]
    /\ \A n \in Node : MacOf[FirstMac[n]] = n
    /\ Bcast \notin Mac /\ None \notin Node
    /\ V6 \in BOOLEAN /\ MaxNet \in Nat

\* A request or solicitation is broadcast; a reply or advertisement goes to dst.
Frame == [op : {"request", "reply"}, spa : Node, sha : Mac, tpa : Node,
          dst : Mac \cup {Bcast}]

VARIABLES
    mac,        \* w->mac
    net,        \* external: frames under way
    cache,      \* b->neighbor
    who,        \* who_has(): where it is, its addr, and who called it
    last,       \* last_addr and last_mac of mk_eth_hdr()
    peer,       \* the remote address of the engine's socket, if connected
    dmac,       \* s->dmac of that socket
    sent        \* history: address and MAC address of the last UDP frame sent

vars == <<mac, net, cache, who, last, peer, dmac, sent>>

NoWho == [at |-> "off", addr |-> None, from |-> "none"]

-----------------------------------------------------------------------------
(* The network.                                                            *)

\* A frame that is sent is lost (or was not sent for want of a w_iov), or it is
\* under way until it is received.
Sent(old, f) == {old} \cup (IF Cardinality(old) < MaxNet THEN {old \cup {f}} ELSE {})

\* A frame that is received may be received again.
Received(f) == {net, net \ {f}}

\* The host n comes back with another MAC address (a restart clears its state).
NewMac(n, x) ==
    /\ MacOf[x] = n /\ x # mac[n]
    /\ mac' = [mac EXCEPT ![n] = x]
    /\ cache' = [cache EXCEPT ![n] = [m \in Node |-> Bcast]]
    /\ who' = [who EXCEPT ![n] = NoWho]
    /\ last' = [last EXCEPT ![n] = [addr |-> None, mac |-> Bcast]]
    /\ peer' = [peer EXCEPT ![n] = None] /\ dmac' = [dmac EXCEPT ![n] = Bcast]
    /\ sent' = [sent EXCEPT ![n] = [addr |-> None, mac |-> Bcast]]
    /\ UNCHANGED net

-----------------------------------------------------------------------------
(* Looking up.                                                             *)

\* backend_connect() calls who_has().
Connect(n, m) ==
    /\ who[n] = NoWho /\ peer[n] = None
    /\ who' = [who EXCEPT ![n] = [at |-> "find", addr |-> m, from |-> "connect"]]
    /\ UNCHANGED <<mac, net, cache, last, peer, dmac, sent>>

\* udp_tx() on a connected socket.
TxConnected(n) ==
    /\ who[n] = NoWho /\ peer[n] # None
    /\ sent' = [sent EXCEPT ![n] = [addr |-> peer[n], mac |-> dmac[n]]]
    /\ UNCHANGED <<mac, net, cache, who, last, peer, dmac>>

\* udp_tx() to m on an unconnected socket: mk_eth_hdr() remembers one address,
\* and stores it before it has the MAC address.
TxUnconnected(n, m) ==
    /\ who[n] = NoWho /\ peer[n] = None
    /\ IF last[n].addr = m
         THEN /\ sent' = [sent EXCEPT ![n] = last[n]]
              /\ UNCHANGED <<who, last>>
         ELSE /\ last' = [last EXCEPT ![n] = [addr |-> m, mac |-> last[n].mac]]
              /\ who' = [who EXCEPT ![n] = [at |-> "find", addr |-> m,
                                            from |-> "mk_eth_hdr"]]
              /\ UNCHANGED sent
    /\ UNCHANGED <<mac, net, cache, peer, dmac>>

\* neighbor_find() has an entry.
Known(n) == cache[n][who[n].addr] # Bcast

\* Mutant: last_mac is not set, and stays next to the new last_addr.
LastKept(n, x) == last[n]

\* mk_eth_hdr() sets last_mac to what who_has() returns.
LastSet(n, x) == [addr |-> last[n].addr, mac |-> x]

\* who_has() returns to its caller.
WhoHasReturn(n) ==
    LET m == who[n].addr
        x == cache[n][m]
    IN  /\ who[n].at = "find" /\ Known(n)
        /\ who' = [who EXCEPT ![n] = NoWho]
        /\ IF who[n].from = "connect"
             THEN /\ peer' = [peer EXCEPT ![n] = m] /\ dmac' = [dmac EXCEPT ![n] = x]
                  /\ UNCHANGED <<last, sent>>
             ELSE /\ last' = [last EXCEPT ![n] = LastSet(n, x)]
                  /\ sent' = [sent EXCEPT ![n] = [addr |-> m, mac |-> x]]
                  /\ UNCHANGED <<peer, dmac>>
        /\ UNCHANGED <<mac, net, cache>>

\* who_has() of n is at another place of its loop.
At(n, at) == [at |-> at, addr |-> who[n].addr, from |-> who[n].from]

\* The frame that arp_who_has() or icmp6_nsol() sends.
Query(n) == [op |-> "request", spa |-> n, sha |-> mac[n],
             tpa |-> who[n].addr, dst |-> Bcast]

WhoHasQuery(n) ==
    /\ who[n].at = "find" /\ cache[n][who[n].addr] = Bcast
    /\ who' = [who EXCEPT ![n] = At(n, "rx")]
    /\ net' \in Sent(net, Query(n))
    /\ UNCHANGED <<mac, cache, last, peer, dmac, sent>>

\* w_nic_rx() in who_has() times out, or returns after the frames it handled.
WhoHasAgain(n) ==
    /\ who[n].at = "rx"
    /\ who' = [who EXCEPT ![n] = At(n, "find")]
    /\ UNCHANGED <<mac, net, cache, last, peer, dmac, sent>>

-----------------------------------------------------------------------------
(* Receiving, in w_nic_rx() called by the application or by who_has().     *)

\* Mutant: the address asked for is stored instead of the sender's.
UpdateTarget(n, f) == [cache EXCEPT ![n][f.tpa] = f.sha]

\* neighbor_update()
Update(n, f) == [cache EXCEPT ![n][f.spa] = f.sha]

\* What arp_is_at() or icmp6_tx(ICMP6_TYPE_NADV) sends in answer to f.
Reply(n, f) == [op |-> "reply", spa |-> n, sha |-> mac[n], tpa |-> f.spa, dst |-> f.sha]

\* ARP learns from requests for others, too.
Learns(n, f) == f.tpa = n \/ ~V6

\* arp_rx() or icmp6_rx() of a request or solicitation.
RxRequest(n, f) ==
    /\ who[n].at \in {"off", "rx"}
    /\ f \in net /\ f.op = "request" /\ f.spa # n
    /\ \E old \in Received(f) :
         net' \in IF f.tpa = n THEN Sent(old, Reply(n, f)) ELSE {old}
    /\ cache' = IF Learns(n, f) THEN Update(n, f) ELSE cache
    /\ UNCHANGED <<mac, who, last, peer, dmac, sent>>

\* arp_rx() or icmp6_rx() of a reply.
RxReply(n, f) ==
    /\ who[n].at \in {"off", "rx"}
    /\ f \in net /\ f.op = "reply" /\ f.dst = mac[n]
    /\ net' \in Received(f)
    /\ cache' = Update(n, f)
    /\ UNCHANGED <<mac, who, last, peer, dmac, sent>>

-----------------------------------------------------------------------------
Init ==
    /\ mac = FirstMac /\ net = {}
    /\ cache = [n \in Node |-> [m \in Node |-> Bcast]]
    /\ who = [n \in Node |-> NoWho]
    /\ last = [n \in Node |-> [addr |-> None, mac |-> Bcast]]
    /\ peer = [n \in Node |-> None] /\ dmac = [n \in Node |-> Bcast]
    /\ sent = last

NodeStep(n) ==
    \/ n \in Client /\ \E m \in Node \ {n} : Connect(n, m) \/ TxUnconnected(n, m)
    \/ TxConnected(n)
    \/ WhoHasReturn(n) \/ WhoHasQuery(n) \/ WhoHasAgain(n)
    \/ \E f \in net : RxRequest(n, f) \/ RxReply(n, f)

Next ==
    \/ \E n \in Node : NodeStep(n)
    \/ \E n \in Node, x \in Mac : NewMac(n, x)

Spec == Init /\ [][Next]_vars

\* n receives a request sent from MAC address x and answers it.
Answer(n, x) ==
    /\ \E f \in net : f.sha = x /\ RxRequest(n, f)
    /\ \E g \in net' : g.op = "reply" /\ g.spa = n /\ g.dst = x

\* who_has() keeps running, applications keep calling w_nic_rx(), some w_iov is
\* spare now and then, and what is sent again and again arrives now and then.
FairSpec ==
    /\ Spec
    /\ \A n \in Node :
         /\ WF_vars(WhoHasAgain(n)) /\ WF_vars(WhoHasReturn(n))
         /\ WF_vars(WhoHasQuery(n))
         /\ SF_vars(WhoHasQuery(n)
                      /\ \E f \in net' : f.sha = mac[n] /\ f.tpa = who[n].addr)
         /\ \A x \in Mac : SF_vars(Answer(n, x))
         /\ \A m \in Node : SF_vars(\E f \in net : f.spa = m /\ RxReply(n, f))

-----------------------------------------------------------------------------
(* Properties.                                                             *)

TypeOK ==
    /\ mac \in [Node -> Mac] /\ net \subseteq Frame
    /\ cache \in [Node -> [Node -> Mac \cup {Bcast}]]
    /\ who \in [Node -> [at : {"off", "find", "rx"}, addr : Node \cup {None},
                         from : {"none", "connect", "mk_eth_hdr"}]]
    /\ last \in [Node -> [addr : Node \cup {None}, mac : Mac \cup {Bcast}]]
    /\ sent \in [Node -> [addr : Node \cup {None}, mac : Mac \cup {Bcast}]]
    /\ peer \in [Node -> Node \cup {None}] /\ dmac \in [Node -> Mac \cup {Bcast}]

\* A UDP frame for m is sent to a MAC address that m has or had, never to one of
\* another engine and never to all of them, although mk_eth_hdr() stores the new
\* last_addr next to the old last_mac and frames are handled in between.
SentToOwner ==
    \A n \in Node : sent[n].addr # None =>
      sent[n].mac # Bcast /\ MacOf[sent[n].mac] = sent[n].addr

\* who_has() returns although frames are lost, duplicated and reordered, and also
\* if the engines look up each other at the same time.
WhoHasReturns == \A n \in Node : (who[n] # NoWho) ~> (who[n] = NoWho)

\* What arp.c says of arp_rx(), "For incoming ARP replies, updates the information
\* in the w_sock structures of all open connections, as needed": a connected
\* socket uses the MAC address that the cache has for its peer.
ConnectionUpdated ==
    \A n \in Node : peer[n] # None => dmac[n] = cache[n][peer[n]]
=============================================================================
