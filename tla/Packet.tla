------------------------------- MODULE Packet -------------------------------
(***************************************************************************)
(* What packets look like: the headers that udp_tx(), mk_ip4_hdr(),        *)
(* mk_ip6_hdr(), icmp4_tx() and icmp6_tx() write into a netmap buffer over *)
(* whatever an earlier packet left there, and what ip4_rx(), ip6_rx(),     *)
(* udp_rx(), icmp4_rx() and icmp6_rx() make of them.                       *)
(*                                                                         *)
(* Host 1 runs a client with a connected socket.  Host 2 runs an echo      *)
(* server, which has an unconnected socket on each of its addresses and    *)
(* sends a received w_iov back as it is.  Exchanges follow each other; the *)
(* buffers are never cleared.  The network may flip one bit of a frame.    *)
(* Lengths are in bytes, places in a packet are words (see InCksum).       *)
(***************************************************************************)
EXTENDS InCksum, Sequences, Bitwise

CONSTANTS
    Data,       \* payloads, as sequences of bytes
    Tos,        \* values of v->flags that the client sets
    Id,         \* values of w_rand_uniform32(UINT16_MAX)
    Bit,        \* bits of a word that the network may flip
    MaxFull,    \* bound on failed udp_tx() calls in a row
    Budget      \* bound on exchanges and flips together

Host == {1, 2}
Peer(h) == 3 - h
AF == {4, 6}
LastWord == 27
Zeros == [i \in 0 .. LastWord |-> 0]

\* The addresses of each host, IPv4 and IPv6, in network byte order.
Prefix6 == <<33022, 0, 0, 0, 0, 0, 0>>
IfAddr(h, af, n) ==
    IF af = 4 THEN <<43200, 256 * (10 * h + n)>>
              ELSE Append(Prefix6, 256 * (10 * h + n))
AddrNo == {1, 2}

\* is_my_ip4() and is_my_ip6(): backend_addr_config() keeps every IPv6 address of
\* an interface, but one IPv4 address, here number 1.
is_my_ip(h, af, addr) ==
    \E n \in AddrNo : addr = IfAddr(h, af, n) /\ (af = 4 => n = 1)

ClientPort == 16384
ServerPort == 1792
PortOf(h) == IF h = 1 THEN ClientPort ELSE ServerPort

IP_P_ICMP  == 1
IP_P_UDP   == 17
IP_P_ICMP6 == 58
OtherProto == 99

VARIABLES
    opt,        \* socket options, the same at both hosts
    slot,       \* the buffer in the RX ring of each host
    spare,      \* the buffer of the first spare w_iov of each host
    at,         \* "idle", "tx", "wire", "rx", "got" or "dropped"
    host,       \* the host that acts
    v,          \* the w_iov that is being sent, or was received
    frame,      \* the frame on the wire: its words, length and address family
    req,        \* history: what the client, or an external host, asked for
    full,       \* failed udp_tx() calls for v, at most MaxFull
    flipped,    \* history: "no", or the network flipped a bit of a length that
                \* udp_rx() uses ("length"), or another bit of a frame that
                \* carried a checksum ("summed") or none ("bare")
    budget

vars == <<opt, slot, spare, at, host, v, frame, req, full, flipped,
          budget>>

-----------------------------------------------------------------------------
(* Memory.                                                                 *)

\* m with the words ws written from word off on.
Put(m, off, ws) ==
    [i \in DOMAIN m |->
       IF i \in off .. off + Len(ws) - 1 THEN ws[i - off + 1] ELSE m[i]]

\* memcpy() of n bytes from word `from` of src to word `to` of dst.
Copy(dst, to, src, from, n) ==
    [i \in DOMAIN dst |->
       LET k == 2 * (i - to) IN
         CASE k >= 0 /\ k + 1 < n -> src[i - to + from]
           [] k >= 0 /\ k + 1 = n -> Word(Lo(src[i - to + from]), Hi(dst[i]))
           [] OTHER               -> dst[i]]

Bytes(m, off, n) ==
    [k \in 1 .. n |-> IF k % 2 = 1 THEN Lo(m[off + (k \div 2)])
                                   ELSE Hi(m[off + (k \div 2) - 1])]
Words(m, off, n) == [k \in 1 .. n |-> m[off + k - 1]]
FromBytes(bs) ==
    [i \in 0 .. LastWord |->
       Word(IF 2 * i + 1 <= Len(bs) THEN bs[2 * i + 1] ELSE 0,
            IF 2 * i + 2 <= Len(bs) THEN bs[2 * i + 2] ELSE 0)]

Smaller(a, b) == IF a < b THEN a ELSE b

\* Words of the IP header: where its addresses are, and where it ends.
HdrWords(af) == IF af = 4 THEN 10 ELSE 20
Src(m, af) == IF af = 4 THEN Words(m, 6, 2) ELSE Words(m, 4, 8)
Dst(m, af) == IF af = 4 THEN Words(m, 8, 2) ELSE Words(m, 12, 8)
ip4_data_len(m) == (bswap16(m[1]) - ip4_hl(m)) % W

udp_hdr(sport, dport, len, cksum) == <<sport, dport, len, cksum>>

\* Mutant: the identifier and the sequence number trade places.
icmp6_hdr_swapped(type, code, cksum, id, seq) == <<Word(type, code), cksum, seq, id>>

icmp4_hdr(type, code, cksum, id, seq) == <<Word(type, code), cksum, id, seq>>
icmp6_hdr(type, code, cksum, id, seq) == <<Word(type, code), cksum, id, seq>>

-----------------------------------------------------------------------------
(* Output.  A socket s is a record; NoSock stands for the null pointer.    *)

Sock(h, w) ==
    [null |-> FALSE, ecn |-> opt.ecn, connected |-> h = 1,
     laddr |-> IfAddr(1, w.af, 1), raddr |-> IfAddr(2, w.af, req.n)]
NoSock == [null |-> TRUE, ecn |-> FALSE, connected |-> FALSE]

\* Mutant: the checksum is computed over what the field held before.
CksumKept(old) == old

\* ip->cksum = 0, udp->cksum = 0: the value of the field in its own computation.
CksumCleared(old) == 0

\* mk_ip4_hdr(w, s): every field is written, except ip->p without a socket.
mk_ip4_hdr(m, w, s, h, id) ==
    LET tos == IF w.flags % 4 = 0 /\ s.ecn THEN w.flags + 2 ELSE w.flags
        src == IF s.connected THEN s.laddr ELSE IfAddr(h, 4, 1)
        dst == IF s.connected THEN s.raddr ELSE w.addr
        ip  == Put(m, 0, <<Word(69, tos), bswap16(w.len + 20), id, 64,
                           Word(255, IF s.null THEN Hi(m[4]) ELSE IP_P_UDP),
                           CksumCleared(m[5])>> \o src \o dst)
    IN  [ip EXCEPT ![5] = ip_cksum(ip, 0, 20)]

\* Mutant: the traffic class is not written.
vtcecnfl_none(m, w, s) == <<Word(96, Hi(m[0])), m[1]>>

\* mk_ip6_hdr(): byte 0 is set, the flags are ORed into what bytes 0 to 3 hold.
vtcecnfl(m, w, s) ==
    CASE w.flags % 4 # 0 -> <<Word(96 + w.flags \div 16,
                                   Hi(m[0]) | (16 * (w.flags % 16))), m[1]>>
      [] w.flags % 4 = 0 /\ s.ecn -> <<Word(96, Hi(m[0])), m[1] | 32>>
      [] OTHER -> <<Word(96, Hi(m[0])), m[1]>>

mk_ip6_hdr(m, w, s, h) ==
    LET src == IF s.connected THEN s.laddr ELSE IfAddr(h, 6, 1)
        dst == IF s.connected THEN s.raddr ELSE w.addr
    IN  Put(m, 0, vtcecnfl(m, w, s)
                    \o <<bswap16(w.len),
                         Word(IF s.null THEN Lo(m[3]) ELSE IP_P_UDP, 255)>>
                    \o src \o dst)

\* udp_tx(): headers and checksum for w, whose payload is in place.
UdpHdrs(m, w, s, h, id) ==
    LET o   == HdrWords(w.af)
        w8  == [w EXCEPT !.len = (@ + 8) % W]
        ip  == IF w.af = 4 THEN mk_ip4_hdr(m, w8, s, h, id)
                           ELSE mk_ip6_hdr(m, w8, s, h)
        udp == Put(ip, o, udp_hdr(PortOf(h),
                                  IF s.connected THEN ServerPort ELSE w.port,
                                  bswap16(w8.len), CksumCleared(ip[o + 3])))
    IN  IF opt.zero THEN udp
        ELSE [udp EXCEPT ![o + 3] = payload_cksum(udp, w8.len + 2 * o)]

\* icmp4_tx(): the ICMP header goes to ip4_data(v->base), which is where the
\* header length of the packet that was last in the buffer puts it.
icmp4_tx(m, type, code, buf, h, id) ==
    LET o    == ip4_hl(m) \div 2
        hl   == ip4_hl(buf)
        echo == type = 0
        from == IF echo THEN hl \div 2 + 4 ELSE 0
        n    == IF echo THEN bswap16(buf[1]) - hl - 8 ELSE hl + 8
        icmp == Copy(Put(m, o, icmp4_hdr(type, code, CksumCleared(m[o + 1]),
                                         IF echo THEN buf[hl \div 2 + 2] ELSE 0,
                                         IF echo THEN buf[hl \div 2 + 3] ELSE 0)),
                     o + 4, buf, from, n)
        sum  == [icmp EXCEPT ![o + 1] = ip_cksum(icmp, o, 8 + n)]
        w    == [len |-> 8 + n, flags |-> 0, addr |-> Src(buf, 4)]
    IN  mk_ip4_hdr([sum EXCEPT ![4] = Word(Lo(@), IP_P_ICMP)], w, NoSock, h, id)

\* icmp6_tx() of an echo reply, with mk_icmp6_pkt_hdrs().
icmp6_tx(m, buf, h) ==
    LET n    == bswap16(buf[2]) - 8
        icmp == Copy(Put(m, 20, icmp6_hdr(129, 0, m[21], buf[22], buf[23])),
                     24, buf, 24, n)
        w    == [len |-> 8 + n, flags |-> 0, addr |-> Src(buf, 6)]
        ip   == mk_ip6_hdr([icmp EXCEPT ![3] = Word(IP_P_ICMP6, Hi(@))], w,
                           NoSock, h)
        zero == [ip EXCEPT ![21] = CksumCleared(@)]
    IN  [zero EXCEPT ![21] = payload_cksum(zero, 48 + n)]

-----------------------------------------------------------------------------
(* Input.                                                                  *)

\* ip4_rx() passes the packet on to protocol p.
ip4_rx(m, h, p) ==
    /\ ip_v(m) = 4 /\ is_my_ip(h, 4, Dst(m, 4))
    /\ ip_cksum(m, 0, ip4_hl(m)) = 0
    /\ (m[3] & 65311) = 0
    /\ Hi(m[4]) = p

\* ip6_rx() passes the packet on to protocol p.
ip6_rx(m, h, p) ==
    ip_v(m) = 6 /\ is_my_ip(h, 6, Dst(m, 6)) /\ Lo(m[3]) = p

\* eth_rx() of a frame of family af.
EthRx(m, h, af, p) == IF af = 4 THEN ip4_rx(m, h, p) ELSE ip6_rx(m, h, p)

ip6_tos(m) == Hi(m[0]) \div 16 + 16 * (Lo(m[0]) % 16)

\* The w_iov that udp_rx() makes of packet m.  A UDP length below 8 wraps around.
UdpIov(m, af) ==
    LET o    == IF af = 4 THEN ip4_hl(m) \div 2 ELSE 20
        plen == IF af = 4 THEN ip4_data_len(m) ELSE bswap16(m[2])
        ulen == bswap16(m[o + 2])
    IN  [af |-> af, o |-> o, plen |-> plen,
         len |-> (Smaller(ulen, plen) - 8) % W,
         flags |-> IF af = 4 THEN Hi(m[0]) ELSE ip6_tos(m),
         addr |-> Src(m, af), port |-> m[o]]

\* Mutant: a packet with a wrong checksum is accepted.
UdpValidAny(m, i) == i.plen >= 8

\* udp_rx()'s checks before the socket lookup.
UdpValid(m, i) ==
    /\ i.plen >= 8
    /\ m[i.o + 3] # 0 => payload_cksum(m, ((i.len + 8) % W) + 2 * i.o) = 0

\* w_get_sock(): the client is connected, the server bound to each address.
UdpForUs(m, i, h) ==
    /\ m[i.o + 1] = PortOf(h)
    /\ h = 1 => /\ Dst(m, i.af) = IfAddr(1, i.af, 1)
               /\ i.addr = IfAddr(2, i.af, req.n) /\ i.port = ServerPort

UdpAccepts(m, h, af) ==
    /\ EthRx(m, h, af, IP_P_UDP)
    /\ LET i == UdpIov(m, af) IN UdpValid(m, i) /\ UdpForUs(m, i, h)

\* icmp4_rx() of a message in n bytes on the wire: only an echo request has an
\* answer, everything else is logged.
icmp4_rx(m, n) ==
    /\ ip_cksum(m, ip4_hl(m) \div 2,
                Smaller(ip4_data_len(m), n - ip4_hl(m))) = 0
    /\ Lo(m[ip4_hl(m) \div 2]) = 8

\* icmp6_rx(): its checksum, and the messages that are not about neighbors.
icmp6_valid(m, n) == payload_cksum(m, Smaller(bswap16(m[2]), n - 40) + 40) = 0
icmp6_rx(m, n) == icmp6_valid(m, n) /\ Lo(m[20]) = 128

\* An echo request that will be answered.
IcmpEcho(m, h, af, n) ==
    IF af = 4 THEN EthRx(m, h, 4, IP_P_ICMP) /\ icmp4_rx(m, n)
              ELSE EthRx(m, h, 6, IP_P_ICMP6) /\ icmp6_rx(m, n)

-----------------------------------------------------------------------------
(* An external host that pings, or sends a protocol nobody handles.        *)

\* RFC 1071 from its definition: bytes in network order, arithmetic modulo W - 1.
RefSum(m, off, n) ==
    LET bs == Bytes(m, off, n)
    IN  SumFunction([k \in 1 .. n |-> IF k % 2 = 1 THEN 256 * bs[k] ELSE bs[k]])
RefPseudo6(m) == RefSum(m, 4, 32) + bswap16(m[2]) + Lo(m[3])
RefCksum(sum) == bswap16((W - 1) - (sum % (W - 1)))
RefValid(sum) == sum # 0 /\ sum % (W - 1) = 0

ExtPacket(af, p, n, d) ==
    LET len  == 8 + Len(d)
        src  == IfAddr(1, af, 1)
        ip   == IF af = 4
                  THEN <<69, bswap16(20 + len), 0, 0, Word(64, p), 0>>
                         \o src \o IfAddr(2, 4, n)
                  ELSE <<96, 0, bswap16(len), Word(p, 64)>>
                         \o src \o IfAddr(2, 6, n)
        o    == HdrWords(af)
        m    == Copy(Put(Put(Zeros, 0, ip),
                         o, <<IF af = 4 THEN 8 ELSE 128, 0, 4660, 256>>),
                     o + 4, FromBytes(d), 0, Len(d))
        sum  == RefSum(m, o, len) + (IF af = 4 THEN 0 ELSE RefPseudo6(m))
        c    == [m EXCEPT ![o + 1] = RefCksum(sum)]
    IN  IF af = 4 THEN [c EXCEPT ![5] = RefCksum(RefSum(c, 0, 20))] ELSE c

-----------------------------------------------------------------------------
(* Actions.                                                                *)

Resting == at \in {"idle", "dropped", "answered"} \/ (at = "got" /\ host = 1)

NoIov == [af |-> 4, o |-> 0, plen |-> 0, len |-> 0, flags |-> 0,
          addr |-> <<>>, port |-> 0]
Frame(m, len, af) ==
    [m |-> Copy(Zeros, 0, m, 0, len), len |-> len, af |-> af,
     sum |-> m[HdrWords(af) + 3] # 0]
NoFrame == Frame(Zeros, 0, 4)

\* The client allocates a w_iov and fills it in.
Fill(af, d, tos, n) ==
    /\ Resting /\ budget > 0
    /\ req' = [kind |-> "udp", af |-> af, data |-> d, tos |-> tos, n |-> n]
    /\ v' = [NoIov EXCEPT !.af = af, !.o = HdrWords(af), !.len = Len(d),
                           !.flags = tos]
    /\ spare' = [spare EXCEPT ![1] = Copy(@, HdrWords(af) + 4, FromBytes(d), 0,
                                           Len(d))]
    /\ at' = "tx" /\ host' = 1
    /\ full' = 0 /\ flipped' = "no" /\ budget' = budget - 1
    /\ UNCHANGED <<opt, slot, frame>>

\* An external host sends an echo request or an unknown protocol.
Ask(kind, af, d, n) ==
    LET p == CASE kind = "proto" -> OtherProto
               [] kind = "echo" /\ af = 4 -> IP_P_ICMP
               [] OTHER -> IP_P_ICMP6
    IN
    /\ Resting /\ budget > 0
    /\ req' = [kind |-> kind, af |-> af, data |-> d, tos |-> 0, n |-> n]
    /\ frame' = Frame(ExtPacket(af, p, n, d), 2 * HdrWords(af) + 8 + Len(d), af)
    /\ at' = "wire" /\ host' = 2 /\ v' = NoIov
    /\ flipped' = "no" /\ budget' = budget - 1
    /\ UNCHANGED <<opt, slot, spare, full>>

\* udp_tx() when all TX rings are full: it puts v->len back before it returns, and
\* w_tx() will call it again.
UdpTxFull(id) ==
    /\ at = "tx" /\ full < MaxFull
    /\ spare' = [spare EXCEPT ![host] = UdpHdrs(@, v, Sock(host, v), host, id)]
    /\ full' = full + 1
    /\ UNCHANGED <<opt, slot, v, at, host, frame, req, flipped, budget>>

\* udp_tx() when there is space.  The sender frees the w_iov.
UdpTx(id) ==
    LET m == UdpHdrs(spare[host], v, Sock(host, v), host, id) IN
    /\ at = "tx"
    /\ spare' = [spare EXCEPT ![host] = m]
    /\ frame' = Frame(m, 2 * HdrWords(v.af) + ((8 + v.len) % W), v.af)
    /\ at' = "wire" /\ host' = Peer(host)
    /\ UNCHANGED <<opt, slot, v, req, full, flipped, budget>>

\* The words with the lengths that a checksum does not protect, as they also say
\* what it covers: that of UDP, and the payload length of IPv6.
LengthWords(af) == {HdrWords(af) + 2} \cup (IF af = 6 THEN {2} ELSE {})

\* The network flips bit b of word i.
Flip(i, b) ==
    /\ at = "wire" /\ flipped = "no" /\ budget > 0
    /\ 16 * i + b < 8 * frame.len
    /\ frame' = [frame EXCEPT !.m[i] = @ ^^ (2^b)]
    /\ flipped' = CASE i \in LengthWords(frame.af) -> "length"
                    [] frame.sum                   -> "summed"
                    [] OTHER                       -> "bare"
    /\ budget' = budget - 1
    /\ UNCHANGED <<opt, slot, spare, at, host, v, req, full>>

\* The NIC writes the frame into the buffer of the RX slot.
Arrived == Copy(slot[host], 0, frame.m, 0, frame.len)

\* udp_rx() finds a socket: the slot and the w_iov trade buffers.
UdpRx ==
    /\ at = "wire" /\ UdpAccepts(Arrived, host, frame.af)
    /\ v' = UdpIov(Arrived, frame.af)
    /\ spare' = [spare EXCEPT ![host] = Arrived]
    /\ slot' = [slot EXCEPT ![host] = spare[host]]
    /\ at' = "got"
    /\ UNCHANGED <<opt, host, frame, req, full, flipped, budget>>

\* The server sends the w_iov back as it is.
Serve ==
    /\ at = "got" /\ host = 2
    /\ at' = "tx" /\ full' = 0
    /\ UNCHANGED <<opt, slot, spare, host, v, frame, req, flipped, budget>>

\* icmp4_rx() or icmp6_rx() answers an echo request, ip4_rx() a protocol that
\* nobody handles.
IcmpTx(id) ==
    LET buf  == Arrived
        echo == IcmpEcho(buf, host, frame.af, frame.len)
        m    == IF frame.af = 4
                  THEN icmp4_tx(spare[host], IF echo THEN 0 ELSE 3,
                                IF echo THEN 0 ELSE 2, buf, host, id)
                  ELSE icmp6_tx(spare[host], buf, host)
    IN  /\ at = "wire" /\ host = 2
        /\ echo \/ (frame.af = 4 /\ EthRx(buf, 2, 4, OtherProto))
        /\ slot' = [slot EXCEPT ![2] = buf] /\ spare' = [spare EXCEPT ![2] = m]
        /\ frame' = Frame(m, IF frame.af = 4 THEN bswap16(m[1])
                                            ELSE bswap16(m[2]) + 40, frame.af)
        /\ at' = "answered"
        /\ v' = [NoIov EXCEPT !.af = frame.af,
                              !.o = IF frame.af = 4 THEN ip4_hl(spare[2]) \div 2
                                                    ELSE 20]
        /\ UNCHANGED <<opt, host, req, full, flipped, budget>>

\* The frame is ignored.
Drop ==
    /\ at = "wire"
    /\ ~UdpAccepts(Arrived, host, frame.af)
    /\ ~IcmpEcho(Arrived, host, frame.af, frame.len)
    /\ ~(frame.af = 4 /\ EthRx(Arrived, host, 4, OtherProto))
    /\ slot' = [slot EXCEPT ![host] = Arrived]
    /\ at' = "dropped"
    /\ UNCHANGED <<opt, spare, host, v, frame, req, full, flipped, budget>>

Init ==
    /\ opt \in [ecn : BOOLEAN, zero : BOOLEAN]
    /\ slot = [h \in Host |-> Zeros] /\ spare = slot
    /\ at = "idle" /\ host = 1 /\ v = NoIov /\ frame = NoFrame
    /\ req = [kind |-> "none"] /\ full = 0 /\ flipped = "no"
    /\ budget = Budget

Next ==
    \/ \E af \in AF, d \in Data, n \in AddrNo :
         \/ \E tos \in Tos : Fill(af, d, tos, n)
         \/ Ask("echo", af, d, n)
         \/ Ask("proto", 4, d, n)
    \/ \E id \in Id : UdpTxFull(id) \/ UdpTx(id) \/ IcmpTx(id)
    \/ \E i \in 0 .. LastWord, b \in Bit : Flip(i, b)
    \/ UdpRx \/ Serve \/ Drop

Spec == Init /\ [][Next]_vars

-----------------------------------------------------------------------------
(* Properties.                                                             *)

TypeOK ==
    /\ \A h \in Host, i \in 0 .. LastWord :
         slot[h][i] \in 0 .. W - 1 /\ spare[h][i] \in 0 .. W - 1
    /\ at \in {"idle", "tx", "wire", "got", "answered", "dropped"}
    /\ v.len \in 0 .. W - 1 /\ v.flags \in 0 .. 255
    /\ frame.len <= 2 * (LastWord + 1)

\* What may arrive of the data: with a length changed, the start of it.
Arrives ==
    IF flipped = "length"
      THEN {SubSeq(req.data, 1, k) : k \in 0 .. Len(req.data)}
      ELSE {req.data}

\* A datagram that udp_rx() hands to a socket, at either end of an exchange, is
\* the one the client's application sent: its bytes, its length, and for the
\* server its source.  This holds in buffers full of old headers, after failed
\* calls of udp_tx(), and with a bit flipped in a packet that carries a checksum,
\* unless it is a bit of a length.  A wrong length may get past the checksum, or
\* there is none: then the bytes are the first ones sent, or, if the UDP length
\* is below 8, v->len has wrapped around.
EndToEnd ==
    /\ TypeOK
    /\ at = "got" /\ flipped # "bare" =>
         /\ \/ flipped = "length" /\ v.len >= W - 8
            \/ Bytes(spare[host], v.o + 4, v.len) \in Arrives
         /\ host = 2 => v.addr = IfAddr(1, v.af, 1) /\ v.port = ClientPort

\* A packet that arrives as it was built is not dropped: the receiver's length
\* and checksum checks accept what udp_tx() computes, odd lengths and reused
\* buffers included.  There are two exceptions: a packet to the IPv4 address that
\* the server's engine does not keep, and the reply from the second IPv6 address,
\* which comes from the first one and which the client does not expect.
NoFalseDrop ==
    at = "dropped" /\ flipped = "no" =>
      /\ req.n = 2
      /\ IF req.af = 4 THEN host = 2 ELSE req.kind = "udp" /\ host = 1

WithDefault(f) == IF f % 4 = 0 /\ opt.ecn THEN f + 2 ELSE f

\* Over IPv4 both ends see the DSCP and ECN bits that the client set, with the
\* socket's ECN default.  Over IPv6 they see every bit of flags that mark ECN.
TosKept ==
    at = "got" /\ flipped = "no" =>
      IF v.af = 4 THEN v.flags = WithDefault(req.tos)
      ELSE req.tos % 4 # 0 => (v.flags & req.tos) = req.tos

\* frame is an ICMP message from address n of host 2, with the given first word,
\* identifier and sequence number, data and checksums.
IsIcmp(n, first, words, data) ==
    LET m == frame.m
        o == HdrWords(frame.af)
    IN  /\ frame.len = 2 * o + 8 + Len(data)
        /\ ip_v(m) = frame.af
        /\ Src(m, frame.af) = IfAddr(2, frame.af, n)
        /\ Dst(m, frame.af) = IfAddr(1, frame.af, 1)
        /\ m[o] = first /\ Words(m, o + 2, 2) = words
        /\ Bytes(m, o + 4, Len(data)) = data
        /\ IF frame.af = 4
             THEN /\ Hi(m[4]) = IP_P_ICMP /\ RefValid(RefSum(m, 0, 20))
                  /\ RefValid(RefSum(m, o, 8 + Len(data)))
             ELSE /\ Lo(m[3]) = IP_P_ICMP6
                  /\ RefValid(RefPseudo6(m) + RefSum(m, o, 8 + Len(data)))

EchoAnswered(n) ==
    IF req.kind = "proto"
      THEN IsIcmp(n, Word(3, 2), <<0, 0>>, Bytes(slot[2], 0, 28))
      ELSE \E data \in Arrives :
             IsIcmp(n, IF frame.af = 4 THEN 0 ELSE 129, <<4660, 256>>, data)

\* The answer to an echo request is a well-formed echo reply with the request's
\* identifier, sequence number and data (the start of the data if the length was
\* changed on the way), and an unknown protocol is answered by an error that quotes
\* the packet, provided that icmp4_tx() got a w_iov whose buffer last held an IPv4
\* packet: v.o is where it put the ICMP header.
IcmpAnswers == at = "answered" /\ v.o = HdrWords(v.af) => EchoAnswered(1)

\* What icmp4.c says, "send an echo reply", of any w_iov.
EchoReplySent == at = "answered" => EchoAnswered(1)

\* The answer comes from the address that was asked.
AnswersFromAsked ==
    at = "answered" /\ v.o = HdrWords(v.af) => EchoAnswered(req.n)

\* What ip6.c says, "we never set a flow label".
NoFlowLabel ==
    at = "wire" /\ flipped = "no" /\ req.kind = "udp" /\ frame.af = 6 =>
      Hi(frame.m[0]) % 16 = 0 /\ frame.m[1] = 0

\* What ip6.c says, "set version, TC and ECN": IPv6 keeps them as IPv4 does.
TosKept6 == at = "got" /\ flipped = "no" => v.flags = WithDefault(req.tos)

\* What udp.c says, "compute the checksum, unless disabled by a socket option":
\* without the option, every datagram that is handed over is the one sent.
EndToEndSummed ==
    at = "got" /\ ~opt.zero =>
      v.len < W - 8 /\ Bytes(spare[host], v.o + 4, v.len) = req.data
=============================================================================
