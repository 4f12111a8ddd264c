# warpcore: models, checks and proofs

warpcore is a userspace UDP/IP stack. An engine (`struct w_engine`) runs on one
of several backends: netmap, where warpcore itself does Ethernet, ARP, ND, IP,
ICMP and UDP over the rings of a NIC; the sockets of the operating system; or
RIOT. This directory models the parts of it whose correctness depends on the
order in which things happen, checks them with TLC on small instances, and
proves the central invariants with TLAPS for all instances.

warpcore has no threads. What is concurrent is the NIC or the kernel, the peers,
and the application's own calls: `w_tx()` can be inside `who_has()`, which is
inside `w_nic_rx()`, which handles a frame that makes it call
`eth_tx_and_free()`, which calls `w_nic_tx()`. `ensure()` always aborts and is
taken to hold; `assure()` is compiled out in release builds, so the models go on
where it would stop, and what it claims is stated as a property.

## Inventory

| Part | State | Operations | What is hard | Properties |
|---|---|---|---|---|
| Netmap rings and buffers (`backend_netmap.c`, `eth.c`) | buffer index of every slot and w_iov, `slot_buf`, `tail`, `cur`, `cur_txr` | `eth_tx`, `eth_tx_and_free`, `w_nic_tx`, `w_nic_rx`, `w_tx`, `w_rx` | zero-copy swaps in any order, w_iovs reused while in flight, full rings, wrap-around, nested calls | conservation of buffers, the TX window, the completion test, `v->base` against `v->idx`, termination |
| w_iov pool (`warpcore.c`) | `w->iov` | `w_alloc_*`, `w_free*` | early returns that forget a w_iov, empty pool, lengths | every w_iov is in one place |
| UDP (`udp.c`) | `s->iv` | `udp_rx`, `udp_tx` | which socket, which early return, a retry over a buffer with headers in it | right socket, nothing lost, what is sent is what is received |
| Sockets on netmap (`backend_netmap.c`, `warpcore.c`) | `b->sock`, a hash table whose keys are pointers into the sockets | `w_bind`, `w_connect`, `w_close`, `w_rx_ready`, `w_get_sock` | duplicate ports, failing connects, lookups while a socket is being connected | no dangling entry, the table implements a demultiplexer |
| Neighbors (`neighbor.c`, `arp.c`, `icmp6.c`, `eth.h`) | the cache, `s->dmac`, `last_addr`, `last_mac` | `who_has`, `arp_rx`, `icmp6_rx`, `mk_eth_hdr` | lost, repeated and late frames, both sides asking, stale copies | frames go to their owner, `who_has` returns |
| Socket backend and RIOT: traffic (`backend_sock.c`, `backend_riot.c`) | `b->ev`, `b->fds`, `b->n`, the pool | `w_nic_rx`, `w_rx_ready`, `w_rx`, `w_tx` | short reads and writes, empty datagrams, stale events, fewer events than sockets | no loss, order, no call that waits for ever, every datagram is read in the end |
| Socket backend and RIOT: sockets | descriptors, options, ports and peers, each twice: in the `w_sock` and in the kernel | `w_bind`, `w_connect`, `w_set_sockopt`, `w_close`, `w_cleanup` | calls that fail half-way | the two agree |
| ICMP (`icmp4.c`, `icmp6.c`) | none | replies | need a w_iov and a TX slot; written over what a buffer held | as part of the rings; answers are what RFC 792 and RFC 4443 say |
| Engine life cycle | list of engines, extra buffers | `w_init`, `w_cleanup`, `backend_cleanup` | cleanup with w_iovs in flight, deleting while iterating | the list holds the engines in use, every socket is closed, no buffer of a ring is given back |
| Interface addresses (`ifaddr.c`, `ip4.c`, `ip6.c`) | `w->ifaddr` | `backend_addr_cnt`, `backend_addr_config`, `is_my_ip4`, `is_my_ip6` | several IPv4 addresses, addresses that appear in between, masks at byte boundaries | stores in bounds, every address found, prefix and broadcast addresses right |
| Headers and checksum (`ip4.c`, `ip6.c`, `in_cksum.c`) | the words of a buffer | `mk_ip4_hdr`, `mk_ip6_hdr`, `ip_cksum`, `payload_cksum` | stale words in reused buffers, odd lengths, carries | no packet dropped for nothing, which changes of a packet are accepted |
| Addresses, random numbers (`warpcore.c`, `warpcore.h`) | none | comparing, hashing, converting, `w_rand_uniform` | unions with stale halves, word widths | proved as theorems |
| Hash table (`khash.h`) | buckets and their flags | put, get, delete, resize, iterate | tombstones, rehashing in place, deleting while iterating | it is a map, every loop ends |
| Queues (`queue.h`) | links | insert, remove, concatenate | stale links, pointers into other elements | queues are the sequences the callers take them for |
| poll variant (`backend_sock.c`) | `b->fds` | as the socket backend | growing arrays | not modelled: undefined from the first call |
| `inetd`, `ping` | flights, timeout | main loops | lost, late and duplicated datagrams, signals, datagrams held back | flights are not mixed, the loops end |

`PROJECT.json` lists the parts with their status, every hazard at the line where
it bites, and which property covers it.

## Modules

| Module | What it is |
|---|---|
| `Netmap` | buffers, rings and w_iovs of one engine on netmap |
| `NetmapProofs` | types, conservation of buffers, the TX window, the partition of the w_iovs |
| `NetmapFlightProofs` | frames in flight: the completion test, `v->base`, the buffers given back |
| `SockTable` | the sockets of one engine on netmap and the table they are found in |
| `UdpDemux` | abstract: what the sockets promise, without a table |
| `SockBackend` | traffic on the backends over system sockets: epoll with `recvmmsg` or `recvmsg`, and RIOT |
| `SockBackendProofs` | w_iovs, order of datagrams in both directions, no `recvfrom()` that waits |
| `SockFd` | descriptors, options, addresses, ports and peers on the same backends |
| `SocketProofs` | soundness of the table, that it implements `UdpDemux`; that `w_sock`s and the kernel agree |
| `Neighbor` | several engines that resolve each other's addresses |
| `InCksum` | the Internet checksum on 16-bit words |
| `Packet` | IP, UDP and ICMP headers as words of buffers that are used again, between two hosts |
| `KhMap` | abstract: what the hash table promises, a map |
| `Khash` | the buckets of `khash.h` as the table of sockets, and the loop of `backend_cleanup()` over it |
| `KhashResizeProofs` | probing, powers of two, the inductive invariant, and that `kh_resize()` keeps it |
| `KhashProofs` | counters, lookups, termination, and that the table implements `KhMap` |
| `SockAddr` | addresses and four-tuples: comparison, hash, conversion to and from `struct sockaddr` |
| `Engine` | `w_init()`, the addresses of the interface, the list of engines, `w_cleanup()` |
| `IfAddr` | prefix length, broadcast and solicited-node address of an address and its mask |
| `EngineProofs` | where addresses are stored and that all are found, the list of engines |
| `RandUniform` | `w_rand_uniform32/64()` and `pick_local_port()` |
| `TailQueue` | the tail queues of `queue.h` as pointers |
| `LibraryProofs` | theorems about `TailQueue`, `InCksum`, `SockAddr`, `RandUniform` and `Neighbor` |
| `FlightNet` | the network between `ping` and `inetd` |
| `Inetd`, `Ping` | the main loops of the two programs |
| `Flights` | the two of them over the network |
| `MC*` | instances of these for TLC: values of the constants, symmetry, views |

The modules cut the system along its state. `Netmap` knows that a datagram
reaches *some* open socket and leaves open which; `SockTable` decides which and
leaves out the buffers; both leave out how a MAC address is found, and
`Neighbor` models that and nothing else. What one module leaves open it allows
in every way the other could decide it: in `Netmap`, a neighbor may be known or
unknown at each call, and a frame of any kind may arrive in any slot. `Khash` shows
that the map which `SockTable` is written with is what the hash table provides, and
`MCKhash` runs it with the hash function and the comparison of `SockAddr`.

### Netmap

A netmap buffer is named by an index, and an index is stored in a *holder*: a
w_iov (`v->idx`) or a slot of a ring (`slot->buf_idx`). `bidx` maps holders to
indices. `eth_tx()`, one iteration of the loop of `w_nic_tx()`, and `udp_rx()`
swap two of them. `base` is `v->base`, a pointer into a buffer, hence also an
index.

| Code | Actions |
|---|---|
| `w_tx`, `udp_tx`, `mk_eth_hdr` | `Tx`, then for each w_iov `UdpTxSent`, `UdpTxFull` (which is the retry with `w_nic_tx`) or `UdpTxResolve` |
| `who_has` | `WhoHasQuery` and `WhoHasRx`, in turns |
| `eth_tx_and_free` | `EthTxAndFree` (an operator of the handlers that call it), `EthTxAndFreeSync` for each pass of its loop, `EthTxAndFreeDone` |
| `w_nic_tx` | `NIOCTXSYNC`, then one `Reclaim` per slot |
| `w_nic_rx` | `NicRx` or `WhoHasRx`, `Poll`, one action per frame, `RxRingDone` |
| `eth_rx`, `ip4_rx`, `ip6_rx` and what they call | `UdpRx`, `UdpRxReject`, `UdpRxUnreach`, `RxQuery`, `RxOther`, one for each effect on the buffers |
| `w_alloc_iov`, `w_free`, `w_free_iov`, `w_rx`, `w_bind`, `w_close` | `Alloc`, `Free`, `Rx`, `Bind`, `Close` |
| `backend_init` | `Init` |
| `backend_cleanup`, the list of buffers given back | `ExtraBufs` and, after its last buffer, `ExtraAfter`, at any time the application could call it |
| the NIC (external) | `NicSend`, at any time |

Where the thread is shows in `nicrx`, `wait`, `who`, `tosend` and in the
difference between `btail` and `txtail`; the innermost call moves first.
`dropped` is a history variable: w_iovs that the code forgets.
`AppWaits` says whether the application leaves w_iovs alone that are still in a
TX ring; `inetd` and `ping` do not, and nothing in the interface requires it.

### SockTable and UdpDemux

`table` maps a tuple to a record of *whose* `tup` the key points to and which
`w_sock` the value is, since `kh_put()` keeps an old key. `Connect` ends in
`who_has()`; `UdpRx` is enabled there; `Resolved` and one `Roll` per evaluation
of `while (n--)` follow, with `n` modulo 256. `UdpDemux` has only the sockets'
addresses and queues: `SockTable` maps `live`, `tup` (nothing for the socket in
`w_connect()`) and `iv` to it, and the datagram that a step has dropped (`drop`, a history
variable, to `dropped`): in `UdpDemux` only a step that drops sets it, and only to a
datagram that no socket matches. `careful`, chosen initially, restricts the application and its luck:
no port that is taken is asked for or drawn, and address families are known.

### SockBackend

`variant` is how the backend is built. The kernel's queues `kq` and the ready list
`ep` of a level-triggered epoll instance are external; kqueue differs in names only.
`RxBatch` and `RxNone` are passes of the loop of `w_rx()`, with `recvmsg()` a batch is
one datagram and `RxEmpty` is one without payload; `TxBatch` is a pass of `w_tx()`.
`NicRxSelect`, `RxReadySelect`, `RxFrom`, `RxFromFails` and `TxTo` are those of RIOT. Datagrams are numbered modulo `Seqs`, which exceeds the capacity of a queue, so
that a lost, repeated or swapped one shows; those in `Empty` have no payload.
`inetd` says that the application is a loop like that of `inetd.c`.

### SockFd

`sk` has what the `w_sock`s say, `kfd` what the kernel has. A socket is bound to one of the
addresses of the engine, as `inetd` binds one per address, and the kernel keeps the ports
of each address apart. Each call of the interface
is one action, and one more for each way it fails: `OsNoSocket`, `OsBindFails`,
`OsConnectFails`. `KSetOpt` models `w_set_sockopt()`, which passes only differences on;
with `wsl` the kernel refuses one of the options. `lost` is a history variable:
descriptors that are open and that nothing refers to. `MCSockTable` runs `SockTable`
and `SockFd` side by side; a build has one of the two.

### Neighbor

Each engine has an address named like itself, and a MAC address that may change
when the host restarts. The engines in `Client` send, the others only answer. Frames are a set: loss happens at sending, duplication
and reordering at reception. `WhoHasReturn` finishes whichever function called
`who_has()`, `backend_connect()` or `mk_eth_hdr()`.

### Khash and KhMap

`flags`, `keys`, `vals` and the four counters are those of the C structure. A probe
is one expression (`Slot` is its bucket after `k` steps), a call of `kh_resize()` is
one step per bucket (`ResizeTake`) and per element placed (`ResizePlace`), because
an element that was kicked out is in local variables in between (`hand`).
`CleanupClose` is one pass of `kh_foreach_value()` in `backend_cleanup()`. The
refinement mapping collects the elements of the old table, of the new one and in
`hand`. `InsSockFails` is a failing allocation, after which nothing has changed.

### Engine

`InitCount` is `w_init()` up to the allocation, `ConfigBegin` the second time the
addresses are read, then there is one action per entry of the list by its family;
`InitDone` leaves the loop and inserts the engine. The system lists the `AF_LINK`
entry of an interface before its addresses. A store is not confined to the array, so
one outside of it would show in the domain of `ifaddr`. `next` and `head` are the
links of the list; `live` is a history variable.

### InCksum and Packet

Buffers are functions from word numbers to 16-bit words, on a little-endian host.
A host has a buffer that is sent from and received into again and again, and a spare
one for ICMP, so headers are written over what is left of other packets, of the
other family included. `Fill` is the application, `UdpTx` and `UdpTxFull` are
`udp_tx()` with and without room in the ring, `Flip` an error in any word on the wire, `UdpRx`
the way from `eth_rx()` to the socket, `Ask` a packet from another implementation,
which follows the RFCs, and `IcmpTx` the answer to it. `Drop` is every early return.
Each host has two addresses of each family; as in `ifaddr.c` the engine keeps both of
IPv6 and one of IPv4 (`is_my_ip`). Lengths are `uint16_t` and wrap around.

### TailQueue, Inetd, Ping and Flights

`Inetd` holds all w_iovs of the server in queues made of pointers: the pool, a
receive queue per socket, and `i`, `o` and `tmp` of the main loop. Its actions are
the passes of that loop and of the loops within it; `w_rx()`, `w_free()` and
`w_alloc_iov()` are the queue operations they consist of. `Ping` has `w_alloc_len()`,
the wait with its timer, the check and the growth of flights, over sequences.
Nonces, which are random in `ping.c`, are counters here: two flights with the same
nonce are left out. `FlightNet` reorders, loses and, once, duplicates datagrams.

### Pure functions

`IfAddr` works on bytes, `SockAddr` on the two halves of the address union (with an
IPv4 address nothing sets the second one), `RandUniform` on words of any size.
`fnv1a_32()` is a parameter: only that it is a function is used. (Its offset basis
and prime, `util.c:560`, are exchanged against FNV-1a.)

## Runs

Passing runs:

| Run | Checks | Instance | Distinct states |
|---|---|---|---|
| `buffers` | `BufConservation`, `TxWindow`, `CompletionTest`, `BaseOwned`, `IovPartition` | 2 TX rings of 2 slots, 3 w_iovs, all frame kinds, an application that waits | 318 480 |
| `reuse` | `IovPartition` and `ExtraSound` for any application | 1 TX ring of 3 slots, 2 w_iovs, no waiting | 127 740 |
| `live` | `eth_tx_and_free()` and `w_tx()` return, for an application that waits | 1 TX ring of 2 slots, 2 w_iovs, fair | 134 400 |
| `sockets` | netmap: `TableSound`, `RightSocket` for any application, `DemuxSpec` for careful ones; other backends: `FdsOwned`, `OptsApplied`, `AddrsKnown` | 3 sockets, 3 ports, 2 peers; 2 sockets, 3 addresses, 2 ports, 3 descriptors; calls that fail | 512 938 |
| `sock_backend` | `IovPartition`, `InOrder`, `TxInOrder`, `RxNoWait`, `RxEventually` | 3 variants, 2 sockets, 1 event at a time, batches of 2, fair | 280 945 |
| `neighbors` | `SentToOwner` | 3 engines, two of which send, the third with two MAC addresses, 1 frame at a time | 227 464 |
| `resolve` | `WhoHasReturns` | 2 engines, 4 frames, fair | 2 057 |
| `hash` | `CountsRight`, `GetFinds`, `CleanupClosesAll`, `MapSpec`, `WorkShrinks` | 6 sockets with 5 tuples whose hashes collide | 220 629 |
| `engines` | `StoresInBounds`, `AllFound`, `NetsRight`, `ListIsLive` | 3 engines, 2 interfaces, all lists of up to 3 of 4 addresses | 88 689 |
| `packet` | `EndToEnd`, `NoFalseDrop`, `TosKept`, `IcmpAnswers` | 2 hosts, both families, 2 packets over one buffer, 0, 3 or 4 bytes, options, one flipped bit | 316 036 |
| `flights` | `QueuesSound`, `OneFlight`, `PoolLeft`, `FailsOnlyLate`, `LoopsEnd` | 2 flights of 2 datagrams, 3 w_iovs at the server, fair | 163 865 |

The types of `Netmap`, `SockTable` and `Neighbor` are theorems, as are `ReadyComplete` and
`SourceIsIp4`, for every instance, so no run repeats them. In the other modules the
type invariant is a conjunct of the first structural property of the run
(`IovPartition`, `FdsOwned`, `CountsRight`, `ListIsLive`, `EndToEnd`, `QueuesSound`).

With three engines in `neighbors`, the `last_mac` of one destination stands next to the
`last_addr` of another, and an engine learns from ARP requests for others (`Learns`).
`SentToOwner` also holds with `Mac = {10, 20, 30}` and two frames under way (112 475
states), and so with neighbor discovery (`V6 = TRUE`) and three (139 699); all of this
at once is out of the reach of a short run. `FramesToOwner` proves it for any number
of engines and frames.

In `packet` the bits that flip are three of each word, chosen so that the lengths change
to one that the checksum lets pass and to one below 8. With all 16 (`Bit = 0 .. 15`, written
out) the properties hold too (791 620 states). A flipped length is the one error that
`EndToEnd` lets through: an IPv6 datagram with the data 255, 251, 0, 0 whose payload length
drops from 12 to 8 is accepted as an empty one, because the sum changes by 65535; and a
UDP length below 8 in a datagram without checksum gives a `v->len` of 65528 and more.
`NoFalseDrop` has the exceptions that follow from the addresses: the engine does not
know its other IPv4 address, and replies come from its first IPv6 address.

The properties `BaseOwned` and `IovPartition` also hold for a netmap pipe, which
`MCNetmap_reuse.cfg` becomes with `Pipe = TRUE` (266 440 states).

One run ends in a violation of what a comment of the code says:

| Run | Property | What happens |
|---|---|---|
| `leak` | `NoIovLost` | `udp_rx()` forgets its w_iov when it rejects a datagram |

### Where the code and its comments differ

The modules also state what other comments and assertions say and the code does
not do. Each is a definition among the properties of its module. To see the
counterexample, put it in place of the properties of the configuration named
here (and leave out `SYMMETRY`, and `VIEW` for `WaitEnds`).

| Property | Configuration | What the code says | What happens |
|---|---|---|---|
| `FrameQueued` | `MCNetmap.cfg` | `eth.c:171` "make sure it went out before returning" | with full rings, `eth_tx_and_free()` drops its frame and returns |
| `RxReported` | `MCNetmap.cfg` with `NBufs = 2`, `NTx = 1`, `RxN = 3`, `NBuf = 7`, no `VIEW` | `backend_netmap.c:368` "Whether any data is ready for reading" | `w_nic_rx()` returns the result of its last frame only |
| `DataMovedBack` | `MCNetmap_reuse.cfg` | `backend_netmap.c:413` "place it back into the original w_iov_sqs, so it's not lost to the app" | a w_iov sent again or received into while in flight ends with `base` and `idx` apart |
| `WaitEnds` | `MCNetmap.cfg` with `AppWaits = FALSE`, `NBufs = 2`, `NBuf = 8` | `eth.c:165` "Wait until @p v has been transmitted" | with two rings, the index the loop waits for does not come back |
| `CleanupReturnsAll` | `MCNetmap.cfg` | `backend_netmap.c:202` "returns all w_iov structures associated the engine to netmap" | as many buffers are returned as w_iovs are in the pool |
| `CleanupListEnds` | `MCNetmap_reuse.cfg` | `backend_netmap.c:217` "re-construct the extra bufs list, so netmap can free the memory" | with an empty pool no link is written, and the list goes from the buffer of the first w_iov to whatever that buffer holds |
| `ReadyComplete` without `careful` | `MCSockTable.cfg` | `backend_netmap.c:459` "insert all sockets with pending inbound data" | a second bind of a port succeeds, and closing that socket silences the first one |
| `InsertsFresh` | `MCSockTable.cfg` | assertion at `backend_netmap.c:64` | a random port replaces another socket's entry |
| `RemovesFound` | `MCSockTable.cfg` | assertion at `backend_netmap.c:72` | a socket that failed to connect or to bind has no entry to remove |
| `FourTupleUnique` | `MCSockTable.cfg` | `backend_netmap.c:311` "four-tuple exists, reroll sport" | after 200 tries `n` wraps and a taken tuple is used |
| `PortUnreachable` | `MCSockTable.cfg` | `udp.c:149` "send an ICMP unreachable reply, if this was not a broadcast" | the test is made on the sender's address: no message for senders other than the engine itself |
| `NoFdLost` | `MCSockTable.cfg` | `warpcore.c`, `w_cleanup()`, "Shut a warpcore engine down cleanly" | the descriptors of a failing `bind()` and of epoll stay open |
| `OptsCurrent` | `MCSockTable.cfg` | `warpcore.h`, `w_get_sockopt()`, "Return the current socket options" | `w_set_sockopt()` records ECN although `setsockopt()` failed |
| `ReadyOpen` | `MCSockBackend.cfg` | `backend_sock.c:592` "pointers to some sockets with pending inbound data" | `w_rx_ready()` returns a socket closed after its event was fetched |
| `RxExactAll` | `MCSockBackend.cfg` | `backend_riot.c`, `w_rx()`, "Return any new data that has been received on a socket" | a failing `recvfrom()` yields a w_iov of length 65535, an empty datagram none |
| `SentAll` | `MCSockBackend.cfg` | `backend_sock.c:312` "sending them all" | the rest of a short `sendmmsg()` is dropped |
| `ConnectionUpdated` | `MCNeighbor.cfg` | `arp.c:147` "updates the information in the w_sock structures of all open connections" | an ARP reply updates no connected socket |
| `EchoReplySent` | `MCPacket.cfg` | `icmp4.c`, "send an echo reply" | `icmp4_tx()` places the ICMP header by the header length of the packet that was in the buffer before |
| `AnswersFromAsked` | `MCPacket.cfg` | `icmp6.c:325` "send an echo reply" | over IPv6 the reply comes from the first address, whichever was asked |
| `NoFlowLabel`, `TosKept6` | `MCPacket.cfg` | `ip6.c`, "we never set a flow label", "set version, TC and ECN" | bits of the packet that was in the buffer stay, and the default for ECN lands in the flow label |
| `EndToEndSummed` | `MCPacket.cfg` | `udp.c`, "compute the checksum, unless disabled by a socket option" | a computed checksum of 0 is sent as it is, which means none; and a wrong length may pass, as above |
| `NicRxTells` | `MCFlights.cfg` | `backend_netmap.c:368` "Whether any data is ready for reading" | `inetd` goes on waiting with data in its sockets |
| `AllServed` | `MCFlights.cfg` | `inetd.c:223` "we are done serving the received data" | the first datagram of a new flight is freed with what follows it |
| `FlightDone` | `MCFlights.cfg` | `inetd.c:201` "flight is done" | a duplicate counts for a datagram that is missing |
| `DataLenOK`, `OwnReply` | `MCFlights.cfg` | `ping.c:275` "data len OK", `ping.c:286` "received" | late replies to an earlier flight are counted, and `ping` may abort over them |
| `PingEndsAnyway` | `MCFlights.cfg` | `ping.c:257` "loop until timeout or we have received all data" | without `-b` the timeout does not end `w_nic_rx()` |

Two differences are theorems: `w_rand_uniform32/64()` accept one word too many
(`OneWordTooMany`; `warpcore.c:548` computes from `UINT64_MAX` what the comment above
it has with 2**64), and the hash of a four-tuple has the local port twice and the
remote port never (`PeerPortNotHashed`; `warpcore.c:639`).

### Bounds

Rings have two or three slots, so they wrap, fill and drain within a few steps;
with two TX rings `cur_txr` moves and one `w_nic_tx()` reclaims from both. Two or
three w_iovs make the pool run dry in every handler. In `SockTable`, `Tries`
stands for 200: the wrap of `n` is reached from any value, and the modulus stays
256. In `SockBackend` the batch sizes 64 become 2 and the events 1, fewer than sockets.
In `SockFd` three descriptors are one less than two sockets, epoll and a lost one need.
In `Packet` `Budget` bounds the packets over a buffer: two are enough for what one
leaves to the next. The data are of no, odd and even length, one has the checksum 0, and
one makes up for a wrong length.
In `Flights`, a second flight is the fewest for mixing them. One datagram is duplicated at
most. `PoolLeft` says that a w_iov is left only if there was no duplicate: with two w_iovs
for a flight of two datagrams (`NBufs = 2`, `Elem = {1, 2}`), a duplicate of the shorter one
empties the pool before the flight is complete, and the server receives nothing more;
without duplicates two are enough (`PoolLeft` holds in this instance, 93 121 states). With more duplicates the same happens
to larger pools.
In `Khash` tables of 4 and 8 buckets fill, grow, and are cleared of deleted buckets at
the same size; the hash values lie on each other's probes. In `Engine` two addresses
of each family are the fewest with which both families are stored more than once.
`MaxNet`, `MaxQ` and `Seqs` bound frames under way, queue lengths and numbers.
`VIEW` leaves out of the fingerprint what no checked property of that run can
tell apart (the names of buffers, up to which holder had them first; in `Khash`
what unused buckets hold); `SYMMETRY` permutes sockets and engines in runs without
liveness.

### Fairness

- `Netmap`: the thread continues a call that it has begun (`WF` of `Step`), the
  NIC goes on sending what it was given (`WF` of `NicSend`), and a neighbor that
  is looked up again and again is found in the end. The application may make any
  calls but those that touch a w_iov in flight (`AppWaits = TRUE`). With `AppWaits = FALSE`,
  as `inetd` and `ping` behave, both properties are violated: a w_iov that is freed in
  flight is taken for a query or a reply, and gets the buffer of its older frame back
  where `eth_tx_and_free()` waits for `orig_idx`; its loop does not end, nor does a `w_tx()`
  that it is part of.
- `SockBackend`: the application goes around its loop, frees what it has read, and
  `recvmmsg()` does not fail for ever on a socket that has data. The property
  needs the loop of `inetd`: an application that calls `w_nic_rx()` twice for each
  `w_rx_ready()` discards the events of the first call, and can do so to the same
  socket for ever.
- `Flights`: each program goes on, and the timer of `ping` fires. Nothing is assumed
  of the network. `LoopsEnd` is for busy-waiting programs (`-b`), the case in which the
  code guarantees it.
- `Neighbor`: `who_has()` continues; a query sent again and again is delivered and
  answered now and then, and so is the answer. MAC addresses do not change in
  that run.

## Proofs

The theorems hold for all values of the constants. A module of proofs has the same
shape throughout: an inductive invariant, a lemma per action that keeps it, and the
properties as its consequences. `PROJECT.json` says which theorem states a property
that a run checks too.

### Netmap (`NetmapProofs`, `NetmapFlightProofs`)

For all numbers and sizes of rings, pools, sockets and buffers, from the assumptions
that there is at least one ring of each kind with two slots, one w_iov, and that
NIOCREGIF hands out distinct indices:

- `TypeCorrect`: `Spec => []TypeOK`.
- `TxWindowHolds`: `Spec => []TxWindow`. `TxWindow` is not inductive: that
  `w_nic_tx()` stays within the window needs the order of the pointers around the
  ring, `btail`, `txtail`, `hwdone`, `hwsub`, `txcur`. The inductive invariant
  (`RingCore`) states this order as distances from `btail`, and the proof follows each
  pointer by one step of `RingNext`.
- `BuffersConserved`: `Spec => []BufConservation`. A swap of two holders keeps an
  injective function injective; that `Reclaim` swaps with a w_iov at all, and not
  with NULL, is the TX window again.
- `IovsPartitioned`: `Spec => []IovPartition`, for any application. `PartInv` says that
  the pool, the receive queues, the application, `eth_tx_and_free()` and what was
  dropped share no w_iov; every action moves some from one of them to another.
- `CompletionTestSound`: `CompletionTest`, for an application that leaves w_iovs in
  flight alone or an interface with a single TX ring. `WaitInv` follows the frame that
  `eth_tx_and_free()` waits for: while its slot is in use the slot holds `orig_idx`, and
  if its w_iov was sent again, then later in the same ring. With two rings and an
  application that does not wait this is false (`WaitEnds`, in the table above).
- `BaseIsOwned`: `Spec => []BaseOwned`. `FlightInv` adds that no w_iov is in two slots,
  that what warpcore may send is in none, and which slot the waiting w_iov is in;
  `PipeInv` is the counterpart for a pipe, where nothing is swapped.
- `ExtraBufsSound`: `Spec => []ExtraSound`, from conservation and the partition. What
  follows the last buffer of the list is zero unless the pool is empty.

### Sockets (`SocketProofs`)

The table of sockets, for all sets of sockets, ports and peers:

- `TableIsSound`: `Spec => []TableSound`, for any application. It is inductive
  together with the type of the table and with what is known of the socket in
  `w_connect()`.
- `SockTableType`, `DeliversRight`: the type, and that `udp_rx()` picks a matching
  open socket, both from the soundness of the table.
- `ImplementsDemux`, `ReadyIsComplete`: with `careful`, every open socket except
  the one in `w_connect()` has an entry of its own, so the table and the sockets'
  addresses determine each other; each action then maps to one of `UdpDemux`, a
  dropped datagram to its `Drop`.

The sockets of an operating system, for all sets of sockets, descriptors, ports and
peers, `backend_sock.c` and `backend_riot.c`, and whichever calls fail:

- `FdsAreOwned`, `OptsAreApplied`, `AddrsAreKnown`: `FdSpec` implies that `FdsOwned`,
  `OptsApplied` and `AddrsKnown` always hold. `FdInv` says of every `w_sock` that it and
  its descriptor agree on address, port, peer and options, and that pairs of address and
  port are apart among all the descriptors that the kernel has open: also those that
  warpcore has forgotten, because they still occupy their ports.

### Socket backend (`SockBackendProofs`)

For any number of sockets and w_iovs and any sizes of batches, event buffers and
queues, all three variants, from the assumption that datagrams are numbered modulo
more than a queue holds:

- `IovsPartitioned`: `Spec => []IovPartition` (`BufInv`). What `w_rx()` allocates and
  does not use goes back to the pool in another order; the lemmas are about the
  helpers `Select`, `Without` and `Reversed` of `SockBackend`.
- `DatagramsInOrder`: `Spec => []InOrder` (`RxInv`, a chain of numbers from the last
  one read through the kernel's queue to the last one that arrived).
- `TransmitsInOrder`: `Spec => []TxInOrder` (`TxInv`).
- `RecvfromNeverWaits`: `Spec => []RxNoWait` (`EvInv`: in the loop of `inetd.c`, what
  `b->fds` names has data when `w_rx()` is called).

### Hash table (`KhashResizeProofs`, `KhashProofs`)

For any sets of sockets and tuples, any hash function and tables of any size:

- `CountersCount`, `GetsFind`, `AllClosed`: `Spec` implies that `CountsRight`,
  `GetFinds` and `CleanupClosesAll` always hold.
- `LoopsShrink`: `Spec => WorkShrinks`.
- `TableIsMap`: `Spec => MapSpec`, the refinement of `KhMap`.

All rest on the invariant `KhInv`. Its parts need each other: sizes are powers of two
(`Shape`); the counters count old buckets, new buckets and the element in hand
(`Counts`); no two elements have the same tuple (`Held`); the probe for an element
comes to its bucket before it comes to an empty one (`Probed`); a resize and the loop of
`backend_cleanup()` have nothing live behind them (`Swept`); and a `kh_put()` that
is past its resize finds an empty bucket (`Phase`). Three facts carry the argument:

- `SlotCovers`: with triangular steps the first `n` probes look at `n` different
  buckets if `n` is a power of two. Two equal remainders would make `n` divide the
  product of two numbers of which one is odd and both are below `2n`. `PowerOfTwo` says
  that a number has no odd divisor but 1; `RoundUpFacts` shows that `kroundup32` finds one.
- `Enough`: when `kh_put()` calls `kh_resize()`, the new size always has room. The branch
  of `kh_resize()` that refuses ("requested size is too small") is never taken from
  there, and a resize never shrinks a table.
- `ReachKept`: a bucket that changes from live to deleted, or from empty to live, cuts
  no probe short.

### Engines (`EngineProofs`)

For any lists of addresses and any finite set of engines:

- `InBounds`: `Spec => []StoresInBounds`, and `SourceAddress`:
  `Spec => []SourceIsIp4`. The inductive invariant adds that `addr4_pos` is the last
  element while the loop runs: then `addr6_pos <= addr4_pos`, which the loop tests,
  keeps stores in the array, and a store of an IPv6 address reaches the element of
  the IPv4 address only when it is the last one there is room for.
- `AddrsFound`: `Spec => []AllFound`. `FoundInv` says where the first `k` addresses are
  after `k` passes (`Slot`), if the list did not change since it was counted.
- `EnginesListed`: `Spec => []ListIsLive`. `Chained` says that the engines in use are a
  sequence without repetition that starts at the head and follows `next`. That walking
  the pointers (`Listed`) reaches exactly those is an induction along the sequence,
  done by a least counterexample; that the set of engines is finite is used here.

### Smaller parts (`LibraryProofs`)

`Neighbor`, for all sets of engines and MAC addresses, both protocols and any
number of frames under way, from the assumption that every MAC address belongs to
one engine:

- `NeighborType`: `Spec => []TypeOK`.
- `FramesToOwner`: `Spec => []SentToOwner`. The inductive invariant says of every
  copy of a MAC address (in a frame, a cache, a socket, `last_mac`) that it belongs
  to the address it is stored for. `last_mac` is the exception while `mk_eth_hdr()`
  is in `who_has()`: there the invariant says that the lookup is for `last_addr`, so
  that the two agree again when it returns.

`InCksum`, for all 32-bit sums: a round of folding keeps the sum modulo 65535 and
makes none zero, so two rounds give the word that represents the sum.

- `LoopEnds`: the result has 16 bits, and a further round changes nothing.
- `CksumAccepted`: what the sender stores makes the receiver's computation come out as 0.
- `CksumMisses`: a change is accepted exactly if it changes the sum by a multiple of
  65535, also if it changes what is summed, as that of a length does.
- `CksumDetects`: a single word, the others that are summed staying the same, can only be
  changed from all zeros to all ones or back. This is not about lengths.

That the sum of the words of a packet is the one these theorems are about is checked
by run `packet` against a reference definition, not proved.

`TailQueue`, for any heap, queues and contents: `InsertTail`, `InsertHead`,
`RemoveHead` and `Concat` say what an operation does to the sequence a queue stands
for, `OthersKept` that it leaves the others alone if they have no element in common
with it. This condition is `QueuesSound` of run `flights`.

`RandUniform`, for any word size and bound: `RangeExact`, `RetryLikely` (fewer than half
of the words are drawn again), `OneWordTooMany`, `PortsUsable`.

`SockAddr`, for any hash of bytes: `AddrHashRespectsCmp`, `TupleHashRespectsCmp` and
`TupleCmpEquivalence`, the contract that `khash.h` needs of its two macros;
`PeerPortNotHashed`; `SockaddrRoundTrip`.

### Only model-checked

- Liveness, which is out of the prover's reach: `TxReturns`, `EthTxAndFreeReturns`,
  `RxEventually`, `WhoHasReturns`, `LoopsEnd`. That calls on the hash table end is stated
  without fairness instead: `WorkShrinks` gives a number that each of their steps
  decreases, and that is proved.
- `NetsRight` and all of `Packet`: the operations on bits have no theory in the provers.
- `Flights` with `Inetd` and `Ping`: `QueuesSound`, `OneFlight`, `PoolLeft` and
  `FailsOnlyLate` rest on sums over queues (the bytes of a flight, the w_iovs of all
  queues), which are folds. What a fold computes for every sequence cannot be proved, as
  the induction theorems for data have a parameter that the provers do not
  instantiate. Where a proof above needs induction over numbers, it takes the least
  counterexample.

## Not modelled

- The poll variant of the socket backend: its first `w_nic_rx()` writes through a
  pointer that was never allocated, so nothing can be said of what follows.
- Code that no build compiles: the SSE variants of the checksum,
  `ip_cksum_update16/32()`.
- What `queue.h` and `khash.h` offer and warpcore does not use: doubly-linked lists,
  `sq_remove()`, swaps, `kh_clear()`.
- Offsets into buffers: `inetd` and `ping` pass none.
- The bytes of port unreachable messages and of ICMPv6 errors; IPv4 options and
  fragments, IPv6 extension headers, which the code drops or does not look for.
- Logging and its rate limit (`util.h:258`, whose counter is not static, so that it
  never applies), formatting of addresses, statistics and arguments of the programs.
- Time: `timespec_sub()` and the like; timers are events. The generators of random
  numbers return any word.
- The queries of the operating system in `plat.c`, except that a link may be down;
  `backend_init()` of RIOT.
- `ins_sock()` going on after a failing allocation, and errors after which `ensure()`
  aborts. `connect()` of the kernel is one step.
