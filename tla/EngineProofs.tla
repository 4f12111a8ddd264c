---------------------------- MODULE EngineProofs ----------------------------
(***************************************************************************)
(* Proofs about Engine: where backend_addr_config() stores addresses, for  *)
(* any number of addresses and any change between the two times that the   *)
(* operating system is asked for them; that it stores all of them when     *)
(* there is no change; and the list of engines, for any finite number.     *)
(***************************************************************************)
EXTENDS Engine, TLAPS

\* The bounds that the loop of backend_addr_config() keeps: while it runs,
\* w->addr4_pos is the last element, so that addr6_pos <= w->addr4_pos keeps both
\* kinds of stores inside.
Inv ==
    /\ addr_cnt \in Nat \ {0} /\ addr6_pos \in Nat
    /\ addr4_pos \in 0 .. addr_cnt - 1
    /\ at = "config" => addr4_pos = addr_cnt - 1
    /\ StoresInBounds
    /\ SourceIsIp4

\* No engine yet.
LEMMA InvInit == Init => Inv
BY SMTT(60) DEF Init, Inv, StoresInBounds, SourceIsIp4

\* w_init() allocates as many elements as it counted addresses.
LEMMA CountInv ==
    ASSUME NEW f, NEW e, NEW c \in Lists, NEW up, Inv, InitCount(f, e, c, up)
    PROVE  Inv'
<1>1. AddrCnt(c, up) \in Nat \ {0}
  BY ConstAssumption DEF InitCount, AddrCnt
<1>2. /\ addr_cnt' = AddrCnt(c, up) /\ addr6_pos' = 0 /\ addr4_pos' = 0
      /\ at' = "alloc" /\ have_ip4' = FALSE
      /\ ifaddr' = [n \in 0 .. AddrCnt(c, up) - 1 |-> None]
  BY Zenon DEF InitCount
<1> QED
  BY <1>1, <1>2 DEF Inv, StoresInBounds, SourceIsIp4

\* backend_addr_config() begins with the last element for IPv4.
LEMMA ConfigBeginInv ==
    ASSUME NEW c \in Lists, Inv, ConfigBegin(c), at = "alloc" => ~have_ip4
    PROVE  Inv'
BY DEF ConfigBegin, Addr4Pos, Inv, StoresInBounds, SourceIsIp4

\* An IPv6 address is stored only up to addr4_pos.
LEMMA ConfigIp6Inv == Inv /\ ConfigIp6 => Inv'
<1> SUFFICES ASSUME Inv, ConfigIp6 PROVE Inv'
  BY Zenon
<1>1. /\ addr_cnt' = addr_cnt /\ addr4_pos' = addr4_pos /\ at' = at
      /\ have_ip4' = have_ip4 /\ addr6_pos' = addr6_pos + 1
      /\ ifaddr' = Store(addr6_pos, list[i]) /\ at = "config"
  BY Zenon DEF ConfigIp6
<1>2. addr6_pos \in 0 .. addr_cnt - 1
  BY DEF ConfigIp6, TooMany, Inv
<1>3. StoresInBounds'
  BY Zenon, <1>1, <1>2 DEF Inv, StoresInBounds, Store
<1>4. SourceIsIp4'
  BY <1>1, <1>2 DEF Inv, StoresInBounds, SourceIsIp4, Store
<1> QED
  BY <1>1, <1>3, <1>4 DEF Inv

\* An IPv4 address is stored at addr4_pos, which stays where it is.
LEMMA ConfigIp4Inv == Inv /\ ConfigIp4 => Inv'
<1> SUFFICES ASSUME Inv, ConfigIp4 PROVE Inv'
  BY Zenon
<1>1. /\ addr_cnt' = addr_cnt /\ addr4_pos' = addr4_pos /\ at' = at
      /\ addr6_pos' = addr6_pos /\ ifaddr' = Store(addr4_pos, list[i])
      /\ list[i] \in Addr4
  BY Zenon DEF ConfigIp4
<1>2. StoresInBounds'
  BY Zenon, <1>1 DEF Inv, StoresInBounds, Store
<1>3. SourceIsIp4'
  BY Zenon, <1>1 DEF Inv, StoresInBounds, SourceIsIp4, Store
<1> QED
  BY Zenon, <1>1, <1>2, <1>3 DEF Inv

\* w_cleanup() frees the array.
LEMMA CleanupInv ==
    ASSUME NEW e, Inv, Cleanup(e)
    PROVE  Inv'
<1>1. /\ addr_cnt' = 1 /\ addr6_pos' = 0 /\ addr4_pos' = 0 /\ at' = "off"
      /\ have_ip4' = FALSE /\ ifaddr' = [n \in 0 .. 0 |-> None]
  BY Zenon DEF Cleanup
<1> QED
  BY <1>1 DEF Inv, StoresInBounds, SourceIsIp4

\* calloc() leaves have_ip4 clear until the addresses are stored.
Fresh == at = "alloc" => ~have_ip4

\* Every step keeps have_ip4 clear until then.
LEMMA FreshNext == Fresh /\ [Next]_vars => Fresh'
<1> SUFFICES ASSUME Fresh, [Next]_vars PROVE Fresh'
  BY Zenon
<1>1. CASE \E f \in Iface : InitRefused(f)
  BY Zenon, <1>1 DEF Fresh, InitRefused
<1>2. CASE \E f \in Iface, e \in Eng, c \in Lists, up \in LinkStates : InitCount(f, e, c, up)
  BY Zenon, <1>2 DEF Fresh, InitCount
<1>3. CASE \E c \in Lists : ConfigBegin(c)
  BY Zenon, <1>3 DEF Fresh, ConfigBegin
<1>4. CASE ConfigLink \/ ConfigIp6 \/ ConfigIp4 \/ InitDone
  BY Zenon, <1>4 DEF Fresh, ConfigLink, ConfigIp6, ConfigIp4, InitDone
<1>5. CASE \E e \in Eng : Cleanup(e)
  BY Zenon, <1>5 DEF Fresh, Cleanup
<1>6. CASE UNCHANGED vars
  BY Zenon, <1>6 DEF Fresh, vars, addrVars
<1> QED
  BY Zenon, <1>1, <1>2, <1>3, <1>4, <1>5, <1>6 DEF Next

\* Every step keeps the bounds.
LEMMA InvNext == Inv /\ Fresh /\ [Next]_vars => Inv'
<1> SUFFICES ASSUME Inv, Fresh, [Next]_vars PROVE Inv'
  BY Zenon
<1>1. ASSUME NEW f \in Iface, InitRefused(f) PROVE Inv'
  BY Zenon, <1>1 DEF InitRefused, addrVars, Inv, StoresInBounds, SourceIsIp4
<1>2. ASSUME NEW f \in Iface, NEW e \in Eng, NEW c \in Lists, NEW up \in LinkStates,
             InitCount(f, e, c, up)
      PROVE  Inv'
  BY Zenon, <1>2, CountInv
<1>3. ASSUME NEW c \in Lists, ConfigBegin(c) PROVE Inv'
  BY Zenon, <1>3, ConfigBeginInv DEF Fresh
<1>4. CASE ConfigLink
  BY Zenon, <1>4 DEF ConfigLink, Inv, StoresInBounds, SourceIsIp4
<1>5. CASE ConfigIp6
  BY Zenon, <1>5, ConfigIp6Inv
<1>6. CASE ConfigIp4
  BY Zenon, <1>6, ConfigIp4Inv
<1>7. CASE InitDone
  BY Zenon, <1>7 DEF InitDone, addrVars, Inv, StoresInBounds, SourceIsIp4
<1>8. ASSUME NEW e \in Eng, Cleanup(e) PROVE Inv'
  BY Zenon, <1>8, CleanupInv
<1>9. CASE UNCHANGED vars
  BY Zenon, <1>9 DEF vars, addrVars, Inv, StoresInBounds, SourceIsIp4
<1> QED
  BY Zenon, <1>1, <1>2, <1>3, <1>4, <1>5, <1>6, <1>7, <1>8, <1>9 DEF Next

\* So they hold in every state.
LEMMA InvAlways == Spec => [](Inv /\ Fresh)
<1>1. Init => Inv /\ Fresh
  BY Zenon, InvInit DEF Init, Fresh
<1>2. Inv /\ Fresh /\ [Next]_vars => (Inv /\ Fresh)'
  BY Zenon, InvNext, FreshNext
<1> QED
  BY <1>1, <1>2, PTL DEF Spec

\* backend_addr_config() never stores an address outside of w->ifaddr, for any lists
\* of addresses at the two times they are read.
THEOREM InBounds == Spec => []StoresInBounds
<1>1. Inv /\ Fresh => StoresInBounds
  BY Zenon DEF Inv
<1> QED
  BY <1>1, InvAlways, PTL

\* The element of w->ifaddr that mk_ip4_hdr() and arp_who_has() use is an IPv4
\* address, unless IPv6 addresses fill the whole array.
THEOREM SourceAddress == Spec => []SourceIsIp4
<1>1. Inv /\ Fresh => SourceIsIp4
  BY Zenon DEF Inv
<1> QED
  BY <1>1, InvAlways, PTL

-----------------------------------------------------------------------------
(* Addresses that are the same both times.                                 *)

\* At most one address is of IPv4.
One4 == \A m, n \in 1 .. Len(seen) : seen[m] \in Addr4 /\ seen[n] \in Addr4 => m = n

\* w_init() found the same addresses twice, at most one of them of IPv4.
Same == list = <<Link>> \o seen /\ One4

\* There is an IPv4 address among the first k.
Four(k) == \E p \in 1 .. k : seen[p] \in Addr4

\* Where backend_addr_config() stores the k-th address.
Slot(k) == IF seen[k] \in Addr4 THEN addr_cnt - 1 ELSE IF Four(k) THEN k - 2 ELSE k - 1

\* After the first k addresses: each is where it belongs, addr6_pos counts those of
\* IPv6, and have_ip4 and have_ip6 say which kinds there were.
Stored(k) ==
    /\ k \in 0 .. Len(seen)
    /\ addr6_pos = IF Four(k) THEN k - 1 ELSE k
    /\ \A n \in 1 .. k : ifaddr[Slot(n)] = seen[n]
    /\ have_ip4 <=> Four(k)
    /\ have_ip6 <=> \E n \in 1 .. k : seen[n] \in Addr6

\* What backend_addr_config() has stored, in terms of where it is in its list.
FoundInv ==
    /\ seen \in Seq(Addr) /\ i \in Nat \ {0}
    /\ at \in {"off", "refused", "alloc", "config", "done"}
    /\ at \in {"alloc", "config", "done"} => addr_cnt = Len(seen) /\ addr_cnt # 0
    /\ at = "alloc" => have_ip4 = FALSE /\ have_ip6 = FALSE
    /\ at \in {"config", "done"} =>
         /\ addr4_pos = addr_cnt - 1
         /\ i = 1 => addr6_pos = 0 /\ have_ip4 = FALSE /\ have_ip6 = FALSE
         /\ Same /\ i > 1 => Stored(i - 2)
    /\ at = "done" /\ Same => i = Len(seen) + 2

\* The k-th address of the second list is the one before it in the first.
LEMMA SameList ==
    ASSUME seen \in Seq(Addr), Same
    PROVE  /\ Len(seen) \in Nat /\ Len(list) = Len(seen) + 1 /\ list[1] = Link
           /\ \A k \in 1 .. Len(seen) : list[k + 1] = seen[k] /\ seen[k] \in Addr
  BY DEF Same

\* No two addresses are stored in one place.
LEMMA SlotsApart ==
    ASSUME seen \in Seq(Addr), One4, addr_cnt = Len(seen),
           NEW j \in 1 .. Len(seen), NEW k \in 1 .. Len(seen), j < k
    PROVE  Slot(j) # Slot(k)
  <1>1. Len(seen) \in Nat
    OBVIOUS
  <1>2. CASE seen[j] \in Addr4
    <2>1. seen[k] \notin Addr4 /\ Four(k)
      BY <1>1, <1>2 DEF One4, Four
    <2> QED
      BY <1>1, <1>2, <2>1 DEF Slot
  <1>3. CASE seen[j] \notin Addr4 /\ seen[k] \in Addr4
    <2>1. ~Four(j) \/ Four(j)
      BY Zenon
    <2> QED
      BY <1>1, <1>3 DEF Slot
  <1>4. CASE seen[j] \notin Addr4 /\ seen[k] \notin Addr4
    <2>1. Four(j) => Four(k)
      BY <1>1 DEF Four
    <2>2. Four(k) /\ ~Four(j) => k > j + 1
      BY <1>1, <1>4 DEF Four
    <2> QED
      BY <1>1, <1>4, <2>1, <2>2 DEF Slot
  <1> QED
    BY Zenon, <1>2, <1>3, <1>4

\* The next address is stored where it belongs, and nothing else is overwritten.
LEMMA StoreNext ==
    ASSUME seen \in Seq(Addr), One4, addr_cnt = Len(seen), DOMAIN ifaddr = 0 .. addr_cnt - 1,
           NEW k \in Nat, k < Len(seen), Stored(k),
           ifaddr' = Store(Slot(k + 1), seen[k + 1]), UNCHANGED <<seen, addr_cnt>>
    PROVE  \A n \in 1 .. k + 1 : ifaddr'[Slot(n)] = seen[n]
  <1>1. Len(seen) \in Nat
    OBVIOUS
  <1>2. \A n \in 1 .. k : Slot(n) # Slot(k + 1)
    BY <1>1, SlotsApart
  <1>3. \A n \in 1 .. k : Slot(n) \in 0 .. addr_cnt - 1
    <2> SUFFICES ASSUME NEW n \in 1 .. k PROVE Slot(n) \in 0 .. addr_cnt - 1
      BY Zenon
    <2>1. CASE seen[n] \in Addr4
      BY <1>1, <2>1 DEF Slot
    <2>2. CASE seen[n] \notin Addr4
      <3>1. Four(n) => n >= 2
        BY <2>2 DEF Four
      <3> QED
        BY <1>1, <2>2, <3>1 DEF Slot
    <2> QED
      BY Zenon, <2>1, <2>2
  <1>4. \A n \in 1 .. k : ifaddr[Slot(n)] = seen[n]
    BY Zenon DEF Stored
  <1>5. ifaddr'[Slot(k + 1)] = seen[k + 1]
    BY Zenon DEF Store
  <1>6. \A n \in 1 .. k : ifaddr'[Slot(n)] = seen[n]
    <2> SUFFICES ASSUME NEW n \in 1 .. k PROVE ifaddr'[Slot(n)] = seen[n]
      BY Zenon
    <2> HIDE DEF Slot
    <2>1. Slot(n) \in DOMAIN ifaddr /\ Slot(n) # Slot(k + 1)
      BY Zenon, <1>2, <1>3
    <2> QED
      BY Zenon, <1>4, <2>1 DEF Store
  <1>7. \A n \in 1 .. k + 1 : n \in 1 .. k \/ n = k + 1
    OBVIOUS
  <1> QED
    BY Zenon, <1>5, <1>6, <1>7

\* The address that backend_addr_config() is at, if it is not at the AF_LINK entry.
LEMMA NextAddr ==
    ASSUME FoundInv, at = "config", Same, i <= Len(list), list[i] # Link
    PROVE  /\ i - 2 \in Nat /\ i - 2 < Len(seen) /\ Len(seen) \in Nat /\ i = (i - 2) + 2
           /\ Stored(i - 2) /\ list[i] = seen[(i - 2) + 1]
  <1>1. /\ Len(seen) \in Nat /\ Len(list) = Len(seen) + 1 /\ list[1] = Link
        /\ \A n \in 1 .. Len(seen) : list[n + 1] = seen[n]
    BY Zenon, SameList DEF FoundInv
  <1>2. i \in Nat \ {0} /\ (i > 1 => Stored(i - 2))
    BY Zenon DEF FoundInv
  <1>3. i # 1
    BY Zenon, <1>1
  <1>4. i - 1 \in 1 .. Len(seen) /\ i - 1 + 1 = i /\ (i - 2) + 1 = i - 1
    BY <1>1, <1>2, <1>3
  <1> QED
    BY <1>1, <1>2, <1>3, <1>4

\* An IPv6 address goes to w->ifaddr[addr6_pos].
LEMMA FoundIp6 ==
    ASSUME FoundInv, DOMAIN ifaddr = 0 .. addr_cnt - 1, ConfigIp6, ConstAssumption
    PROVE  FoundInv'
  <1>1. /\ at = "config" /\ at' = at /\ seen' = seen /\ list' = list /\ i' = i + 1
        /\ addr_cnt' = addr_cnt /\ addr4_pos' = addr4_pos /\ addr6_pos' = addr6_pos + 1
        /\ have_ip4' = have_ip4 /\ have_ip6' = TRUE /\ ifaddr' = Store(addr6_pos, list[i])
        /\ i <= Len(list) /\ list[i] \in Addr6
    BY Zenon DEF ConfigIp6
  <1>2. /\ seen \in Seq(Addr) /\ i \in Nat \ {0} /\ addr_cnt = Len(seen) /\ addr_cnt # 0
        /\ addr4_pos = addr_cnt - 1 /\ Same /\ i > 1 => Stored(i - 2)
    BY Zenon, <1>1 DEF FoundInv
  <1>3. ASSUME Same PROVE Stored(i - 2)'
    <2> DEFINE k == i - 2
    <2>2. k \in Nat /\ k < Len(seen) /\ Stored(k) /\ list[i] = seen[k + 1] /\ i = k + 2
          /\ Len(seen) \in Nat
      BY Zenon, <1>1, <1>3, NextAddr, ConstAssumption DEF Addr
    <2> HIDE DEF k
    <2>3. seen[k + 1] \in Addr6 /\ seen[k + 1] \notin Addr4
      BY Zenon, <1>1, <2>2, ConstAssumption
    <2>4. Four(k + 1) <=> Four(k)
      BY <2>2, <2>3 DEF Four
    <2>5. addr6_pos = Slot(k + 1)
      BY <2>2, <2>3, <2>4 DEF Slot, Stored
    <2>6. One4
      BY Zenon, <1>3 DEF Same
    <2>7. \A n \in 1 .. k + 1 : ifaddr'[Slot(n)] = seen[n]
      BY Zenon, <1>1, <1>2, <2>2, <2>5, <2>6, StoreNext
    <2>8. \A n : (Four(n)' <=> Four(n)) /\ Slot(n)' = Slot(n)
      BY Zenon, <1>1 DEF Four, Slot
    <2>9. (\E n \in 1 .. k + 1 : seen[n] \in Addr6) /\ k + 1 \in 0 .. Len(seen)
      BY <2>2, <2>3
    <2>10. addr6_pos' = IF Four(k + 1) THEN k ELSE k + 1
      BY <1>1, <2>2, <2>4 DEF Stored
    <2>11. have_ip4' <=> Four(k + 1)
      BY Zenon, <1>1, <2>2, <2>4 DEF Stored
    <2>12. i' - 2 = k + 1
      BY <1>1, <2>2
    <2>13. addr6_pos' = IF Four(k + 1) THEN (k + 1) - 1 ELSE k + 1
      BY <2>2, <2>10
    <2> QED
      BY Zenon, <1>1, <2>7, <2>8, <2>9, <2>10, <2>11, <2>12, <2>13 DEF Stored
  <1>4. Same' => Same
    BY Zenon, <1>1 DEF Same, One4
  <1>5. i + 1 > 1 /\ i + 1 \in Nat \ {0} /\ i + 1 # 1
    BY <1>2
  <1> QED
    BY Zenon, <1>1, <1>2, <1>3, <1>4, <1>5 DEF FoundInv

\* An IPv4 address goes to w->ifaddr[w->addr4_pos].
LEMMA FoundIp4 ==
    ASSUME FoundInv, DOMAIN ifaddr = 0 .. addr_cnt - 1, ConfigIp4
    PROVE  FoundInv'
  <1>1. /\ at = "config" /\ at' = at /\ seen' = seen /\ list' = list /\ i' = i + 1
        /\ addr_cnt' = addr_cnt /\ addr4_pos' = addr4_pos /\ addr6_pos' = addr6_pos
        /\ have_ip4' = TRUE /\ have_ip6' = have_ip6 /\ ifaddr' = Store(addr4_pos, list[i])
        /\ i <= Len(list) /\ list[i] \in Addr4
    BY Zenon DEF ConfigIp4
  <1>2. /\ seen \in Seq(Addr) /\ i \in Nat \ {0} /\ addr_cnt = Len(seen) /\ addr_cnt # 0
        /\ addr4_pos = addr_cnt - 1 /\ (Same /\ i > 1 => Stored(i - 2))
    BY Zenon, <1>1 DEF FoundInv
  <1>3. ASSUME Same PROVE Stored(i - 2)'
    <2> DEFINE k == i - 2
    <2>2. k \in Nat /\ k < Len(seen) /\ Stored(k) /\ list[i] = seen[k + 1] /\ i = k + 2
          /\ Len(seen) \in Nat
      BY Zenon, <1>1, <1>3, NextAddr, ConstAssumption DEF Addr
    <2> HIDE DEF k
    <2>3. seen[k + 1] \in Addr4 /\ seen[k + 1] \notin Addr6
      BY Zenon, <1>1, <2>2, ConstAssumption
    <2>4. One4
      BY Zenon, <1>3 DEF Same
    <2>5. Four(k + 1) /\ ~Four(k)
      BY <2>2, <2>3, <2>4 DEF Four, One4
    <2>6. addr4_pos = Slot(k + 1)
      BY Zenon, <1>2, <2>3 DEF Slot
    <2>7. \A n \in 1 .. k + 1 : ifaddr'[Slot(n)] = seen[n]
      BY Zenon, <1>1, <1>2, <2>2, <2>4, <2>6, StoreNext
    <2>8. \A n : (Four(n)' <=> Four(n)) /\ Slot(n)' = Slot(n)
      BY Zenon, <1>1 DEF Four, Slot
    <2>9. k + 1 \in 0 .. Len(seen)
      BY <2>2
    <2>10. addr6_pos' = IF Four(k + 1) THEN (k + 1) - 1 ELSE k + 1
      BY <1>1, <2>2, <2>5 DEF Stored
    <2>11. have_ip6' <=> \E n \in 1 .. k + 1 : seen[n] \in Addr6
      <3>1. (\E n \in 1 .. k : seen[n] \in Addr6) <=> \E n \in 1 .. k + 1 : seen[n] \in Addr6
        BY <2>2, <2>3
      <3> QED
        BY Zenon, <1>1, <2>2, <3>1 DEF Stored
    <2>12. i' - 2 = k + 1
      BY <1>1, <2>2
    <2> QED
      BY ZenonT(60), <1>1, <2>5, <2>7, <2>8, <2>9, <2>10, <2>11, <2>12 DEF Stored
  <1>4. Same' => Same
    BY Zenon, <1>1 DEF Same, One4
  <1>5. i + 1 > 1 /\ i + 1 \in Nat \ {0} /\ i + 1 # 1
    BY <1>2
  <1> QED
    BY Zenon, <1>1, <1>2, <1>3, <1>4, <1>5 DEF FoundInv

\* The AF_LINK entry comes first, and stores no address.
LEMMA FoundLink ==
    ASSUME FoundInv, ConfigLink
    PROVE  FoundInv'
  <1>1. /\ at = "config" /\ at' = at /\ seen' = seen /\ list' = list /\ i' = i + 1
        /\ addr_cnt' = addr_cnt /\ addr4_pos' = addr4_pos /\ addr6_pos' = addr6_pos
        /\ have_ip4' = have_ip4 /\ have_ip6' = have_ip6 /\ ifaddr' = ifaddr
        /\ i <= Len(list) /\ list[i] = Link
    BY Zenon DEF ConfigLink
  <1>2. /\ seen \in Seq(Addr) /\ i \in Nat \ {0} /\ addr_cnt = Len(seen) /\ addr_cnt # 0
        /\ addr4_pos = addr_cnt - 1
        /\ i = 1 => addr6_pos = 0 /\ have_ip4 = FALSE /\ have_ip6 = FALSE
    BY Zenon, <1>1 DEF FoundInv
  <1>3. ASSUME Same PROVE Stored(i - 2)'
    <2>1. /\ Len(seen) \in Nat /\ Len(list) = Len(seen) + 1
          /\ \A n \in 1 .. Len(seen) : list[n + 1] = seen[n] /\ seen[n] \in Addr
      BY Zenon, <1>2, <1>3, SameList
    <2>2. i = 1
      <3>1. i # 1 => i - 1 \in 1 .. Len(seen) /\ (i - 1) + 1 = i
        BY <1>1, <1>2, <2>1
      <3>2. i # 1 => list[i] \in Addr
        BY Zenon, <2>1, <3>1
      <3> QED
        BY Zenon, <1>1, <3>2, ConstAssumption
    <2>3. i' - 2 = 0
      BY <1>1, <2>2
    <2>4. ~Four(0)' /\ 0 \in 0 .. Len(seen)
      BY <2>1 DEF Four
    <2> QED
      BY <1>1, <1>2, <2>2, <2>3, <2>4 DEF Stored
  <1>4. Same' => Same
    BY Zenon, <1>1 DEF Same, One4
  <1>5. i + 1 > 1 /\ i + 1 \in Nat \ {0} /\ i + 1 # 1
    BY <1>2
  <1> QED
    BY Zenon, <1>1, <1>2, <1>3, <1>4, <1>5 DEF FoundInv

\* When the loop ends, every address is stored: addr6_pos does not pass
\* w->addr4_pos before that.
LEMMA FoundDone ==
    ASSUME FoundInv, InitDone, addr6_pos \in Nat
    PROVE  FoundInv'
  <1>1. /\ at = "config" /\ at' = "done" /\ UNCHANGED addrVars /\ (i > Len(list) \/ TooMany)
    BY Zenon DEF InitDone
  <1>2. /\ seen' = seen /\ list' = list /\ i' = i
        /\ addr_cnt' = addr_cnt /\ addr4_pos' = addr4_pos /\ addr6_pos' = addr6_pos
        /\ have_ip4' = have_ip4 /\ have_ip6' = have_ip6 /\ ifaddr' = ifaddr
    BY Zenon, <1>1 DEF addrVars
  <1>3. (Same' <=> Same) /\ \A k : Stored(k)' <=> Stored(k)
    BY Zenon, <1>2 DEF Same, One4, Stored, Four, Slot
  <1>4. /\ i \in Nat \ {0} /\ addr_cnt = Len(seen) /\ addr_cnt # 0 /\ seen \in Seq(Addr)
        /\ addr4_pos = addr_cnt - 1
        /\ i = 1 => addr6_pos = 0
        /\ Same /\ i > 1 => Stored(i - 2)
    BY Zenon, <1>1 DEF FoundInv
  <1>5. ASSUME Same PROVE i = Len(seen) + 2
    <2>1. Len(seen) \in Nat /\ Len(list) = Len(seen) + 1
      BY Zenon, <1>4, <1>5, SameList
    <2>2. i # 1
      BY <1>1, <1>4, <2>1 DEF TooMany
    <2>3. i - 2 \in 0 .. Len(seen) /\ addr6_pos <= i - 2
      BY <1>4, <1>5, <2>2 DEF Stored
    <2> QED
      BY <1>1, <1>4, <2>1, <2>2, <2>3 DEF TooMany
  <1> QED
    BY Zenon, <1>1, <1>2, <1>3, <1>4, <1>5 DEF FoundInv

\* Every step keeps FoundInv.
LEMMA FoundNext == Inv /\ FoundInv /\ [Next]_vars => FoundInv'
  <1> SUFFICES ASSUME Inv, FoundInv, [Next]_vars PROVE FoundInv'
    BY Zenon
  <1>0. DOMAIN ifaddr = 0 .. addr_cnt - 1 /\ addr6_pos \in Nat
    BY Zenon DEF Inv, StoresInBounds
  <1>1. ASSUME UNCHANGED addrVars, at' \in {at, "refused"} PROVE FoundInv'
    <2>1. /\ seen' = seen /\ list' = list /\ i' = i
          /\ addr_cnt' = addr_cnt /\ addr4_pos' = addr4_pos /\ addr6_pos' = addr6_pos
          /\ have_ip4' = have_ip4 /\ have_ip6' = have_ip6 /\ ifaddr' = ifaddr
      BY Zenon, <1>1 DEF addrVars
    <2>2. (Same' <=> Same) /\ \A k : Stored(k)' <=> Stored(k)
      BY Zenon, <2>1 DEF Same, One4, Stored, Four, Slot
    <2> QED
      BY Zenon, <1>1, <2>1, <2>2 DEF FoundInv
  <1>2. ASSUME NEW f \in Iface, InitRefused(f) PROVE FoundInv'
    BY Zenon, <1>1, <1>2 DEF InitRefused
  <1>3. ASSUME NEW f \in Iface, NEW e \in Eng, NEW c \in Lists, NEW up \in LinkStates,
               InitCount(f, e, c, up)
        PROVE  FoundInv'
    <2>1. c \in Seq(Addr) /\ (AddrCnt(c, up) # 0 => AddrCnt(c, up) = Len(c))
      BY Zenon, ConstAssumption DEF AddrCnt
    <2>2. /\ at' = "alloc" /\ AddrCnt(c, up) # 0 /\ addr_cnt' = AddrCnt(c, up) /\ seen' = c
          /\ have_ip4' = FALSE /\ have_ip6' = FALSE /\ i' = 1
      BY Zenon, <1>3 DEF InitCount
    <2> QED
      BY <2>1, <2>2 DEF FoundInv
  <1>4. ASSUME NEW c \in Lists, ConfigBegin(c) PROVE FoundInv'
    BY <1>4 DEF ConfigBegin, Addr4Pos, FoundInv
  <1>5. CASE ConfigLink
    BY Zenon, <1>5, FoundLink
  <1>6. CASE ConfigIp6
    BY Zenon, <1>0, <1>6, FoundIp6, ConstAssumption
  <1>7. CASE ConfigIp4
    BY Zenon, <1>0, <1>7, FoundIp4
  <1>8. CASE InitDone
    BY Zenon, <1>0, <1>8, FoundDone
  <1>9. ASSUME NEW e \in Eng, Cleanup(e) PROVE FoundInv'
    BY <1>9 DEF Cleanup, FoundInv
  <1>10. CASE UNCHANGED vars
    BY Zenon, <1>1, <1>10 DEF vars
  <1> QED
    BY Zenon, <1>2, <1>3, <1>4, <1>5, <1>6, <1>7, <1>8, <1>9, <1>10 DEF Next

\* Every element of w->ifaddr is the place of an address.
LEMMA SlotsCover ==
    ASSUME seen \in Seq(Addr), One4, addr_cnt = Len(seen), NEW n \in 0 .. addr_cnt - 1
    PROVE  \E k \in 1 .. Len(seen) : Slot(k) = n
  <1>1. Len(seen) \in Nat
    OBVIOUS
  <1>2. CASE ~Four(n + 1) /\ n < addr_cnt
    <2>1. n + 1 \in 1 .. Len(seen) /\ seen[n + 1] \notin Addr4
      BY <1>1, <1>2 DEF Four
    <2>2. Slot(n + 1) = n
      BY <1>2, <2>1 DEF Slot
    <2> QED
      BY Zenon, <2>1, <2>2
  <1>3. CASE Four(n + 1)
    <2>1. PICK p \in 1 .. n + 1 : seen[p] \in Addr4
      BY Zenon, <1>3 DEF Four
    <2>2. CASE n = addr_cnt - 1
      <3>1. p \in 1 .. Len(seen) /\ Slot(p) = n
        BY <1>1, <2>1, <2>2 DEF Slot
      <3> QED
        BY Zenon, <3>1
    <2>3. CASE n < addr_cnt - 1
      <3>1. n + 2 \in 1 .. Len(seen) /\ p \in 1 .. Len(seen) /\ p # n + 2 /\ p \in 1 .. n + 2
        BY <1>1, <2>1, <2>3
      <3>2. seen[n + 2] \notin Addr4 /\ Four(n + 2)
        BY Zenon, <2>1, <3>1 DEF One4, Four
      <3>3. Slot(n + 2) = n
        BY <3>1, <3>2 DEF Slot
      <3> QED
        BY Zenon, <3>1, <3>3
    <2> QED
      BY <1>1, <2>2, <2>3
  <1> QED
    BY <1>1, <1>2, <1>3

\* The place of an address is in w->ifaddr.
LEMMA SlotType ==
    ASSUME seen \in Seq(Addr), addr_cnt = Len(seen), NEW n \in 1 .. Len(seen)
    PROVE  Slot(n) \in 0 .. addr_cnt - 1
  <1>1. Len(seen) \in Nat
    OBVIOUS
  <1>2. CASE seen[n] \in Addr4
    BY <1>1, <1>2 DEF Slot
  <1>3. CASE seen[n] \notin Addr4
    <2>1. Four(n) => n >= 2
      BY <1>3 DEF Four
    <2> QED
      BY <1>1, <1>3, <2>1 DEF Slot
  <1> QED
    BY Zenon, <1>2, <1>3

-----------------------------------------------------------------------------
(* The list of engines.                                                    *)

\* The engines of L are c[1] to c[n], each once, and in this order from h along nx.
Chain(n, c, h, nx, L) ==
    /\ n \in Nat /\ c \in [1 .. n -> Eng]
    /\ \A j, k \in 1 .. n : c[j] = c[k] => j = k
    /\ \A e : e \in L <=> \E k \in 1 .. n : c[k] = e
    /\ h = IF n = 0 THEN None ELSE c[1]
    /\ \A k \in 1 .. n : nx[c[k]] = IF k < n THEN c[k + 1] ELSE None

\* The engines that live are in a chain from the head of the list.
Chained == \E n \in Nat : \E c \in [1 .. n -> Eng] : Chain(n, c, head, next, live)

\* What w_init() knows of an interface: the entry of AF_LINK, which is the first,
\* has told it of the loopback when the engine goes into the list.
IfaceInv ==
    /\ \A e \in live : ifname[e] \in Iface /\ (is_loopback[e] <=> ifname[e] \in Loopback)
    /\ \A e, d \in live : e # d /\ ifname[e] = ifname[d] => ifname[e] \in Loopback
    /\ at \in {"alloc", "config"} =>
         /\ w \in Eng \ live /\ ifname[w] \in Iface
         /\ \A e \in live : ifname[e] = ifname[w] => ifname[e] \in Loopback
    /\ at = "config" =>
         /\ Len(list) > 0 /\ list[1] = Link
         /\ i = 1 => addr6_pos = 0
         /\ i > 1 => (is_loopback[w] <=> ifname[w] \in Loopback)

\* sl_insert_head()
LEMMA ChainInsert ==
    ASSUME NEW n, NEW c, Chain(n, c, head, next, live), NEW e \in Eng \ live,
           next \in [Eng -> Eng \cup {None}]
    PROVE  \E m \in Nat : \E d \in [1 .. m -> Eng] :
             Chain(m, d, e, [next EXCEPT ![e] = head], live \cup {e})
  <1> DEFINE d == [k \in 1 .. n + 1 |-> IF k = 1 THEN e ELSE c[k - 1]]
             nx == [next EXCEPT ![e] = head]
  <1>1. n \in Nat /\ c \in [1 .. n -> Eng] /\ n + 1 \in Nat
    BY DEF Chain
  <1>2. \A k \in 1 .. n : c[k] \in Eng /\ c[k] \in live /\ c[k] # e
    BY Zenon, <1>1 DEF Chain
  <1>3. \A k \in 2 .. n + 1 : k - 1 \in 1 .. n /\ d[k] = c[k - 1]
    BY <1>1
  <1>4. d[1] = e /\ 1 \in 1 .. n + 1
    BY <1>1
  <1>5. d \in [1 .. n + 1 -> Eng]
    BY <1>1, <1>2
  <1>6. \A k \in 1 .. n + 1 : k = 1 \/ k \in 2 .. n + 1
    BY <1>1
  <1> HIDE DEF d
  <1>7. \A j, k \in 1 .. n + 1 : d[j] = d[k] => j = k
    <2> SUFFICES ASSUME NEW j \in 1 .. n + 1, NEW k \in 1 .. n + 1, d[j] = d[k] PROVE j = k
      BY Zenon
    <2>1. CASE j = 1 \/ k = 1
      BY Zenon, <1>2, <1>3, <1>4, <1>6, <2>1
    <2>2. CASE j # 1 /\ k # 1
      <3>1. c[j - 1] = c[k - 1] /\ j - 1 \in 1 .. n /\ k - 1 \in 1 .. n
        BY Zenon, <1>3, <1>6, <2>2
      <3>2. j - 1 = k - 1
        BY Zenon, <3>1 DEF Chain
      <3> QED
        BY <1>1, <3>2
    <2> QED
      BY Zenon, <2>1, <2>2
  <1>8. ASSUME NEW x PROVE x \in live \cup {e} <=> \E k \in 1 .. n + 1 : d[k] = x
    <2>1. ASSUME x \in live PROVE \E k \in 1 .. n + 1 : d[k] = x
      <3>1. PICK k \in 1 .. n : c[k] = x
        BY Zenon, <2>1 DEF Chain
      <3>2. k + 1 \in 2 .. n + 1 /\ k + 1 \in 1 .. n + 1 /\ (k + 1) - 1 = k
        BY <1>1
      <3> QED
        BY Zenon, <1>3, <3>1, <3>2
    <2>2. ASSUME NEW k \in 1 .. n + 1, d[k] = x PROVE x \in live \cup {e}
      BY Zenon, <1>2, <1>3, <1>4, <1>6, <2>2
    <2> QED
      BY Zenon, <1>4, <2>1, <2>2
  <1>9. ASSUME NEW k \in 1 .. n + 1
        PROVE  nx[d[k]] = IF k < n + 1 THEN d[k + 1] ELSE None
    <2>1. CASE k = 1
      <3>1. nx[e] = head /\ head = IF n = 0 THEN None ELSE c[1]
        BY Zenon DEF Chain
      <3>2. n # 0 => d[1 + 1] = c[1]
        BY <1>1, <1>3
      <3> QED
        BY <1>1, <1>4, <2>1, <3>1, <3>2
    <2>2. CASE k \in 2 .. n + 1
      <3>1. k - 1 \in 1 .. n /\ d[k] = c[k - 1] /\ (k - 1) + 1 = k
        BY <1>1, <1>3, <2>2
      <3>2. nx[c[k - 1]] = next[c[k - 1]]
        BY Zenon, <1>2, <3>1
      <3>3. next[c[k - 1]] = IF k - 1 < n THEN c[k] ELSE None
        BY Zenon, <3>1 DEF Chain
      <3>4. k < n + 1 => k + 1 \in 2 .. n + 1 /\ (k + 1) - 1 = k
        BY <1>1, <2>2
      <3>5. k < n + 1 => d[k + 1] = c[k]
        BY Zenon, <1>3, <3>4
      <3>6. k - 1 < n <=> k < n + 1
        BY <1>1, <2>2
      <3> QED
        BY Zenon, <3>1, <3>2, <3>3, <3>5, <3>6
    <2> QED
      BY Zenon, <1>6, <2>1, <2>2
  <1>10. e = IF n + 1 = 0 THEN None ELSE d[1]
    BY SMTT(60), <1>1, <1>4
  <1>11. Chain(n + 1, d, e, nx, live \cup {e})
    BY Zenon, <1>1, <1>5, <1>7, <1>8, <1>9, <1>10 DEF Chain
  <1> QED
    BY Zenon, <1>1, <1>5, <1>11

\* What sl_remove() does, with cur the engine before e.
LEMMA ChainRemove ==
    ASSUME NEW n, NEW c, Chain(n, c, head, next, live), NEW e \in live,
           next \in [Eng -> Eng \cup {None}], Listed = live, SlRemove(e)
    PROVE  \E m \in Nat : \E d \in [1 .. m -> Eng] : Chain(m, d, head', next', live \ {e})
  <1>1. n \in Nat /\ c \in [1 .. n -> Eng]
    BY Zenon DEF Chain
  <1>2. \A k \in 1 .. n : c[k] \in Eng /\ c[k] \in live
    BY Zenon, <1>1 DEF Chain
  <1>3. PICK j \in 1 .. n : c[j] = e
    BY Zenon DEF Chain
  <1>4. n - 1 \in Nat /\ j \in Nat /\ j # 0
    BY <1>1, <1>3
  <1>5. \A k \in 1 .. n : c[k] = e => k = j
    BY Zenon, <1>3 DEF Chain
  <1> DEFINE d == [k \in 1 .. n - 1 |-> IF k < j THEN c[k] ELSE c[k + 1]]
             at2(k) == IF k < j THEN k ELSE k + 1
  <1>6. \A k \in 1 .. n - 1 : d[k] = c[at2(k)] /\ at2(k) \in 1 .. n /\ at2(k) # j
    BY <1>1, <1>4
  <1>7. d \in [1 .. n - 1 -> Eng]
    BY Zenon, <1>1, <1>2, <1>6
  <1> HIDE DEF d
  <1>8. \A l, k \in 1 .. n - 1 : d[l] = d[k] => l = k
    <2> SUFFICES ASSUME NEW l \in 1 .. n - 1, NEW k \in 1 .. n - 1, d[l] = d[k] PROVE l = k
      BY Zenon
    <2>1. at2(l) = at2(k)
      <3>1. c[at2(l)] = c[at2(k)] /\ at2(l) \in 1 .. n /\ at2(k) \in 1 .. n
        BY <1>6
      <3> HIDE DEF at2
      <3> QED
        BY Zenon, <3>1 DEF Chain
    <2> QED
      BY <1>1, <1>4, <2>1
  <1>9. ASSUME NEW x PROVE x \in live \ {e} <=> \E k \in 1 .. n - 1 : d[k] = x
    <2>1. ASSUME x \in live, x # e PROVE \E k \in 1 .. n - 1 : d[k] = x
      <3>1. PICK k \in 1 .. n : c[k] = x
        BY Zenon, <2>1 DEF Chain
      <3>2. k # j
        BY Zenon, <1>3, <2>1, <3>1
      <3>3. CASE k < j
        <4>1. k \in 1 .. n - 1 /\ at2(k) = k
          BY SMTT(60), <1>1, <1>4, <3>3
        <4> QED
          BY Zenon, <1>6, <3>1, <4>1
      <3>4. CASE k > j
        <4>1. k - 1 \in 1 .. n - 1 /\ at2(k - 1) = k
          BY <1>1, <1>4, <3>4
        <4> QED
          BY Zenon, <1>6, <3>1, <4>1
      <3> QED
        BY <1>1, <1>4, <3>2, <3>3, <3>4
    <2>2. ASSUME NEW k \in 1 .. n - 1, d[k] = x PROVE x \in live \ {e}
      <3>1. x = c[at2(k)] /\ at2(k) \in 1 .. n /\ at2(k) # j
        BY Zenon, <1>6, <2>2
      <3> HIDE DEF at2
      <3> QED
        BY Zenon, <1>2, <1>5, <3>1
    <2> QED
      BY Zenon, <2>1, <2>2
  <1>10. /\ head' = IF n - 1 = 0 THEN None ELSE d[1]
         /\ \A k \in 1 .. n - 1 : next'[d[k]] = IF k < n - 1 THEN d[k + 1] ELSE None
    <2>0. \A k \in 1 .. n : next[c[k]] = IF k < n THEN c[k + 1] ELSE None
      BY Zenon DEF Chain
    <2>1. head = c[1] /\ n # 0
      BY SMTT(60), <1>1, <1>3 DEF Chain
    <2>2. CASE j = 1
      <3>1. head' = next[e] /\ next' = [next EXCEPT ![e] = None]
        BY Zenon, <1>3, <2>1, <2>2 DEF SlRemove, Successor
      <3>2. \A k \in 1 .. n - 1 : d[k] = c[k + 1] /\ k + 1 \in 1 .. n
        BY <1>1, <1>6, <2>2
      <3>3. head' = IF n - 1 = 0 THEN None ELSE d[1]
        <4>1. next[e] = IF 1 < n THEN c[1 + 1] ELSE None
          BY Zenon, <1>1, <1>3, <2>0, <2>1, <2>2
        <4>2. 1 < n => 1 \in 1 .. n - 1
          BY SMTT(60), <1>1
        <4> QED
          BY <1>1, <2>1, <3>1, <3>2, <4>1, <4>2
      <3>4. ASSUME NEW k \in 1 .. n - 1
            PROVE  next'[d[k]] = IF k < n - 1 THEN d[k + 1] ELSE None
        <4>1. d[k] = c[k + 1] /\ k + 1 \in 1 .. n /\ k + 1 # j
          BY SMTT(60), <1>1, <2>2, <3>2
        <4>2. next'[d[k]] = next[c[k + 1]]
          BY Zenon, <1>2, <1>5, <3>1, <4>1
        <4>3. next[c[k + 1]] = IF k + 1 < n THEN c[(k + 1) + 1] ELSE None
          BY Zenon, <2>0, <4>1
        <4>4. k < n - 1 => k + 1 \in 1 .. n - 1
          BY SMTT(60), <1>1
        <4>5. k < n - 1 => d[k + 1] = c[(k + 1) + 1]
          BY Zenon, <3>2, <4>4
        <4>6. k < n - 1 <=> k + 1 < n
          BY SMTT(60), <1>1
        <4> QED
          BY Zenon, <4>2, <4>3, <4>5, <4>6
      <3> QED
        BY Zenon, <3>3, <3>4
    <2>3. CASE j # 1
      <3> DEFINE cur == CHOOSE x \in Listed : next[x] = e
      <3>1. j - 1 \in 1 .. n /\ (j - 1) + 1 = j /\ j - 1 < n /\ 1 \in 1 .. n - 1 /\ 1 < j /\ 1 \in 1 .. n
        BY <1>1, <1>3, <2>3
      <3>2. cur = c[j - 1]
        <4>1. next[c[j - 1]] = e /\ c[j - 1] \in Listed
          BY Zenon, <1>2, <1>3, <2>0, <3>1
        <4>2. cur \in Listed /\ next[cur] = e
          BY Zenon, <4>1
        <4>3. PICK k \in 1 .. n : cur = c[k]
          BY Zenon, <4>2 DEF Chain
        <4>4. k < n /\ c[k + 1] = e /\ k + 1 \in 1 .. n
          <5>1. k < n
            BY Zenon, <1>1, <1>2, <1>3, <2>0, <4>2, <4>3, ConstAssumption
          <5> QED
            BY <1>1, <2>0, <4>2, <4>3, <5>1
        <4>5. k = j - 1
          BY <1>4, <1>5, <4>4
        <4> QED
          BY Zenon, <4>3, <4>5
      <3>3. head # e
        BY Zenon, <1>5, <2>1, <2>3, <3>1
      <3>4. head' = head /\ next' = [next EXCEPT ![cur] = next[e], ![e] = None]
        BY Zenon, <3>3 DEF SlRemove, Successor
      <3> HIDE DEF cur
      <3>5. head' = IF n - 1 = 0 THEN None ELSE d[1]
        BY SMTT(60), <1>1, <1>6, <2>1, <3>1, <3>4
      <3>6. ASSUME NEW k \in 1 .. n - 1
            PROVE  next'[d[k]] = IF k < n - 1 THEN d[k + 1] ELSE None
        <4>1. d[k] = c[at2(k)] /\ at2(k) \in 1 .. n /\ d[k] # e /\ d[k] \in Eng
          BY Zenon, <1>2, <1>5, <1>6
        <4>2. CASE k = j - 1
          <5>1. d[k] = cur
            BY SMTT(60), <1>4, <3>2, <4>1, <4>2
          <5>2. next'[d[k]] = next[e]
            BY Zenon, <3>4, <4>1, <5>1
          <5>3. next[e] = IF j < n THEN c[j + 1] ELSE None
            BY Zenon, <1>3, <2>0
          <5>4. k < n - 1 => k + 1 \in 1 .. n - 1 /\ at2(k + 1) = j + 1
            BY SMTT(60), <1>1, <1>4, <4>2
          <5>5. k < n - 1 => d[k + 1] = c[j + 1]
            BY <1>6, <5>4
          <5>6. k < n - 1 <=> j < n
            BY SMTT(60), <1>1, <1>4, <4>2
          <5> QED
            BY Zenon, <5>2, <5>3, <5>5, <5>6
        <4>3. CASE k # j - 1
          <5>1. at2(k) # j - 1
            BY <1>4, <4>3
          <5>2. d[k] # cur
            <6> HIDE DEF at2
            <6> QED
              BY ZenonT(60), <3>1, <3>2, <4>1, <5>1 DEF Chain
          <5>3. next'[d[k]] = next[c[at2(k)]]
            BY Zenon, <3>4, <4>1, <5>2
          <5>4. next[c[at2(k)]] = IF at2(k) < n THEN c[at2(k) + 1] ELSE None
            BY Zenon, <2>0, <4>1
          <5>5. k < n - 1 <=> at2(k) < n
            BY <1>1, <1>4, <4>3
          <5>6. k < n - 1 => k + 1 \in 1 .. n - 1 /\ at2(k + 1) = at2(k) + 1
            BY SMTT(60), <1>1, <1>4, <4>3
          <5>7. k < n - 1 => d[k + 1] = c[at2(k) + 1]
            BY SMTT(60), <1>6, <5>6
          <5> QED
            BY Zenon, <5>3, <5>4, <5>5, <5>7
        <4> QED
          BY Zenon, <4>2, <4>3
      <3> QED
        BY Zenon, <3>5, <3>6
    <2> QED
      BY Zenon, <2>2, <2>3
  <1>11. Chain(n - 1, d, head', next', live \ {e})
    BY Zenon, <1>4, <1>7, <1>8, <1>9, <1>10 DEF Chain
  <1> QED
    BY Zenon, <1>4, <1>7, <1>11

\* Every step keeps the types.
LEMMA TypeNext == IfaceInv /\ Inv' /\ TypeOK /\ [Next]_vars => TypeOK'
  <1> SUFFICES ASSUME IfaceInv, Inv', TypeOK, [Next]_vars PROVE TypeOK'
    BY Zenon
  <1>0. addr_cnt' \in Nat \ {0} /\ addr4_pos' \in 0 .. addr_cnt' - 1 /\ addr6_pos' \in Nat
    BY ZenonT(60) DEF Inv
  <1>1. ASSUME NEW f \in Iface, InitRefused(f) PROVE TypeOK'
    BY Zenon, <1>1 DEF InitRefused, listVars, addrVars, TypeOK
  <1>2. ASSUME NEW f \in Iface, NEW e \in Eng, NEW c \in Lists, NEW up \in LinkStates,
               InitCount(f, e, c, up)
        PROVE  TypeOK'
    <2>1. c \in Seq(Addr)
      BY Zenon, ConstAssumption
    <2>2. ifaddr' = [n \in 0 .. AddrCnt(c, up) - 1 |-> None]
      BY Zenon, <1>2 DEF InitCount
    <2> QED
      <3>1. /\ is_loopback' = [is_loopback EXCEPT ![e] = FALSE]
            /\ ifname' = [ifname EXCEPT ![e] = f] /\ next' = [next EXCEPT ![e] = None]
        BY Zenon, <1>2 DEF InitCount
      <3>2. is_loopback' \in [Eng -> BOOLEAN] /\ next' \in [Eng -> Eng \cup {None}]
        BY Zenon, <3>1 DEF TypeOK
      <3>3. ifname' \in [Eng -> Iface \cup {None}]
        BY Zenon, <3>1 DEF TypeOK
      <3>4. \A n \in DOMAIN ifaddr' : ifaddr'[n] \in Addr \cup {None}
        BY Zenon, <2>2
      <3>5. list' = <<>> /\ list' \in Seq(Addr \cup {Link})
        BY <1>2 DEF InitCount
      <3>6. /\ head' = head /\ live' = live /\ w' \in Eng /\ at' = "alloc" /\ seen' = c
            /\ i' = 1 /\ have_ip4' = FALSE /\ have_ip6' = FALSE
        BY Zenon, <1>2 DEF InitCount
      <3>7. i' \in Nat \ {0}
        BY <3>6
      <3> QED
        BY ZenonT(60), <1>0, <2>1, <3>2, <3>3, <3>4, <3>5, <3>6, <3>7 DEF TypeOK
  <1>3. ASSUME NEW c \in Lists, ConfigBegin(c) PROVE TypeOK'
    <2>1. <<Link>> \o c \in Seq(Addr \cup {Link})
      <3>1. <<Link>> \in Seq(Addr \cup {Link}) /\ c \in Seq(Addr \cup {Link})
        BY SMTT(60), ConstAssumption
      <3> QED
        BY ONLY <3>1
    <2> QED
      BY <1>0, <1>3, <2>1 DEF ConfigBegin, listVars, TypeOK
  <1>4. CASE ConfigLink
    <2>1. is_loopback' \in [Eng -> BOOLEAN]
      <3>1. (ifname[w] \in Loopback) \in BOOLEAN
        OBVIOUS
      <3>2. is_loopback' = [is_loopback EXCEPT ![w] = ifname[w] \in Loopback]
        BY Zenon, <1>4 DEF ConfigLink
      <3>3. is_loopback \in [Eng -> BOOLEAN]
        BY Zenon DEF TypeOK
      <3>4. ASSUME NEW b \in BOOLEAN PROVE [is_loopback EXCEPT ![w] = b] \in [Eng -> BOOLEAN]
        BY ZenonT(60), <3>3
      <3> QED
        BY Zenon, <3>1, <3>2, <3>4
    <2> QED
      BY <1>4, <2>1 DEF ConfigLink, TypeOK
  <1>5. ASSUME NEW n, ifaddr' = Store(n, list[i]), list[i] \in Addr
        PROVE  \A m \in DOMAIN ifaddr' : ifaddr'[m] \in Addr \cup {None}
    BY Zenon, <1>5 DEF TypeOK, Store
  <1>6. CASE ConfigIp6
    <2>1. \A m \in DOMAIN ifaddr' : ifaddr'[m] \in Addr \cup {None}
      BY Zenon, <1>5, <1>6 DEF ConfigIp6, Addr
    <2> QED
      BY SMTT(60), <1>0, <1>6, <2>1 DEF ConfigIp6, listVars, TypeOK
  <1>7. CASE ConfigIp4
    <2>1. \A m \in DOMAIN ifaddr' : ifaddr'[m] \in Addr \cup {None}
      BY Zenon, <1>5, <1>7 DEF ConfigIp4, Addr
    <2> QED
      BY SMTT(60), <1>0, <1>7, <2>1 DEF ConfigIp4, listVars, TypeOK
  <1>8. CASE InitDone
    <2>1. next' \in [Eng -> Eng \cup {None}]
      BY ZenonT(60), <1>8 DEF InitDone, TypeOK
    <2>2. w \in Eng
      BY Zenon, <1>8 DEF InitDone, IfaceInv
    <2> QED
      BY Zenon, <1>8, <2>1, <2>2 DEF InitDone, addrVars, TypeOK
  <1>9. ASSUME NEW e \in Eng, Cleanup(e) PROVE TypeOK'
    <2>1. head' \in Eng \cup {None} /\ next' \in [Eng -> Eng \cup {None}]
      BY Zenon, <1>9 DEF Cleanup, SlRemove, Successor, TypeOK
    <2>2. is_loopback' \in [Eng -> BOOLEAN] /\ ifname' \in [Eng -> Iface \cup {None}]
      BY Zenon, <1>9 DEF Cleanup, TypeOK
    <2>3. seen' \in Seq(Addr) /\ list' \in Seq(Addr \cup {Link})
      BY <1>9 DEF Cleanup
    <2>4. \A n \in DOMAIN ifaddr' : ifaddr'[n] \in Addr \cup {None}
      BY Zenon, <1>9 DEF Cleanup
    <2> QED
      BY Zenon, <1>0, <1>9, <2>1, <2>2, <2>3, <2>4 DEF Cleanup, TypeOK
  <1>10. CASE UNCHANGED vars
    BY Zenon, <1>10 DEF vars, listVars, addrVars, TypeOK
  <1> QED
    BY Zenon, <1>1, <1>2, <1>3, <1>4, <1>6, <1>7, <1>8, <1>9, <1>10 DEF Next

\* Every step keeps what is known of interfaces.
LEMMA IfaceNext == Inv /\ TypeOK /\ IfaceInv /\ Listed = live /\ [Next]_vars => IfaceInv'
  <1> SUFFICES ASSUME Inv, TypeOK, IfaceInv, Listed = live, [Next]_vars PROVE IfaceInv'
    BY Zenon
  <1>1. ASSUME NEW f \in Iface, InitRefused(f) PROVE IfaceInv'
    BY Zenon, <1>1 DEF InitRefused, listVars, addrVars, IfaceInv
  <1>2. ASSUME NEW f \in Iface, NEW e \in Eng, NEW c \in Lists, NEW up \in LinkStates,
               InitCount(f, e, c, up)
        PROVE  IfaceInv'
    <2>1. \A d \in live : ifname[d] = f => ifname[d] \in Loopback
      BY Zenon, <1>2 DEF InitCount, Refuses, IfaceInv
    <2>2. /\ e \notin live /\ live' = live /\ at' = "alloc" /\ w' = e
          /\ ifname' = [ifname EXCEPT ![e] = f] /\ is_loopback' = [is_loopback EXCEPT ![e] = FALSE]
      BY Zenon, <1>2 DEF InitCount
    <2>3. ifname'[e] = f /\ \A d \in live : ifname'[d] = ifname[d] /\ is_loopback'[d] = is_loopback[d]
      BY Zenon, <2>2 DEF TypeOK
    <2>4. \A d \in live : ifname[d] \in Iface /\ (is_loopback[d] <=> ifname[d] \in Loopback)
      BY Zenon DEF IfaceInv
    <2>5. ASSUME NEW d \in live'
          PROVE  ifname'[d] \in Iface /\ (is_loopback'[d] <=> ifname'[d] \in Loopback)
      <3>1. ifname'[d] = ifname[d] /\ is_loopback'[d] = is_loopback[d] /\ d \in live
        BY Zenon, <2>2, <2>3
      <3>2. ifname[d] \in Iface /\ (is_loopback[d] <=> ifname[d] \in Loopback)
        BY ZenonT(60), <2>4, <3>1
      <3>3. ifname'[d] \in Iface /\ (ifname'[d] \in Loopback <=> ifname[d] \in Loopback)
        BY Zenon, <3>1, <3>2
      <3> QED
        BY Zenon, <3>1, <3>2, <3>3
    <2>6. ASSUME NEW a \in live', NEW d \in live', a # d, ifname'[a] = ifname'[d]
          PROVE  ifname'[a] \in Loopback
      <3>1. a \in live /\ d \in live /\ ifname'[a] = ifname[a] /\ ifname'[d] = ifname[d]
        BY Zenon, <2>2, <2>3
      <3>2. ifname[a] = ifname[d] => ifname[a] \in Loopback
        BY Zenon, <2>6, <3>1 DEF IfaceInv
      <3> QED
        BY Zenon, <2>6, <3>1, <3>2
    <2>7. /\ w' \in Eng \ live' /\ ifname'[w'] \in Iface
          /\ \A d \in live' : ifname'[d] = ifname'[w'] => ifname'[d] \in Loopback
      BY Zenon, <2>1, <2>2, <2>3
    <2>8. at' # "config"
      BY Zenon, <2>2
    <2> QED
      BY ZenonT(60), <2>5, <2>6, <2>7, <2>8 DEF IfaceInv
  <1>3. ASSUME NEW c \in Lists, ConfigBegin(c) PROVE IfaceInv'
    <2>1. Len(list') > 0 /\ list'[1] = Link
      BY <1>3, ConstAssumption DEF ConfigBegin
    <2>2. /\ at = "alloc" /\ at' = "config" /\ i' = 1 /\ addr6_pos' = 0
          /\ live' = live /\ ifname' = ifname /\ is_loopback' = is_loopback /\ w' = w
      BY Zenon, <1>3 DEF ConfigBegin, listVars
    <2> QED
      BY <2>1, <2>2 DEF IfaceInv
  <1>4. CASE ConfigLink
    <2>1. /\ at = "config" /\ at' = at /\ live' = live /\ ifname' = ifname /\ w' = w
          /\ list' = list /\ i' = i + 1 /\ addr6_pos' = addr6_pos
          /\ is_loopback' = [is_loopback EXCEPT ![w] = ifname[w] \in Loopback]
      BY Zenon, <1>4 DEF ConfigLink
    <2>2. w \in Eng \ live
      BY Zenon, <2>1 DEF IfaceInv
    <2>3. (is_loopback'[w] <=> ifname[w] \in Loopback) /\ \A d \in live : is_loopback'[d] = is_loopback[d]
      BY Zenon, <2>1, <2>2 DEF TypeOK
    <2>4. i + 1 # 1
      BY DEF TypeOK
    <2> QED
      BY Zenon, <2>1, <2>2, <2>3, <2>4 DEF IfaceInv
  <1>5. CASE ConfigIp6 \/ ConfigIp4
    <2>1. /\ at = "config" /\ at' = at /\ live' = live /\ ifname' = ifname /\ w' = w
          /\ list' = list /\ i' = i + 1 /\ is_loopback' = is_loopback /\ list[i] \in Addr
      BY Zenon, <1>5 DEF ConfigIp6, ConfigIp4, listVars, Addr
    <2>2. i # 1
      BY Zenon, <2>1, ConstAssumption DEF IfaceInv
    <2>3. i > 1 /\ i + 1 # 1
      BY SMTT(60), <2>2 DEF TypeOK
    <2> QED
      BY ZenonT(60), <2>1, <2>3 DEF IfaceInv
  <1>6. CASE InitDone
    <2>1. /\ at = "config" /\ at' = "done" /\ live' = live \cup {w} /\ ifname' = ifname
          /\ is_loopback' = is_loopback /\ (i > Len(list) \/ TooMany)
      BY Zenon, <1>6 DEF InitDone
    <2>2. i > 1
      <3>1. i \in Nat \ {0} /\ list \in Seq(Addr \cup {Link}) /\ addr4_pos \in Nat
        BY SMTT(60) DEF TypeOK
      <3>2. Len(list) \in Nat /\ Len(list) > 0 /\ (i = 1 => addr6_pos = 0)
        BY SMTT(60), <2>1, <3>1 DEF IfaceInv
      <3> QED
        BY <2>1, <3>1, <3>2 DEF TooMany
    <2> QED
      BY <2>1, <2>2 DEF IfaceInv
  <1>7. ASSUME NEW e \in Eng, Cleanup(e) PROVE IfaceInv'
    <2>1. /\ at' = "off" /\ live' = live \ {e} /\ ifname' = [ifname EXCEPT ![e] = None]
          /\ is_loopback' = [is_loopback EXCEPT ![e] = FALSE]
      BY Zenon, <1>7 DEF Cleanup
    <2>2. \A d \in live' : ifname'[d] = ifname[d] /\ is_loopback'[d] = is_loopback[d] /\ d \in live
      BY Zenon, <2>1 DEF TypeOK
    <2> QED
      BY <2>1, <2>2 DEF IfaceInv
  <1>8. CASE UNCHANGED vars
    BY ZenonT(60), <1>8 DEF vars, listVars, addrVars, IfaceInv
  <1> QED
    BY Zenon, <1>1, <1>2, <1>3, <1>4, <1>5, <1>6, <1>7, <1>8 DEF Next

\* Every step keeps the list in order.
LEMMA ChainedNext ==
    TypeOK /\ IfaceInv /\ Chained /\ Listed = live /\ [Next]_vars => Chained'
  <1> SUFFICES ASSUME TypeOK, IfaceInv, Chained, Listed = live, [Next]_vars PROVE Chained'
    BY Zenon
  <1>0. PICK n \in Nat : \E c \in [1 .. n -> Eng] : Chain(n, c, head, next, live)
    BY Zenon DEF Chained
  <1>1. PICK c \in [1 .. n -> Eng] : Chain(n, c, head, next, live)
    BY Zenon, <1>0
  <1>2. next \in [Eng -> Eng \cup {None}]
    BY Zenon DEF TypeOK
  <1>3. ASSUME head' = head, next' = next, live' = live PROVE Chained'
    BY Zenon, <1>1, <1>3 DEF Chained
  <1>4. ASSUME NEW f \in Iface, InitRefused(f) PROVE Chained'
    BY Zenon, <1>3, <1>4 DEF InitRefused, listVars
  <1>5. ASSUME NEW f \in Iface, NEW e \in Eng, NEW l \in Lists, NEW up \in LinkStates,
               InitCount(f, e, l, up)
        PROVE  Chained'
    <2>1. e \notin live /\ live' = live /\ head' = head /\ next' = [next EXCEPT ![e] = None]
      BY Zenon, <1>5 DEF InitCount
    <2>2. \A k \in 1 .. n : c[k] \in live /\ c[k] \in Eng
      BY Zenon, <1>1 DEF Chain
    <2>3. \A k \in 1 .. n : next'[c[k]] = next[c[k]]
      BY Zenon, <1>2, <2>1, <2>2
    <2>4. Chain(n, c, head', next', live')
      BY Zenon, <1>1, <2>1, <2>3 DEF Chain
    <2> QED
      BY Zenon, <2>4 DEF Chained
  <1>6. ASSUME NEW l \in Lists, ConfigBegin(l) PROVE Chained'
    BY Zenon, <1>3, <1>6 DEF ConfigBegin, listVars
  <1>7. CASE ConfigLink \/ ConfigIp6 \/ ConfigIp4
    BY Zenon, <1>3, <1>7 DEF ConfigLink, ConfigIp6, ConfigIp4, listVars
  <1>8. CASE InitDone
    <2>1. /\ next' = [next EXCEPT ![w] = head] /\ head' = w /\ live' = live \cup {w}
          /\ w \in Eng \ live
      BY Zenon, <1>8 DEF InitDone, IfaceInv
    <2> QED
      BY ZenonT(60), <1>1, <1>2, <2>1, ChainInsert DEF Chained
  <1>9. ASSUME NEW e \in Eng, Cleanup(e) PROVE Chained'
    <2>1. e \in live /\ SlRemove(e) /\ live' = live \ {e}
      BY Zenon, <1>9 DEF Cleanup
    <2> QED
      BY Zenon, <1>1, <1>2, <2>1, ChainRemove DEF Chained
  <1>10. CASE UNCHANGED vars
    BY Zenon, <1>3, <1>10 DEF vars, listVars
  <1> QED
    BY Zenon, <1>4, <1>5, <1>6, <1>7, <1>8, <1>9, <1>10 DEF Next

-----------------------------------------------------------------------------
(* What needs induction or counts.                                         *)

INSTANCE FiniteSetTheorems

\* A set of natural numbers that is not empty has a least element.
LEMMA MinNat ==
    ASSUME NEW T \in SUBSET Nat, T # {}
    PROVE  Min(T) \in T /\ \A n \in T : Min(T) <= n
  <1> DEFINE R == OpToRel(<, Nat)
  <1>1. R = {ss \in Nat \X Nat : ss[1] < ss[2]}
    BY Zenon DEF OpToRel
  <1>2. IsWellFoundedOn(R, Nat)
    BY NatLessThanWellFounded, Zenon
  <1> HIDE DEF R
  <1>3. PICK m \in T : \A n \in T : ~(<<n, m>> \in R)
    BY Zenon, <1>2, WFMin
  <1>4. \A n \in T : ~(n < m)
    BY Zenon, <1>1, <1>3
  <1>5. \A n \in T : m <= n
    BY <1>4
  <1> QED
    BY Zenon, <1>5 DEF Min

\* What is_my_ip4() and is_my_ip6() return if there is a match.
LEMMA MinBelow ==
    ASSUME NEW n \in Nat, NEW T \in SUBSET (0 .. n - 1), T # {}
    PROVE  Min(T \cup {n}) \in T /\ Min(T \cup {n}) < n
  <1> DEFINE m == Min(T \cup {n})
  <1>1. T \cup {n} \in SUBSET Nat /\ T \cup {n} # {}
    OBVIOUS
  <1>2. m \in T \cup {n} /\ \A x \in T \cup {n} : m <= x
    BY Zenon, <1>1, MinNat
  <1>3. PICK x \in T : x \in 0 .. n - 1
    BY Zenon
  <1> HIDE DEF m
  <1>4. m # n
    BY <1>2, <1>3
  <1>5. m \in T /\ m \in 0 .. n - 1
    BY Zenon, <1>2, <1>4
  <1>6. m < n
    BY <1>5
  <1> QED
    BY Zenon, <1>5, <1>6 DEF m

\* FoundInv shows that everything is found.
LEMMA FoundAll == ASSUME Inv, FoundInv PROVE AllFound
  <1> SUFFICES ASSUME at = "done", list = <<Link>> \o seen,
                      \A m, n \in DOMAIN seen : {seen[m], seen[n]} \subseteq Addr4 => m = n
               PROVE  LET mine == {seen[n] : n \in DOMAIN seen}
                      IN  /\ \A n \in 0 .. addr_cnt - 1 : ifaddr[n] # None
                          /\ have_ip4 <=> mine \cap Addr4 # {}
                          /\ have_ip6 <=> mine \cap Addr6 # {}
                          /\ \A a \in mine \cap Addr4 :
                               /\ IsMyIp4(a, FALSE) < addr_cnt /\ ifaddr[IsMyIp4(a, FALSE)] = a
                               /\ \A b \in {Bcast4[a], AllOnes} : IsMyIp4(b, TRUE) < addr_cnt
                          /\ \A a \in mine \cap Addr6 :
                               /\ IsMyIp6(a, FALSE) < addr_cnt /\ ifaddr[IsMyIp6(a, FALSE)] = a
                               /\ \A g \in Groups6[a] : IsMyIp6(g, TRUE) < addr_cnt
    BY ZenonT(60) DEF AllFound
  <1> DEFINE mine == {seen[n] : n \in DOMAIN seen}
  <1>1. /\ seen \in Seq(Addr) /\ addr_cnt = Len(seen) /\ addr_cnt \in Nat
        /\ DOMAIN seen = 1 .. Len(seen) /\ \A n \in 1 .. Len(seen) : seen[n] \in Addr
        /\ addr4_pos = addr_cnt - 1
    BY DEF FoundInv
  <1>2. One4 /\ Same
    BY Zenon, <1>1 DEF One4, Same
  <1>3. Stored(Len(seen))
    <2>1. i = Len(seen) + 2 /\ i > 1 /\ i - 2 = Len(seen)
      BY SMTT(60), <1>1, <1>2 DEF FoundInv
    <2> QED
      BY Zenon, <1>2, <2>1 DEF FoundInv
  <1>4. \A n \in 1 .. Len(seen) : ifaddr[Slot(n)] = seen[n] /\ Slot(n) \in 0 .. addr_cnt - 1
    BY Zenon, <1>1, <1>3, SlotType DEF Stored
  <1>5. \A n \in 0 .. addr_cnt - 1 : ifaddr[n] # None
    <2> SUFFICES ASSUME NEW n \in 0 .. addr_cnt - 1 PROVE ifaddr[n] # None
      BY Zenon
    <2>1. PICK k \in 1 .. Len(seen) : Slot(k) = n
      BY Zenon, <1>1, <1>2, SlotsCover
    <2> QED
      BY Zenon, <1>1, <1>4, <2>1, ConstAssumption
  <1>6. have_ip4 <=> mine \cap Addr4 # {}
    <2>1. mine \cap Addr4 # {} <=> \E n \in 1 .. Len(seen) : seen[n] \in Addr4
      BY Zenon, <1>1
    <2> QED
      BY Zenon, <1>3, <2>1 DEF Stored, Four
  <1>7. have_ip6 <=> mine \cap Addr6 # {}
    <2>1. mine \cap Addr6 # {} <=> \E n \in 1 .. Len(seen) : seen[n] \in Addr6
      BY Zenon, <1>1
    <2> QED
      BY Zenon, <1>3, <2>1 DEF Stored
  <1>8. ASSUME NEW a \in mine \cap Addr4
        PROVE  /\ IsMyIp4(a, FALSE) < addr_cnt /\ ifaddr[IsMyIp4(a, FALSE)] = a
               /\ \A b \in {Bcast4[a], AllOnes} : IsMyIp4(b, TRUE) < addr_cnt
    <2>1. ifaddr[addr4_pos] = a /\ addr4_pos \in addr4_pos .. addr_cnt - 1 /\ addr4_pos \in Nat
      <3>1. PICK k \in 1 .. Len(seen) : seen[k] = a
        BY Zenon, <1>1
      <3>2. Slot(k) = addr4_pos
        BY Zenon, <1>1, <3>1 DEF Slot
      <3> QED
        BY SMTT(60), <1>1, <1>4, <3>1, <3>2
    <2> DEFINE T == {n \in addr4_pos .. addr_cnt - 1 : ifaddr[n] = a}
    <2>2. IsMyIp4(a, FALSE) = Min(T \cup {addr_cnt})
      BY Zenon DEF IsMyIp4
    <2>3. T \in SUBSET (0 .. addr_cnt - 1) /\ T # {}
      BY <1>1, <2>1
    <2>4. IsMyIp4(a, FALSE) \in T /\ IsMyIp4(a, FALSE) < addr_cnt
      <3> HIDE DEF T
      <3>1. addr_cnt \in Nat /\ T # {}
        BY Zenon, <1>1, <2>3
      <3>2. Min(T \cup {addr_cnt}) \in T /\ Min(T \cup {addr_cnt}) < addr_cnt
        BY ONLY Zenon, <2>3, <3>1, MinBelow
      <3> QED
        BY Zenon, <2>2, <3>2
    <2>5. ASSUME NEW b \in {Bcast4[a], AllOnes} PROVE IsMyIp4(b, TRUE) < addr_cnt
      <3> DEFINE U == {n \in addr4_pos .. addr_cnt - 1 :
                         \/ ifaddr[n] = b
                         \/ TRUE /\ (b = AllOnes \/ (ifaddr[n] \in Addr4 /\ b = Bcast4[ifaddr[n]]))}
      <3>1. IsMyIp4(b, TRUE) = Min(U \cup {addr_cnt})
        BY ZenonT(60) DEF IsMyIp4
      <3>2. U \in SUBSET (0 .. addr_cnt - 1)
        BY <1>1, <2>1
      <3>3. addr4_pos \in U
        BY Zenon, <2>1
      <3> HIDE DEF U
      <3>4. addr_cnt \in Nat /\ U # {}
        BY Zenon, <1>1, <3>3
      <3>5. Min(U \cup {addr_cnt}) < addr_cnt
        BY ONLY Zenon, <3>2, <3>4, MinBelow
      <3> QED
        BY Zenon, <3>1, <3>5
    <2> QED
      BY ZenonT(60), <2>4, <2>5
  <1>9. ASSUME NEW a \in mine \cap Addr6
        PROVE  /\ IsMyIp6(a, FALSE) < addr_cnt /\ ifaddr[IsMyIp6(a, FALSE)] = a
               /\ \A g \in Groups6[a] : IsMyIp6(g, TRUE) < addr_cnt
    <2>1. PICK p \in 0 .. addr_cnt - 1 : ifaddr[p] = a
      BY Zenon, <1>1, <1>4
    <2> DEFINE T == {n \in 0 .. addr_cnt - 1 : ifaddr[n] = a}
    <2>2. IsMyIp6(a, FALSE) = Min(T \cup {addr_cnt})
      BY Zenon DEF IsMyIp6
    <2>3. T \in SUBSET (0 .. addr_cnt - 1) /\ p \in T
      BY Zenon, <2>1
    <2>4. IsMyIp6(a, FALSE) \in T /\ IsMyIp6(a, FALSE) < addr_cnt
      <3> HIDE DEF T
      <3>1. addr_cnt \in Nat /\ T # {}
        BY Zenon, <1>1, <2>3
      <3>2. Min(T \cup {addr_cnt}) \in T /\ Min(T \cup {addr_cnt}) < addr_cnt
        BY ONLY Zenon, <2>3, <3>1, MinBelow
      <3> QED
        BY Zenon, <2>2, <3>2
    <2>5. ASSUME NEW g \in Groups6[a] PROVE IsMyIp6(g, TRUE) < addr_cnt
      <3> DEFINE U == {n \in 0 .. addr_cnt - 1 :
                         \/ ifaddr[n] = g
                         \/ TRUE /\ ifaddr[n] \in Addr6 /\ g \in Groups6[ifaddr[n]]}
      <3>1. IsMyIp6(g, TRUE) = Min(U \cup {addr_cnt})
        BY ZenonT(60) DEF IsMyIp6
      <3>2. U \in SUBSET (0 .. addr_cnt - 1)
        BY Zenon
      <3>3. p \in U
        BY Zenon, <2>1
      <3> HIDE DEF U
      <3>4. addr_cnt \in Nat /\ U # {}
        BY Zenon, <1>1, <3>3
      <3>5. Min(U \cup {addr_cnt}) < addr_cnt
        BY ONLY Zenon, <3>2, <3>4, MinBelow
      <3> QED
        BY Zenon, <3>1, <3>5
    <2> QED
      BY ZenonT(60), <2>4, <2>5
  <1> QED
    BY Zenon, <1>5, <1>6, <1>7, <1>8, <1>9

\* A list that is in order has no more elements than there are engines.
LEMMA ChainShort ==
    ASSUME NEW n, NEW c, Chain(n, c, head, next, live)
    PROVE  Cardinality(Eng) \in Nat /\ n <= Cardinality(Eng)
  <1>1. n \in Nat /\ c \in [1 .. n -> Eng] /\ \A j, k \in 1 .. n : c[j] = c[k] => j = k
    BY Zenon DEF Chain
  <1>2. c \in Injection(1 .. n, Eng)
    BY Zenon, <1>1 DEF Injection, IsInjective
  <1>3. IsFiniteSet(Eng)
    BY Zenon, ConstAssumption
  <1>4. Cardinality(1 .. n) <= Cardinality(Eng)
    BY Zenon, <1>2, <1>3, FS_Injection
  <1>5. Cardinality(1 .. n) = n
    <2>1. 1 \in Int /\ n \in Int /\ (1 > n => n = 0)
      BY <1>1
    <2>2. Cardinality(1 .. n) = IF 1 > n THEN 0 ELSE n - 1 + 1
      BY Zenon, <2>1, FS_Interval
    <2> QED
      BY <1>1, <2>1, <2>2
  <1>6. Cardinality(Eng) \in Nat
    BY Zenon, <1>3, FS_CardinalityType
  <1> QED
    BY Zenon, <1>4, <1>5, <1>6

\* sl_foreach() visits the engines of a list that is in order, and no others.
LEMMA ListedIsLive == ASSUME Chained PROVE Listed = live
  <1>1. PICK n \in Nat : \E c \in [1 .. n -> Eng] : Chain(n, c, head, next, live)
    BY Zenon DEF Chained
  <1>2. PICK c \in [1 .. n -> Eng] : Chain(n, c, head, next, live)
    BY Zenon, <1>1
  <1> DEFINE N == Cardinality(Eng)
             Step(f) == [k \in 0 .. N |->
                           IF k = 0 THEN head
                           ELSE IF f[k - 1] = None THEN None ELSE next[f[k - 1]]]
             g == [k \in 0 .. N |-> IF k < n THEN c[k + 1] ELSE None]
             nth == CHOOSE f : f = Step(f)
  <1>3. N \in Nat /\ n <= N
    BY Zenon, <1>2, ChainShort
  <1> HIDE DEF N
  <1>4. \A k \in 1 .. n : c[k] \in Eng /\ c[k] # None
    BY Zenon, <1>2, ConstAssumption
  <1>5. g = Step(g)
    <2> SUFFICES ASSUME NEW k \in 0 .. N
                 PROVE  g[k] = IF k = 0 THEN head
                               ELSE IF g[k - 1] = None THEN None ELSE next[g[k - 1]]
      BY ZenonT(60)
    <2>1. CASE k = 0
      <3>1. head = IF n = 0 THEN None ELSE c[1]
        BY Zenon, <1>2 DEF Chain
      <3> QED
        BY SMTT(60), <1>3, <2>1, <3>1
    <2>2. CASE k # 0
      <3>1. k \in Nat /\ k - 1 \in 0 .. N /\ (k - 1) + 1 = k
        BY <1>3, <2>2
      <3>2. g[k - 1] = IF k - 1 < n THEN c[k] ELSE None
        BY Zenon, <3>1
      <3>3. CASE k - 1 < n
        <4>1. k \in 1 .. n
          BY SMTT(60), <2>2, <3>1, <3>3
        <4>2. next[c[k]] = IF k < n THEN c[k + 1] ELSE None
          BY Zenon, <1>2, <4>1 DEF Chain
        <4>3. g[k] = IF k < n THEN c[k + 1] ELSE None
          BY Zenon
        <4> HIDE DEF g
        <4> QED
          BY Zenon, <1>4, <2>2, <3>2, <3>3, <4>1, <4>2, <4>3
      <3>4. CASE ~(k - 1 < n)
        BY <2>2, <3>1, <3>2, <3>4
      <3> QED
        BY Zenon, <3>3, <3>4
    <2> QED
      BY Zenon, <2>1, <2>2
  <1>6. nth = Step(nth)
    BY ZenonT(60), <1>5
  <1> HIDE DEF nth
  <1>7. \A k \in 0 .. N : nth[k] = g[k]
    <2> SUFFICES ASSUME NEW k \in 0 .. N, nth[k] # g[k] PROVE FALSE
      BY Zenon
    <2> DEFINE T == {j \in 0 .. N : nth[j] # g[j]}
    <2>1. T \in SUBSET Nat /\ k \in T
      <3> HIDE DEF g
      <3> QED
        BY <1>3
    <2>2. PICK m \in T : \A j \in T : m <= j
      <3> HIDE DEF T
      <3> QED
        BY Zenon, <2>1, MinNat
    <2>3. m \in 0 .. N /\ nth[m] # g[m]
      BY Zenon, <2>2
    <2>4. nth[m] = IF m = 0 THEN head ELSE IF nth[m - 1] = None THEN None ELSE next[nth[m - 1]]
      BY Zenon, <1>6, <2>3
    <2>5. g[m] = IF m = 0 THEN head ELSE IF g[m - 1] = None THEN None ELSE next[g[m - 1]]
      BY ZenonT(60), <1>5, <2>3
    <2> HIDE DEF g
    <2>6. m # 0
      BY Zenon, <2>3, <2>4, <2>5
    <2>7. m - 1 \in 0 .. N /\ ~(m <= m - 1)
      BY <1>3, <2>3, <2>6
    <2>8. nth[m - 1] = g[m - 1]
      BY Zenon, <2>2, <2>7
    <2> QED
      BY Zenon, <2>3, <2>4, <2>5, <2>6, <2>8
  <1>8. Listed = {nth[k] : k \in 0 .. N} \ {None}
    BY Zenon DEF Listed, nth, N
  <1>9. ASSUME NEW e \in live PROVE e \in Listed
    <2>1. PICK k \in 1 .. n : c[k] = e
      BY Zenon, <1>2 DEF Chain
    <2>2. k - 1 \in 0 .. N /\ k - 1 < n /\ (k - 1) + 1 = k
      BY SMTT(60), <1>3
    <2>3. g[k - 1] = e
      BY Zenon, <2>1, <2>2
    <2>4. e # None
      BY Zenon, <1>4, <2>1
    <2> HIDE DEF g
    <2> QED
      BY Zenon, <1>7, <1>8, <2>2, <2>3, <2>4
  <1>10. ASSUME NEW e \in Listed PROVE e \in live
    <2>1. PICK k \in 0 .. N : e = nth[k] /\ e # None
      BY Zenon, <1>8
    <2>2. e = g[k]
      BY ZenonT(60), <1>7, <2>1
    <2>3. k < n /\ e = c[k + 1]
      BY Zenon, <2>1, <2>2
    <2>4. k + 1 \in 1 .. n
      BY <1>3, <2>3
    <2> QED
      BY Zenon, <1>2, <2>3, <2>4 DEF Chain
  <1> QED
    BY Zenon, <1>9, <1>10

-----------------------------------------------------------------------------
(* What holds in every state.                                              *)

\* The inductive invariant: the bounds, the addresses stored so far, and the list.
EngineInv == Inv /\ Fresh /\ FoundInv /\ TypeOK /\ IfaceInv /\ Chained

\* It holds in every state.
LEMMA EngineInvAlways == Spec => []EngineInv
  <1>1. Init => EngineInv
    <2> SUFFICES ASSUME Init PROVE EngineInv
      BY Zenon
    <2>1. Inv /\ Fresh
      BY Zenon, InvInit DEF Init, Fresh
    <2>2. FoundInv
      BY SMTT(60) DEF Init, FoundInv
    <2>3. TypeOK
      BY SMTT(60), <2>1 DEF Init, TypeOK, Inv
    <2>4. IfaceInv
      BY Zenon DEF Init, IfaceInv
    <2>5. Chained
      <3> DEFINE c == [k \in 1 .. 0 |-> None]
      <3>1. c \in [1 .. 0 -> Eng] /\ 0 \in Nat /\ \A k \in 1 .. 0 : FALSE
        BY SMTT(60)
      <3>2. head = None /\ live = {}
        BY Zenon DEF Init
      <3> HIDE DEF c
      <3>3. Chain(0, c, head, next, live)
        BY Zenon, <3>1, <3>2 DEF Chain
      <3> QED
        BY Zenon, <3>1, <3>3 DEF Chained
    <2> QED
      BY Zenon, <2>1, <2>2, <2>3, <2>4, <2>5 DEF EngineInv
  <1>2. EngineInv /\ [Next]_vars => EngineInv'
    <2> SUFFICES ASSUME EngineInv, [Next]_vars PROVE EngineInv'
      BY Zenon
    <2>1. Listed = live
      BY Zenon, ListedIsLive DEF EngineInv
    <2>2. Inv' /\ Fresh'
      BY Zenon, InvNext, FreshNext DEF EngineInv
    <2>3. FoundInv'
      BY Zenon, FoundNext DEF EngineInv
    <2>4. TypeOK' /\ IfaceInv' /\ Chained'
      BY Zenon, <2>1, <2>2, TypeNext, IfaceNext, ChainedNext DEF EngineInv
    <2> QED
      BY Zenon, <2>2, <2>3, <2>4 DEF EngineInv
  <1> QED
    BY <1>1, <1>2, PTL DEF Spec

\* Whatever the addresses of an interface and their order, if they do not change
\* while w_init() runs and at most one is of IPv4, then w->ifaddr holds all of them
\* and is_my_ip4() and is_my_ip6() recognize each, with its broadcast and multicast
\* addresses.
THEOREM AddrsFound == Spec => []AllFound
  <1>1. EngineInv => AllFound
    BY Zenon, FoundAll DEF EngineInv
  <1> QED
    BY <1>1, EngineInvAlways, PTL

\* In whatever order any number of engines come and go, the list of engines holds
\* those that were initialized and not cleaned up, and no two of them are on one
\* interface that is no loopback.
THEOREM EnginesListed == Spec => []ListIsLive
  <1>1. EngineInv => ListIsLive
    <2> SUFFICES ASSUME EngineInv PROVE ListIsLive
      BY Zenon
    <2>1. Listed = live
      BY Zenon, ListedIsLive DEF EngineInv
    <2> QED
      BY Zenon, <2>1 DEF EngineInv, IfaceInv, ListIsLive
  <1> QED
    BY <1>1, EngineInvAlways, PTL
=============================================================================
