------------------------------ MODULE MCEngine ------------------------------
(***************************************************************************)
(* Engine with three engines on a loopback and another interface, and      *)
(* every order of up to three of two IPv4 and two IPv6 addresses, whose    *)
(* broadcast and multicast addresses are those of module IfAddr.           *)
(***************************************************************************)
EXTENDS Engine, IfAddr, SequencesExt

CONSTANTS eth, lo

a4 == <<192, 168, 1, 7>>
b4 == <<10, 0, 0, 200>>
a6 == <<254, 128, 0, 0, 0, 0, 0, 0, 2, 0, 94, 16, 0, 0, 0, 1>>
b6 == <<32, 1, 13, 184, 0, 0, 0, 1, 2, 0, 94, 16, 0, 18, 52, 86>>

MCAddr4 == {a4, b4}
MCAddr6 == {a6, b6}
MCAllOnes == <<255, 255, 255, 255>>
MCLists == {s \in SeqOf({a4, b4, a6, b6}, 3) : IsInjective(s)}
EngSym == Permutations(Eng)

MCBcast4 == [a \in MCAddr4 |-> ip4_config(a, NetMask(IF a = a4 THEN 24 ELSE 8, IP4_LEN)).bcast]
MCGroups6 ==
    [a \in MCAddr6 |-> LET c == ip6_config(a, NetMask(IF a = a6 THEN 64 ELSE 61, IP6_LEN))
                       IN  {c.bcast, c.snma}]

\* Prefixes that end within a byte, at its end, and at the ends of the address.
MaskLens(n) == {p \in {0, 1, 7, 8, 9, 20, 31, 32, 61, 64, 65, 120, 127, 128} : p <= 8 * n}

ConfigRight(a) ==
    /\ \A p \in MaskLens(Len(a)) :
         LET c == IF Len(a) = IP4_LEN THEN ip4_config(a, NetMask(p, IP4_LEN))
                                      ELSE ip6_config(a, NetMask(p, IP6_LEN))
         IN  c.prefix = p /\ LastOfSubnet(c.bcast, a, p)
    /\ Len(a) = IP6_LEN => \A k \in 0 .. 127 :
         Bit(ip6_mk_snma(a), k) = IF k >= 104 THEN Bit(a, k) ELSE Bit(snma_pref, k)

\* Each address of an engine is configured right (what is derived from an address
\* does not depend on other engines, so the first one will do): for a netmask of p
\* ones and then zeros, prefix is p and the broadcast address is the last one of the
\* subnet; the solicited-node multicast address of an IPv6 address ends in its last
\* 24 bits, whatever the rest of it is.
NetsRight ==
    at = "done" /\ live = {w} /\ list = <<Link>> \o seen =>
      \A n \in DOMAIN ifaddr : ifaddr[n] # None => ConfigRight(ifaddr[n])
=============================================================================
