------------------------------- MODULE IfAddr -------------------------------
(***************************************************************************)
(* What backend_addr_config() derives from an address of an interface and  *)
(* its netmask.  Addresses and netmasks are sequences of bytes, four or    *)
(* sixteen of them, in network byte order.                                 *)
(***************************************************************************)
EXTENDS Integers, Sequences, FiniteSetsExt, Bitwise

IP4_LEN == 4
IP6_LEN == 16

\* Mutant: the shifted value keeps its ninth bit.
ShiftsWide(val) == IF val = 0 THEN 0 ELSE 8

\* The turns of while (val), with val = (uint8_t)(val << 1).
Shifts(val) == Min({n \in 0 .. 8 : (val * 2^n) % 256 = 0})

\* The bytes before the first one that is not 0xff count eight each.
contig_mask_len(mask) ==
    LET i == Max({n \in 0 .. Len(mask) : \A k \in 1 .. n : mask[k] = 255})
    IN  8 * i + (IF i < Len(mask) THEN Shifts(mask[i + 1]) ELSE 0)

ip6_invert(src) == [k \in 1 .. Len(src) |-> 255 - src[k]]
ip6_or(src1, src2) == [k \in 1 .. Len(src1) |-> src1[k] | src2[k]]

snma_pref == [k \in 1 .. IP6_LEN |->
                CASE k \in {1, 13} -> 255 [] k = 2 -> 2 [] k = 12 -> 1 [] OTHER -> 0]
snma_mask == [k \in 1 .. IP6_LEN |-> IF k > 13 THEN 255 ELSE 0]

ip6_mk_snma(src) == [k \in 1 .. IP6_LEN |-> snma_pref[k] | (src[k] & snma_mask[k])]

ip6_config(addr, mask) ==
    [prefix |-> contig_mask_len(mask), bcast |-> ip6_or(addr, ip6_invert(mask)),
     snma |-> ip6_mk_snma(addr)]

\* The case AF_INET of backend_addr_config(); | and ~ of a word are those of its
\* bytes.
ip4_config(addr, mask) ==
    [prefix |-> contig_mask_len(mask), bcast |-> ip6_or(addr, ip6_invert(mask))]

-----------------------------------------------------------------------------
(* The reference: an address as a sequence of bits.                        *)

Bit(a, k) == (a[k \div 8 + 1] \div 2^(7 - (k % 8))) % 2

\* The netmask of n bytes that starts with p ones.
NetMask(p, n) ==
    [k \in 1 .. n |->
       IF 8 * k <= p THEN 255 ELSE IF p <= 8 * (k - 1) THEN 0 ELSE 256 - 2^(8 * k - p)]

\* The last address of the subnet of a, which has a prefix of p bits.
LastOfSubnet(b, a, p) ==
    \A k \in 0 .. 8 * Len(a) - 1 : Bit(b, k) = (IF k < p THEN Bit(a, k) ELSE 1)
=============================================================================
