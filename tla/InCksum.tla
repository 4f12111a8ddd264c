------------------------------ MODULE InCksum -------------------------------
(***************************************************************************)
(* The Internet checksum of in_cksum.c, as a little-endian host computes   *)
(* it.  Packet memory is a function from 0 .. n to 16-bit words: word i    *)
(* holds byte 2i in its low half and byte 2i + 1 in its high half.  Word 0 *)
(* is the first one after the Ethernet header.                             *)
(***************************************************************************)
EXTENDS Integers, Functions

W == 65536

Lo(x) == x % 256
Hi(x) == x \div 256
Word(lo, hi) == lo + 256 * hi
bswap16(x) == Word(Hi(x), Lo(x))

\* The version and the length, in bytes, of the IP header that starts at m[0].
ip_v(m)   == Lo(m[0]) \div 16
ip4_hl(m) == 4 * (Lo(m[0]) % 16)

\* The sum of the len bytes from word off on, taken as words.
csum_oc16(m, off, len) ==
    SumFunctionOnSet(m, off .. off + len \div 2 - 1)
      + (IF len % 2 = 1 THEN Lo(m[off + len \div 2]) ELSE 0)

\* One round of the loop: the carries come back in at the low end.  Two rounds
\* bring any 32-bit sum below W, where further ones change nothing.
Round(sum) == (sum % W) + (sum \div W)
Folded(sum) == Round(Round(sum))
csum_oc16_reduce(sum) == W - 1 - Folded(sum)

ip_cksum(m, off, len) == csum_oc16_reduce(csum_oc16(m, off, len))

\* Pseudo header: protocol, addresses and length, each as its bytes lie in memory.
pseudo4(m) ==
    256 * Hi(m[4]) + csum_oc16(m, 6, 8)
      + bswap16((bswap16(m[1]) - ip4_hl(m)) % W)
pseudo6(m) == 256 * W * Lo(m[3]) + csum_oc16(m, 4, 32) + m[2]

payload_cksum(m, len) ==
    csum_oc16_reduce(
      IF ip_v(m) = 4
        THEN pseudo4(m) + csum_oc16(m, ip4_hl(m) \div 2, len - ip4_hl(m))
        ELSE pseudo6(m) + csum_oc16(m, 20, len - 40))
=============================================================================
