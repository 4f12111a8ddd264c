------------------------------ MODULE MCPacket ------------------------------
EXTENDS Packet

\* No byte, an odd number, four whose checksum, sent to the first IPv4 address,
\* comes out as 0, and four whose sum makes up for an IPv6 length that is 4 less.
MCData == {<<>>, <<200, 1, 255>>, <<255, 255, 126, 30>>, <<255, 251, 0, 0>>}
=============================================================================
