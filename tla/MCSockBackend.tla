--------------------------- MODULE MCSockBackend ---------------------------
EXTENDS SockBackend
=============================================================================
