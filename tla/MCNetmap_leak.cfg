CONSTANTS
    NBufs = 2
    NTx = 1
    TxN = 3
    NRx = 1
    RxN = 2
    NBuf = 7
    Sock = {s1}
    Buf <- MCBuf
    InitBuf <- MCInitBuf
    None = None
    Pipe = FALSE
    AppWaits = TRUE
    Frames = {"udp", "reject", "unreach", "query", "other"}
SPECIFICATION Spec
VIEW View
INVARIANT NoIovLost
