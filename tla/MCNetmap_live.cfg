CONSTANTS
    NBufs = 2
    NTx = 1
    TxN = 2
    NRx = 1
    RxN = 2
    NBuf = 6
    Sock = {s1}
    Buf <- MCBuf
    InitBuf <- MCInitBuf
    None = None
    Pipe = FALSE
    AppWaits = TRUE
    Frames = {"udp", "query", "other"}
SPECIFICATION FairSpec
PROPERTIES EthTxAndFreeReturns TxReturns
