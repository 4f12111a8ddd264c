CONSTANTS
    NBufs = 3
    NTx = 2
    TxN = 2
    NRx = 1
    RxN = 2
    NBuf = 9
    Sock = {s1}
    Buf <- MCBuf
    InitBuf <- MCInitBuf
    None = None
    Pipe = FALSE
    AppWaits = TRUE
    Frames = {"udp", "reject", "unreach", "query", "other"}
SPECIFICATION Spec
VIEW View
INVARIANTS BufConservation TxWindow CompletionTest BaseOwned IovPartition
