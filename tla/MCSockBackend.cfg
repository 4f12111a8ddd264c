CONSTANTS
    Sock = {s1, s2}
    None = None
    NBufs = 2
    EvMax = 1
    RecvSize = 2
    SendSize = 2
    MaxQ = 2
    Seqs = 3
    Empty = {2}
    Variants = {"mmsg", "msg", "riot"}
SPECIFICATION FairSpec
INVARIANTS IovPartition InOrder TxInOrder RxNoWait
PROPERTIES RxEventually
