CONSTANTS
    Queue = {"pool", "i", "o", "tmp", "echo", "discard", "bench"}
    Elem = {1, 2, 3}
    NULL = NULL
    NBufs = 3
    NoSock = "none"
    CBufs = 4
    BufLen = 2
    Start = 3
    End = 3
    Inc = 1
    Loops = 2
    Worlds <- MCWorlds
SPECIFICATION Spec
INVARIANTS QueuesSound OneFlight PoolLeft FailsOnlyLate
PROPERTIES LoopsEnd
CHECK_DEADLOCK FALSE
