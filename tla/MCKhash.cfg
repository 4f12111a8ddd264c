CONSTANTS
    Key = {1, 2, 3, 4, 5, 6}
    Tup <- MCTup
    Hash <- MCHash
    None = None
    Four = {1001, 0}
    Twelve = {0, 1}
    Port = {0, 1, 3, 4, 16, 53}
    Scope = {0, 1}
    UINT32_MAX = 65535
    AF_INET = AF_INET
    AF_INET6 = AF_INET6
    AF_UNSPEC = AF_UNSPEC
    fnv1a_32 <- MCFnv
SPECIFICATION Spec
VIEW View
INVARIANTS CountsRight GetFinds CleanupClosesAll
PROPERTIES MapSpec WorkShrinks
