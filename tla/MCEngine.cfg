CONSTANTS
    eth = eth
    lo = lo
    Eng = {e1, e2, e3}
    Iface = {eth, lo}
    Loopback = {lo}
    Addr4 <- MCAddr4
    Addr6 <- MCAddr6
    Bcast4 <- MCBcast4
    AllOnes <- MCAllOnes
    Groups6 <- MCGroups6
    Lists <- MCLists
    Link = Link
    None = None
SPECIFICATION Spec
SYMMETRY EngSym
INVARIANTS StoresInBounds AllFound ListIsLive NetsRight
