CONSTANTS
    Node = {1, 2, 3}
    Client = {1, 2}
    Mac = {10, 20, 30, 31}
    MacOf <- MCMacOf
    FirstMac <- MCFirstMac
    Bcast = Bcast
    None = None
    V6 = FALSE
    MaxNet = 1
SPECIFICATION Spec
INVARIANTS SentToOwner
