CONSTANTS
    Node = {1, 2}
    Client = {1, 2}
    Mac = {10, 20}
    MacOf <- MCMacOf
    FirstMac <- MCFirstMac
    Bcast = Bcast
    None = None
    V6 = FALSE
    MaxNet = 4
SPECIFICATION FairSpec
PROPERTY WhoHasReturns
