\* Dead connections, silent ones included; c3 reuses the address of c1.
CONSTANTS
    c1 = c1  c2 = c2  c3 = c3  a1 = a1  a2 = a2  a3 = a3  w1 = w1  w2 = w2
    NONE = NONE
    Conns = {c1, c3}
    Addrs = {a1}
    AddrOf <- SameAddrOf
    HostIds = {5}
    Ads = {w1}
    ConnIds = {}
    Registers <- AllRegister
    Offers <- NoOffers
    Kinds <- LivenessKinds
    Droppable = {c1, c3}
    MaxFrames <- LivenessFrames
    MaxSession = 0
SPECIFICATION FairSpec
INVARIANTS
    ListedHostsAreServed
    ChannelsAreServed
PROPERTIES
    DeadHostsLeave
    UnreachableHandlersEnd
