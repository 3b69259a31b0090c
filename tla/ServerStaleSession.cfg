\* ConnectRequest against the comment in the cleanup.
CONSTANTS
    c1 = c1  c2 = c2  c3 = c3  a1 = a1  a2 = a2  a3 = a3  w1 = w1  w2 = w2
    NONE = NONE
    Conns = {c1, c2}
    Addrs = {a1, a2}
    AddrOf <- PairAddrOf
    HostIds = {5}
    Ads = {w1}
    ConnIds = {8}
    Registers <- FirstRegisters
    Offers <- JoinOffers
    Kinds <- JoinKinds
    Droppable = {}
    MaxFrames <- RegistryFrames
    MaxSession = 4
SPECIFICATION Spec
INVARIANTS
    SessionsDieWithTheirClients
