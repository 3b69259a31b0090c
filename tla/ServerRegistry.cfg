\* Two clients that register one sender id and join each other.
CONSTANTS
    c1 = c1  c2 = c2  c3 = c3  a1 = a1  a2 = a2  a3 = a3  w1 = w1  w2 = w2
    NONE = NONE
    Conns = {c1, c2}
    Addrs = {a1, a2}
    AddrOf <- PairAddrOf
    HostIds = {5}
    Ads = {w1, w2}
    ConnIds = {8}
    Registers <- AllRegister
    Offers <- JoinOffers
    Kinds <- RegistryKinds
    Droppable = {}
    MaxFrames <- RegistryFrames
    MaxSession = 4
SYMMETRY AdSymmetry
SPECIFICATION Spec
INVARIANTS
    TypeOK
    SessionsAreServed
    FreshSessionIds
PROPERTIES
    ImplementsDirectory
