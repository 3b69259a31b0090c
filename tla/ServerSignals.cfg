\* Signals between a host and two joiners.
CONSTANTS
    c1 = c1  c2 = c2  c3 = c3  a1 = a1  a2 = a2  a3 = a3  w1 = w1  w2 = w2
    NONE = NONE
    Conns = {c1, c2, c3}
    Addrs = {a1, a2, a3}
    AddrOf <- ApartAddrOf
    HostIds = {5}
    Ads = {w1}
    ConnIds = {8, 9}
    Registers <- FirstRegisters
    Offers <- SignalOffers
    Kinds <- SignalKinds
    Droppable = {}
    MaxFrames <- SignalFrames
    MaxSession = 0
SPECIFICATION Spec
INVARIANTS
    SignalsInOrder
    SignalsReachTheirPeer
