\* The connection, the registration and the advertised servers, two failures.
CONSTANTS
    me = me  o1 = o1  o2 = o2  g1 = g1  g2 = g2  w1 = w1  w2 = w2  k1 = k1
    NONE = NONE
    Me = me
    Others = {o1, o2}
    GameIds = {g1}
    Ads = {w1, w2}
    Unencodable = {o2}
    HostLists = {{o1}, {o2, me}}
    SignalIds = {}
    MaxConns = 5
    MaxFaults = 2
    MaxMoves = 3
SPECIFICATION FairSpec
INVARIANTS
    RegistrationIsKnown
    OthersOnlyWhileBrowsing
PROPERTIES
    OldReadersEnd
    DeadConnectionsAreDropped
    RegistrationConverges
