\* One failure, three moves of the player.
CONSTANTS
    me = me  o1 = o1  g1 = g1  w1 = w1  w2 = w2
    NONE = NONE
    Me = me
    Others = {o1}
    GameIds = {g1}
    Ads = {w1, w2}
    Unencodable = {}
    HostLists = {{o1}}
    SignalIds = {}
    MaxConns = 3
    MaxFaults = 1
    MaxMoves = 3
SPECIFICATION RendezvousFairSpec
INVARIANTS
    RendezvousTypeOK
    RegistrationsAreListed
PROPERTIES
    GhostsLeave
    WorldsGetListed
