\* Signals of the game and for the game, with a restarted game.
CONSTANTS
    me = me  o1 = o1  o2 = o2  g1 = g1  g2 = g2  w1 = w1  w2 = w2  k1 = k1
    NONE = NONE
    Me = me
    Others = {o1}
    GameIds = {g1, g2}
    Ads = {w1}
    Unencodable = {}
    HostLists = {{o1}}
    SignalIds = {k1}
    MaxConns = 3
    MaxFaults = 1
    MaxMoves = 4
SPECIFICATION Spec
INVARIANTS
    NodeTypeOK
    ForwardedJoinsAreRemembered
