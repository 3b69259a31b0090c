\* Discovery service, framed stream, relay, session registry, protect callback, platform probes.
CONSTANTS
    m1 = m1  m2 = m2  r1 = r1  r2 = r2  k1 = k1  k2 = k2  s1 = s1  s2 = s2
    p1 = p1  p2 = p2  t1 = t1  t2 = t2  c1 = c1  c2 = c2
    d1 = d1  d2 = d2  d3 = d3
    NONE = NONE
    SenderIds = {s1, s2}
    Data = {d1, d2, d3}
    Encodable = {d1, d2}
    Callers = {p1, p2}
    MaxEntries = 3
    MaxStarts = 2
    MaxChanges = 2
    MaxStops = 2
    FrameWriters = {m1, m2}
    Sizes = {1, 2, 3}
    PrefixBytes = 2
    U32 = 4
    MAX_FRAME_BYTES = 2
    MaxWritten = 3
    RelayIds = {k1, k2, s1}
    Records = {r1, r2}
    Caps = {0, 1, 2}
    Pumps = {p1, p2}
    MaxQueue = 2
    SessionKeys = {k1, k2}
    Handles = {s1, s2}
    Snapshots = {p1}
    Threads = {t1, t2}
    Callbacks = {c1, c2}
    MaxRows = 2
SPECIFICATION CoreSpec
\* The components come to rest when their bounds are reached or a call returned.
CHECK_DEADLOCK FALSE
INVARIANTS
    DiscoveryTypeOK
    PacketsMatchData
    ReplaceAllReplaces
    OneHeartbeat
    MessagesArriveWhole
    RefusedFramesAreTooLarge
    CleanEndLosesNothing
    CapIsKept
    SnapshotsAreOneMoment
    RetiredCallbacksRest
    BoundPortsAreFound
    ReportedPortsWereBound
    VisibleGamesAreNoticed
PROPERTIES
    StopReturns
    AdvertisedServersAreShown
    WrittenMessagesArrive
    HostsLeaveForRoom
