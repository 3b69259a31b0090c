\* start after stop against the comment on start.
CONSTANTS
    s1 = s1  s2 = s2  d1 = d1  d2 = d2  d3 = d3  p1 = p1  p2 = p2
    NONE = NONE
    SenderIds = {s1}
    Data = {d1}
    Encodable = {d1}
    Callers = {p1}
    MaxEntries = 1
    MaxStarts = 2
    MaxChanges = 1
    MaxStops = 1
SPECIFICATION FairSpec
PROPERTIES
    StartedHeartbeatRuns
\* After the last stop the service is idle.
CHECK_DEADLOCK FALSE
