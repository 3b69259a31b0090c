------------------------------ MODULE Discovery ------------------------------
(***************************************************************************)
(* The discovery service (crates/core/src/discovery.rs): the registry of   *)
(* servers advertised to the local game, each with its marshaled response  *)
(* packet, and the heartbeat task that start and stop control.             *)
(*                                                                         *)
(* The registry lock is held for one step at a time.  The task mutex is    *)
(* held by stop while it waits for the task, so callers are processes.     *)
(***************************************************************************)
EXTENDS Naturals, Sequences, FiniteSets, SequencesExt, Options

CONSTANTS
    SenderIds,
    Data,        \* contents of a ServerAdvertisement
    Encodable,   \* those that ServerData::marshal accepts
    Callers,     \* tasks that call start and stop
    MaxEntries,  \* bound: length of a list given to replace_all
    MaxStarts,   \* bound: heartbeat tasks spawned
    MaxChanges,  \* bound: changes of the registry
    MaxStops     \* bound: calls of stop

Packet == [sender : SenderIds, data : Data]
Cached == [data : Data, packet : Packet]
Entry == [sender_id : SenderIds, data : Data]
Tasks == 1 .. MaxStarts

ASSUME DiscoveryAssumption ==
    /\ Encodable \subseteq Data
    /\ MaxStarts \in Nat /\ MaxChanges \in Nat /\ MaxStops \in Nat
    /\ NONE \notin Callers \cup Cached

VARIABLES
    advertised,  \* the registry
    beat,        \* the state of each heartbeat task
    queue,       \* packets of the current heartbeat still to be sent
    task,        \* the handle of the heartbeat task; 0 is None
    holder,      \* the caller that holds the task mutex
    call,        \* what each caller is doing
    cancelled,   \* the cancellation token
    starts, changes, stops

regVars == <<advertised, changes>>
beatVars == <<beat, queue>>
callVars == <<task, holder, call, cancelled, starts, stops>>
vars == <<regVars, beatVars, callVars>>

DiscoveryTypeOK ==
    /\ advertised \in [SenderIds -> Cached \cup {NONE}]
    /\ beat \in [Tasks -> {"none", "select", "sending", "ended"}]
    /\ queue \in [Tasks -> SUBSET Packet]
    /\ task \in 0 .. MaxStarts
    /\ holder \in Callers \cup {NONE}
    /\ call \in [Callers -> {"idle", "stopping", "joining"}]
    /\ cancelled \in BOOLEAN
    /\ starts \in 0 .. MaxStarts
    /\ changes \in 0 .. MaxChanges
    /\ stops \in 0 .. MaxStops

Init ==
    /\ advertised = [id \in SenderIds |-> NONE]
    /\ beat = [t \in Tasks |-> "none"]
    /\ queue = [t \in Tasks |-> {}]
    /\ task = 0 /\ holder = NONE
    /\ call = [c \in Callers |-> "idle"]
    /\ cancelled = FALSE
    /\ starts = 0 /\ changes = 0 /\ stops = 0

-----------------------------------------------------------------------------
(* The registry.                                                           *)

\* Mutant: the sender is left out.
MarshalData(id, d) == [data |-> d]

\* build_response_packet: the packet carries the sender and every field.
Marshal(id, d) == [sender |-> id, data |-> d]

\* An entry that cannot be marshaled is reported and changes nothing.
Insert(reg, id, d) ==
    IF d \in Encodable
      THEN [reg EXCEPT ![id] = [data |-> d, packet |-> Marshal(id, d)]]
      ELSE reg

\* Mutant: an entry that is already advertised keeps its packet.
PutKeepingPacket(reg, e) ==
    IF reg[e.sender_id] # NONE
      THEN [reg EXCEPT ![e.sender_id].data = e.data]
      ELSE Insert(reg, e.sender_id, e.data)

\* One round of the loop in replace_all: unchanged entries are not marshaled.
Put(reg, e) ==
    IF reg[e.sender_id] # NONE /\ reg[e.sender_id].data = e.data
      THEN reg
      ELSE Insert(reg, e.sender_id, e.data)

\* Mutant: entries that are no longer advertised stay.
RetainAll(reg, entries) == reg

Retain(reg, entries) ==
    [id \in SenderIds |->
       IF \E i \in DOMAIN entries : entries[i].sender_id = id THEN reg[id] ELSE NONE]

\* The registry after each round of the loop.
Rounds(reg, entries) ==
    LET after[i \in 0 .. Len(entries)] ==
          IF i = 0 THEN Retain(reg, entries) ELSE Put(after[i - 1], entries[i])
    IN  after

ReplacedBy(reg, entries) == Rounds(reg, entries)[Len(entries)]

Changes(reg) ==
    /\ changes < MaxChanges /\ changes' = changes + 1
    /\ advertised' = reg
    /\ UNCHANGED <<beatVars, callVars>>

\* advertise, and update_host, which only calls it.
Advertise(id, d) == Changes(Insert(advertised, id, d))

Unadvertise(id) == Changes([advertised EXCEPT ![id] = NONE])

replace_all(entries) == Changes(ReplacedBy(advertised, entries))

-----------------------------------------------------------------------------
(* start and stop.                                                         *)

\* Mutant: a second start spawns a second task.
AnyTask == TRUE

NoTask == task = 0

Start(c) ==
    /\ call[c] = "idle" /\ holder = NONE
    /\ NoTask
    /\ starts < MaxStarts
    /\ starts' = starts + 1 /\ task' = starts + 1
    /\ beat' = [beat EXCEPT ![starts + 1] = "select"]
    /\ UNCHANGED <<regVars, queue, holder, call, cancelled, stops>>

\* stop cancels before it asks for the mutex ...
StopCancels(c) ==
    /\ call[c] = "idle"
    /\ stops < MaxStops /\ stops' = stops + 1
    /\ cancelled' = TRUE
    /\ call' = [call EXCEPT ![c] = "stopping"]
    /\ UNCHANGED <<regVars, beatVars, task, holder, starts>>

\* ... takes the handle, and keeps the mutex while it waits for the task.
StopTakes(c) ==
    /\ call[c] = "stopping" /\ holder = NONE
    /\ IF task # 0
         THEN holder' = c /\ call' = [call EXCEPT ![c] = "joining"]
         ELSE call' = [call EXCEPT ![c] = "idle"] /\ UNCHANGED holder
    /\ UNCHANGED <<regVars, beatVars, task, cancelled, starts, stops>>

\* The handle was taken: None is left behind.
StopJoins(c) ==
    /\ call[c] = "joining" /\ beat[task] = "ended"
    /\ task' = 0 /\ holder' = NONE
    /\ call' = [call EXCEPT ![c] = "idle"]
    /\ UNCHANGED <<regVars, beatVars, cancelled, starts, stops>>

-----------------------------------------------------------------------------
(* The heartbeat task t.                                                   *)

\* Mutant: only one of the packets is sent.
OnePacket ==
    LET ids == {id \in SenderIds : advertised[id] # NONE}
    IN  IF ids = {} THEN {} ELSE {advertised[CHOOSE id \in ids : TRUE].packet}

Packets == {advertised[id].packet : id \in {i \in SenderIds : advertised[i] # NONE}}

\* broadcast_once copies the packets under the lock ...
Tick(t) ==
    /\ beat[t] = "select"
    /\ beat' = [beat EXCEPT ![t] = "sending"]
    /\ queue' = [queue EXCEPT ![t] = Packets]
    /\ UNCHANGED <<regVars, callVars>>

\* ... and sends them one by one, while the registry changes.
SendPacket(t) ==
    /\ beat[t] = "sending"
    /\ \E p \in queue[t] : queue' = [queue EXCEPT ![t] = @ \ {p}]
    /\ UNCHANGED <<regVars, beat, callVars>>

BroadcastDone(t) ==
    /\ beat[t] = "sending" /\ queue[t] = {}
    /\ beat' = [beat EXCEPT ![t] = "select"]
    /\ UNCHANGED <<regVars, queue, callVars>>

\* Mutant: the task does not watch the token.
NotCancelled(t) == FALSE

\* The cancellation is only seen in select!, never during a broadcast.
Cancelled(t) ==
    /\ beat[t] = "select" /\ cancelled
    /\ beat' = [beat EXCEPT ![t] = "ended"]
    /\ UNCHANGED <<regVars, queue, callVars>>

-----------------------------------------------------------------------------

EntryLists == BoundedSeq(Entry, MaxEntries)

Next ==
    \/ \E id \in SenderIds, d \in Data : Advertise(id, d)
    \/ \E id \in SenderIds : Unadvertise(id)
    \/ \E entries \in EntryLists : replace_all(entries)
    \/ \E c \in Callers : Start(c) \/ StopCancels(c) \/ StopTakes(c) \/ StopJoins(c)
    \/ \E t \in Tasks : Tick(t) \/ SendPacket(t) \/ BroadcastDone(t) \/ Cancelled(t)

Spec == Init /\ [][Next]_vars

(* A started call and a running heartbeat go on.  Cancelled is strongly    *)
(* fair: select! polls its branches in random order, so a token that stays *)
(* cancelled is seen although ticks are ready as often.                    *)
Fairness ==
    /\ \A c \in Callers : WF_vars(StopTakes(c)) /\ WF_vars(StopJoins(c))
    /\ \A t \in Tasks : /\ WF_vars(Tick(t)) /\ WF_vars(SendPacket(t))
                        /\ WF_vars(BroadcastDone(t)) /\ SF_vars(Cancelled(t))

FairSpec == Spec /\ Fairness

-----------------------------------------------------------------------------
(* Properties.                                                             *)

\* The cached packet of every advertised server is the one that its current
\* data would give, although packets are only rebuilt when the data changes.
PacketsMatchData ==
    \A id \in SenderIds : advertised[id] # NONE =>
      advertised[id].packet = Marshal(id, advertised[id].data)

\* The last element of the list for id that can be marshaled.
LastFor(id, entries) ==
    {i \in DOMAIN entries :
       /\ entries[i].sender_id = id /\ entries[i].data \in Encodable
       /\ \A j \in DOMAIN entries :
            entries[j].sender_id = id /\ entries[j].data \in Encodable => j <= i}

\* replace_all leaves, for every list and every registry, exactly the servers
\* of the list: each with its last marshalable data, and otherwise what was
\* advertised for it before; the shortcut for unchanged entries is invisible.
ReplaceAllReplaces ==
    \A entries \in EntryLists :
      LET now == ReplacedBy(advertised, entries)
      IN  \A id \in SenderIds :
            LET last == LastFor(id, entries)
            IN  IF last # {}
                  THEN \A i \in last : now[id] # NONE /\ now[id].data = entries[i].data
                  ELSE now[id] = IF \E i \in DOMAIN entries : entries[i].sender_id = id
                                   THEN advertised[id] ELSE NONE

\* At most one heartbeat task runs, and when stop has returned none does:
\* whatever start and stop calls overlap, no task runs without its handle.
OneHeartbeat ==
    \A t \in Tasks : beat[t] \in {"select", "sending"} => t = task

\* stop returns: the broadcast that it waits for ends.
StopReturns ==
    \A c \in Callers : call[c] # "idle" ~> call[c] = "idle"

\* While the heartbeat is started and not stopped, every server that stays
\* advertised is broadcast again and again.
AdvertisedServersAreShown ==
    \A id \in SenderIds, d \in Encodable :
      <>[](/\ task # 0 /\ ~cancelled
           /\ advertised[id] # NONE /\ advertised[id].data = d)
      => []<>(\E t \in Tasks : Marshal(id, d) \in queue[t])

\* What the comment on start promises: "Start the heartbeat advertisement
\* loop."  After a start that no stop follows, the loop runs.
StartedHeartbeatRuns ==
    <>[](task # 0 /\ \A c \in Callers : call[c] = "idle")
      => []<>(\E t \in Tasks : beat[t] \in {"select", "sending"})
=============================================================================
