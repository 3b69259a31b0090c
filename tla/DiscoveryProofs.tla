--------------------------- MODULE DiscoveryProofs ---------------------------
(***************************************************************************)
(* Proofs about the discovery service: the heartbeat task is the only one, *)
(* for any number of callers of start and stop, and replace_all leaves     *)
(* what it was given, for lists of any length.                             *)
(***************************************************************************)
EXTENDS Discovery, SequenceTheorems, WellFoundedInduction, TLAPS

\* Without a handle nothing runs, and only the caller that waits for the task
\* has the mutex, so that the handle it waits for stays.
HeartbeatInv ==
    /\ starts \in Nat /\ task \in 0 .. starts
    /\ beat \in [Tasks -> {"none", "select", "sending", "ended"}]
    /\ call \in [Callers -> {"idle", "stopping", "joining"}]
    /\ \A c \in Callers : call[c] = "joining" => holder = c
    /\ \A t \in Tasks : t > starts => beat[t] = "none"
    /\ OneHeartbeat

\* One step of start, stop, the heartbeat or the registry.
LEMMA HeartbeatStep == HeartbeatInv /\ [Next]_vars => HeartbeatInv'
  <1> SUFFICES ASSUME HeartbeatInv, [Next]_vars PROVE HeartbeatInv'
    OBVIOUS
  <1> USE DiscoveryAssumption
  <1>1. /\ starts \in Nat /\ task \in 0 .. starts
        /\ beat \in [Tasks -> {"none", "select", "sending", "ended"}]
        /\ call \in [Callers -> {"idle", "stopping", "joining"}]
    BY DEF HeartbeatInv
  <1>2. CASE UNCHANGED <<beat, callVars>>
    BY <1>2 DEF HeartbeatInv, OneHeartbeat, callVars
  <1>3. ASSUME NEW c \in Callers, Start(c) PROVE HeartbeatInv'
    <2>1. /\ task = 0 /\ starts' = starts + 1 /\ task' = starts + 1 /\ starts < MaxStarts
          /\ holder' = holder /\ call' = call
          /\ beat' = [beat EXCEPT ![starts + 1] = "select"]
      BY <1>3 DEF Start, NoTask
    <2>2. \A t \in Tasks : beat[t] \notin {"select", "sending"}
      BY <2>1 DEF HeartbeatInv, OneHeartbeat, Tasks
    <2>3. /\ beat' \in [Tasks -> {"none", "select", "sending", "ended"}]
          /\ \A t \in Tasks : t # starts + 1 => beat'[t] = beat[t]
      BY <1>1, <2>1
    <2>4. OneHeartbeat'
      BY <2>1, <2>2, <2>3 DEF OneHeartbeat
    <2>5. \A t \in Tasks : t > starts' => beat'[t] = "none"
      BY <1>1, <2>1, <2>3 DEF HeartbeatInv, Tasks
    <2> QED  BY <1>1, <2>1, <2>3, <2>4, <2>5 DEF HeartbeatInv
  <1>4. ASSUME NEW c \in Callers, StopCancels(c) \/ StopTakes(c) PROVE HeartbeatInv'
    <2>1. beat' = beat /\ task' = task /\ starts' = starts
      BY <1>4 DEF StopCancels, StopTakes, beatVars
    <2>2. call' \in [Callers -> {"idle", "stopping", "joining"}]
      BY <1>1, <1>4 DEF StopCancels, StopTakes
    <2>3. \A d \in Callers : call'[d] = "joining" => holder' = d
      <3>1. CASE StopCancels(c)
        BY <1>1, <3>1 DEF StopCancels, HeartbeatInv
      <3>2. CASE StopTakes(c)
        BY <1>1, <3>2 DEF StopTakes, HeartbeatInv
      <3> QED  BY <1>4, <3>1, <3>2
    <2> QED  BY <2>1, <2>2, <2>3 DEF HeartbeatInv, OneHeartbeat
  <1>5. ASSUME NEW c \in Callers, StopJoins(c) PROVE HeartbeatInv'
    <2>1. /\ call[c] = "joining" /\ beat[task] = "ended" /\ task' = 0 /\ beat' = beat
          /\ starts' = starts /\ call' = [call EXCEPT ![c] = "idle"]
      BY <1>5 DEF StopJoins, beatVars
    <2>2. \A d \in Callers : call'[d] # "joining"
      BY <1>1, <2>1 DEF HeartbeatInv
    <2>3. \A t \in Tasks : beat[t] \notin {"select", "sending"}
      BY <2>1 DEF HeartbeatInv, OneHeartbeat
    <2> QED  BY <1>1, <2>1, <2>2, <2>3 DEF HeartbeatInv, OneHeartbeat
  <1>6. ASSUME NEW t \in Tasks, Tick(t) \/ BroadcastDone(t) \/ Cancelled(t) PROVE HeartbeatInv'
    <2>1. beat[t] \in {"select", "sending"} /\ UNCHANGED callVars
      BY <1>6 DEF Tick, BroadcastDone, Cancelled
    <2>2. PICK b \in {"select", "sending", "ended"} : beat' = [beat EXCEPT ![t] = b]
      BY <1>6 DEF Tick, BroadcastDone, Cancelled
    <2>3. t = task
      BY <2>1 DEF HeartbeatInv, OneHeartbeat
    <2>4. OneHeartbeat'
      BY <1>1, <2>1, <2>2, <2>3 DEF HeartbeatInv, OneHeartbeat, callVars
    <2>5. \A u \in Tasks : u > starts => beat'[u] = "none"
      BY <1>1, <2>2, <2>3 DEF HeartbeatInv, Tasks
    <2> QED  BY <1>1, <2>1, <2>2, <2>4, <2>5 DEF HeartbeatInv, callVars
  <1>7. \/ UNCHANGED <<beat, callVars>>
        \/ \E c \in Callers : Start(c) \/ StopCancels(c) \/ StopTakes(c) \/ StopJoins(c)
        \/ \E t \in Tasks : Tick(t) \/ BroadcastDone(t) \/ Cancelled(t)
    BY DEF Next, vars, beatVars, Changes, Advertise, Unadvertise, replace_all, SendPacket
  <1> QED  BY <1>2, <1>3, <1>4, <1>5, <1>6, <1>7

\* Whatever calls of start and stop overlap, at most one heartbeat task runs,
\* and none without its handle.
THEOREM HeartbeatAlone == Spec => []OneHeartbeat
  <1>1. Init => HeartbeatInv
    BY DiscoveryAssumption DEF Init, HeartbeatInv, OneHeartbeat, Tasks
  <1>2. HeartbeatInv => OneHeartbeat
    BY DEF HeartbeatInv
  <1> QED  BY <1>1, <1>2, HeartbeatStep, PTL DEF Spec

-----------------------------------------------------------------------------
(* Induction.                                                              *)

\* A set of numbers that is not empty has a least one.
LEMMA LeastNumber ==
    ASSUME NEW T \in SUBSET Nat, T # {}
    PROVE  \E x \in T : \A y \in T : x <= y
  <1> DEFINE R == OpToRel(<, Nat)
  <1>1. IsWellFoundedOn(R, Nat)
    BY NatLessThanWellFounded
  <1>2. \A x, y \in Nat : y < x => <<y, x>> \in R
    BY DEF OpToRel
  <1> HIDE DEF R
  <1>3. PICK x \in T : \A y \in T : ~(<<y, x>> \in R)
    BY <1>1, WFMin
  <1>4. \A y \in T : ~(y < x)
    BY <1>2, <1>3
  <1>5. \A y \in T : x <= y
    BY <1>4
  <1> QED  BY <1>5

\* Induction, for the set of the numbers that have a property.
LEMMA SetInduction ==
    ASSUME NEW S \in SUBSET Nat, 0 \in S, \A n \in S : n + 1 \in S
    PROVE  S = Nat
  <1>1. ASSUME Nat \ S # {} PROVE FALSE
    <2>1. PICK x \in Nat \ S : \A y \in Nat \ S : x <= y
      BY <1>1, LeastNumber
    <2>2. x - 1 \in Nat /\ x - 1 \notin Nat \ S
      BY <2>1
    <2> QED  BY <2>1, <2>2
  <1> QED  BY <1>1

-----------------------------------------------------------------------------
(* replace_all.                                                            *)

\* The lists of any bound are lists of entries.
LEMMA EntryListTypes ==
    ASSUME NEW entries \in EntryLists
    PROVE  /\ Len(entries) \in Nat /\ DOMAIN entries = 1 .. Len(entries)
           /\ \A i \in 1 .. Len(entries) : entries[i] \in Entry
  <1>1. PICK m \in 0 .. MaxEntries : entries \in [1 .. m -> Entry]
    BY DEF EntryLists, BoundedSeq, SeqOf
  <1>2. m \in Nat
    BY <1>1
  <1>3. entries \in Seq(Entry)
    BY <1>1, <1>2
  <1> QED  BY <1>3, LenProperties, ElementOfSeq

\* The loop of replace_all has a result for every list: the registry after
\* round i is the one after round i - 1 with entry i put in.
LEMMA RoundsUnfold ==
    ASSUME NEW reg, NEW entries, Len(entries) \in Nat
    PROVE  /\ Rounds(reg, entries)[0] = Retain(reg, entries)
           /\ \A i \in 1 .. Len(entries) :
                Rounds(reg, entries)[i] = Put(Rounds(reg, entries)[i - 1], entries[i])
  <1> DEFINE first == Retain(reg, entries)
             Step(g, n) == g = [i \in 0 .. n |-> IF i = 0 THEN first ELSE Put(g[i - 1], entries[i])]
             S == {n \in Nat : \E g : Step(g, n)}
  <1>1. 0 \in S
    <2>1. Step([i \in 0 .. 0 |-> first], 0)
      OBVIOUS
    <2> QED  BY <2>1
  <1>2. ASSUME NEW n \in S PROVE n + 1 \in S
    <2>1. PICK g : Step(g, n)
      OBVIOUS
    <2> DEFINE h == [i \in 0 .. (n + 1) |-> IF i <= n THEN g[i] ELSE Put(g[n], entries[n + 1])]
    <2>2. \A i \in 0 .. n : h[i] = g[i]
      OBVIOUS
    <2>3. ASSUME NEW i \in 0 .. (n + 1)
          PROVE  h[i] = IF i = 0 THEN first ELSE Put(h[i - 1], entries[i])
      <3>1. CASE i <= n
        <4>1. h[i] = g[i] /\ i \in 0 .. n
          BY <2>2, <3>1
        <4>2. g[i] = IF i = 0 THEN first ELSE Put(g[i - 1], entries[i])
          BY <2>1, <4>1
        <4>3. i # 0 => h[i - 1] = g[i - 1]
          BY <2>2, <4>1
        <4> QED  BY <4>1, <4>2, <4>3
      <3>2. CASE i = n + 1
        <4>1. i # 0 /\ i - 1 = n /\ h[i] = Put(g[n], entries[n + 1]) /\ h[n] = g[n]
          BY <2>2, <3>2
        <4> QED  BY <3>2, <4>1
      <3> QED  BY <3>1, <3>2
    <2> HIDE DEF first
    <2>4. Step(h, n + 1)
      BY <2>3
    <2> HIDE DEF Step, h
    <2>5. \E g2 : Step(g2, n + 1)
      BY <2>4
    <2> QED  BY <2>5
  <1>3. S = Nat
    <2> HIDE DEF S
    <2>1. S \subseteq Nat
      BY DEF S
    <2> QED  BY <1>1, <1>2, <2>1, SetInduction
  <1>4. \E g : Step(g, Len(entries))
    BY <1>3
  <1>5. Rounds(reg, entries) = CHOOSE g : Step(g, Len(entries))
    BY DEF Rounds
  <1>6. Step(Rounds(reg, entries), Len(entries))
    <2> HIDE DEF Step
    <2> QED  BY <1>4, <1>5
  <1> QED  BY <1>6

Registry == [SenderIds -> Cached \cup {NONE}]

\* Each packet of a registry is that of its data.
Matches(reg) ==
    \A id \in SenderIds : reg[id] # NONE => reg[id].packet = Marshal(id, reg[id].data)

\* insert changes the entry of one sender, if the data can be marshaled.
LEMMA InsertEffect ==
    ASSUME NEW reg \in Registry, Matches(reg), NEW id \in SenderIds, NEW d \in Data
    PROVE  /\ Insert(reg, id, d) \in Registry /\ Matches(Insert(reg, id, d))
           /\ \A i \in SenderIds : i # id => Insert(reg, id, d)[i] = reg[i]
           /\ IF d \in Encodable
                THEN Insert(reg, id, d)[id] # NONE /\ Insert(reg, id, d)[id].data = d
                ELSE Insert(reg, id, d) = reg
  <1>1. CASE d \notin Encodable
    BY <1>1 DEF Insert
  <1>2. CASE d \in Encodable
    <2> DEFINE c == [data |-> d, packet |-> Marshal(id, d)]
    <2>1. Marshal(id, d) \in Packet
      BY DEF Marshal, Packet
    <2>2. c \in Cached /\ c.data = d /\ c.packet = Marshal(id, d)
      BY <2>1 DEF Cached
    <2>3. c # NONE
      BY <2>2, DiscoveryAssumption
    <2>4. Insert(reg, id, d) = [reg EXCEPT ![id] = c]
      BY <1>2 DEF Insert
    <2> HIDE DEF c
    <2>5. /\ Insert(reg, id, d) \in Registry /\ Insert(reg, id, d)[id] = c
          /\ \A i \in SenderIds : i # id => Insert(reg, id, d)[i] = reg[i]
      BY <2>2, <2>4 DEF Registry
    <2>6. Matches(Insert(reg, id, d))
      BY <2>2, <2>5 DEF Matches
    <2> QED  BY <1>2, <2>2, <2>3, <2>5, <2>6
  <1> QED  BY <1>1, <1>2

\* One round of replace_all does the same: what it skips was there.
LEMMA PutEffect ==
    ASSUME NEW reg \in Registry, Matches(reg), NEW e \in Entry
    PROVE  /\ Put(reg, e) \in Registry /\ Matches(Put(reg, e))
           /\ \A i \in SenderIds : i # e.sender_id => Put(reg, e)[i] = reg[i]
           /\ IF e.data \in Encodable
                THEN /\ Put(reg, e)[e.sender_id] # NONE
                     /\ Put(reg, e)[e.sender_id].data = e.data
                ELSE Put(reg, e) = reg
  <1>1. e.sender_id \in SenderIds /\ e.data \in Data
    BY DEF Entry
  <1>2. CASE reg[e.sender_id] # NONE /\ reg[e.sender_id].data = e.data
    BY <1>2 DEF Put
  <1>3. CASE ~(reg[e.sender_id] # NONE /\ reg[e.sender_id].data = e.data)
    <2>1. Put(reg, e) = Insert(reg, e.sender_id, e.data)
      BY <1>3 DEF Put
    <2> QED  BY <1>1, <2>1, InsertEffect
  <1> QED  BY <1>2, <1>3

\* What replace_all has made of the registry after round n: each sender has
\* the last data of the entries so far that could be marshaled, or else what
\* was retained for it.
Replacing(reg, entries, n) ==
    LET now == Rounds(reg, entries)[n]
    IN  /\ now \in Registry /\ Matches(now)
        /\ \A id \in SenderIds :
             LET seen == {j \in 1 .. n : /\ entries[j].sender_id = id
                                         /\ entries[j].data \in Encodable}
             IN  /\ seen = {} => now[id] = Retain(reg, entries)[id]
                 /\ \A i \in seen : (\A j \in seen : j <= i) =>
                      now[id] # NONE /\ now[id].data = entries[i].data

\* Round n + 1 keeps that up.
LEMMA ReplacingStep ==
    ASSUME NEW reg \in Registry, NEW entries \in EntryLists,
           NEW n \in Nat, n + 1 <= Len(entries), Replacing(reg, entries, n)
    PROVE  Replacing(reg, entries, n + 1)
  <1> DEFINE old == Rounds(reg, entries)[n]
             now == Rounds(reg, entries)[n + 1]
             e == entries[n + 1]
             Seen(m, id) == {j \in 1 .. m : /\ entries[j].sender_id = id
                                            /\ entries[j].data \in Encodable}
  <1>1. n + 1 \in 1 .. Len(entries) /\ e \in Entry
    BY EntryListTypes
  <1>2. now = Put(old, e)
    <2>1. Rounds(reg, entries)[n + 1] = Put(Rounds(reg, entries)[n + 1 - 1], entries[n + 1])
      BY <1>1, EntryListTypes, RoundsUnfold
    <2>2. n + 1 - 1 = n
      OBVIOUS
    <2> QED  BY <2>1, <2>2
  <1>3. /\ old \in Registry /\ Matches(old)
        /\ \A id \in SenderIds :
             /\ Seen(n, id) = {} => old[id] = Retain(reg, entries)[id]
             /\ \A i \in Seen(n, id) : (\A j \in Seen(n, id) : j <= i) =>
                  old[id] # NONE /\ old[id].data = entries[i].data
    BY DEF Replacing
  <1> HIDE DEF old, now, e
  <1>4. /\ now \in Registry /\ Matches(now)
        /\ \A i \in SenderIds : i # e.sender_id => now[i] = old[i]
        /\ IF e.data \in Encodable
             THEN now[e.sender_id] # NONE /\ now[e.sender_id].data = e.data
             ELSE now = old
    BY <1>1, <1>2, <1>3, PutEffect
  <1>5. ASSUME NEW id \in SenderIds
        PROVE  /\ Seen(n + 1, id) = {} => now[id] = Retain(reg, entries)[id]
               /\ \A i \in Seen(n + 1, id) : (\A j \in Seen(n + 1, id) : j <= i) =>
                    now[id] # NONE /\ now[id].data = entries[i].data
    <2>1. CASE e.sender_id = id /\ e.data \in Encodable
      <3>1. n + 1 \in Seen(n + 1, id)
        BY <2>1 DEF e
      <3>2. \A i \in Seen(n + 1, id) : (\A j \in Seen(n + 1, id) : j <= i) => i = n + 1
        BY <3>1
      <3> QED  BY <1>4, <2>1, <3>1, <3>2 DEF e
    <2>2. CASE ~(e.sender_id = id /\ e.data \in Encodable)
      <3>1. Seen(n + 1, id) = Seen(n, id)
        BY <2>2 DEF e
      <3>2. now[id] = old[id]
        BY <1>4, <2>2
      <3> HIDE DEF Seen
      <3> QED  BY <1>3, <3>1, <3>2
    <2> QED  BY <2>1, <2>2
  <1> QED  BY <1>4, <1>5 DEF Replacing, now

\* After every round, so when replace_all returns.
LEMMA ReplacedEffect ==
    ASSUME NEW reg \in Registry, Matches(reg), NEW entries \in EntryLists
    PROVE  Replacing(reg, entries, Len(entries))
  <1> DEFINE S == {n \in Nat : n <= Len(entries) => Replacing(reg, entries, n)}
  <1>t. Len(entries) \in Nat
    BY EntryListTypes
  <1>1. 0 \in S
    <2> DEFINE r == Retain(reg, entries)
    <2>1. r \in Registry /\ \A id \in SenderIds : r[id] \in {reg[id], NONE}
      BY DEF Retain, Registry
    <2>2. Matches(r)
      BY <2>1 DEF Matches
    <2>3. Rounds(reg, entries)[0] = r
      BY <1>t, RoundsUnfold
    <2> HIDE DEF r
    <2>4. 1 .. 0 = {}
      OBVIOUS
    <2>5. \A id \in SenderIds :
            {j \in 1 .. 0 : entries[j].sender_id = id /\ entries[j].data \in Encodable} = {}
      BY <2>4
    <2>6. Replacing(reg, entries, 0)
      BY <2>1, <2>2, <2>3, <2>5 DEF Replacing, r
    <2> QED  BY <2>6
  <1>2. ASSUME NEW n \in S PROVE n + 1 \in S
    <2>1. n \in Nat /\ (n + 1 <= Len(entries) => Replacing(reg, entries, n))
      BY <1>t
    <2>2. n + 1 <= Len(entries) => Replacing(reg, entries, n + 1)
      BY <2>1, ReplacingStep
    <2> QED  BY <2>1, <2>2
  <1>3. S = Nat
    <2> HIDE DEF S
    <2>1. S \subseteq Nat
      BY DEF S
    <2> QED  BY <1>1, <1>2, <2>1, SetInduction
  <1> QED  BY <1>t, <1>3

-----------------------------------------------------------------------------
(* The registry.                                                           *)

RegistryInv == advertised \in Registry /\ PacketsMatchData

\* Only advertise, unadvertise and replace_all change the registry.
LEMMA RegistryStep == RegistryInv /\ [Next]_vars => RegistryInv'
  <1> SUFFICES ASSUME RegistryInv, [Next]_vars PROVE RegistryInv'
    OBVIOUS
  <1>t. advertised \in Registry /\ Matches(advertised)
    BY DEF RegistryInv, PacketsMatchData, Matches
  <1>m. advertised' \in Registry /\ Matches(advertised') => RegistryInv'
    BY DEF RegistryInv, PacketsMatchData, Matches
  <1>1. ASSUME NEW id \in SenderIds, NEW d \in Data, Advertise(id, d) PROVE RegistryInv'
    <2>1. advertised' = Insert(advertised, id, d)
      BY <1>1 DEF Advertise, Changes
    <2> QED  BY <1>t, <1>m, <2>1, InsertEffect
  <1>2. ASSUME NEW id \in SenderIds, Unadvertise(id) PROVE RegistryInv'
    <2>1. advertised' = [advertised EXCEPT ![id] = NONE]
      BY <1>2 DEF Unadvertise, Changes
    <2>2. /\ advertised' \in Registry
          /\ \A i \in SenderIds : advertised'[i] \in {advertised[i], NONE}
      BY <1>t, <2>1 DEF Registry
    <2>3. Matches(advertised')
      BY <1>t, <2>2 DEF Matches
    <2> QED  BY <1>m, <2>2, <2>3
  <1>3. ASSUME NEW entries \in EntryLists, replace_all(entries) PROVE RegistryInv'
    <2>1. advertised' = Rounds(advertised, entries)[Len(entries)]
      BY <1>3 DEF replace_all, Changes, ReplacedBy
    <2>2. Replacing(advertised, entries, Len(entries))
      BY <1>t, ReplacedEffect
    <2> QED  BY <1>m, <2>1, <2>2 DEF Replacing
  <1>4. CASE UNCHANGED advertised
    BY <1>t, <1>m, <1>4
  <1>5. \/ UNCHANGED advertised
        \/ \E id \in SenderIds, d \in Data : Advertise(id, d)
        \/ \E id \in SenderIds : Unadvertise(id)
        \/ \E entries \in EntryLists : replace_all(entries)
    BY DEF Next, vars, regVars, Start, StopCancels, StopTakes, StopJoins, Tick, SendPacket,
       BroadcastDone, Cancelled
  <1> QED  BY <1>1, <1>2, <1>3, <1>4, <1>5

\* The registry maps senders to cached advertisements whose packets match.
LEMMA RegistryCorrect == Spec => []RegistryInv
  <1>1. Init => RegistryInv
    BY DEF Init, RegistryInv, Registry, PacketsMatchData
  <1> QED  BY <1>1, RegistryStep, PTL DEF Spec

\* No change of the registry leaves a packet of other data behind, although
\* replace_all does not marshal what it takes for unchanged.
THEOREM PacketsMatch == Spec => []PacketsMatchData
  <1>1. RegistryInv => PacketsMatchData
    BY DEF RegistryInv
  <1> QED  BY <1>1, RegistryCorrect, PTL

\* A sender with an entry that can be marshaled has a last one.
LEMMA SeenHasLast ==
    ASSUME NEW entries, Len(entries) \in Nat, DOMAIN entries = 1 .. Len(entries),
           NEW id,
           \E j \in DOMAIN entries : entries[j].sender_id = id /\ entries[j].data \in Encodable
    PROVE  LastFor(id, entries) # {}
  <1> DEFINE seen == {j \in 1 .. Len(entries) : /\ entries[j].sender_id = id
                                                /\ entries[j].data \in Encodable}
             T == {Len(entries) - j : j \in seen}
  <1>1. T \in SUBSET Nat /\ T # {}
    OBVIOUS
  <1>2. PICK x \in T : \A y \in T : x <= y
    BY <1>1, LeastNumber
  <1>3. PICK i \in seen : x = Len(entries) - i
    BY <1>2
  <1>4. ASSUME NEW j \in seen PROVE j <= i
    <2>1. Len(entries) - j \in T
      OBVIOUS
    <2>2. Len(entries) - i <= Len(entries) - j
      BY <1>2, <1>3, <2>1
    <2>3. i \in Nat /\ j \in Nat
      OBVIOUS
    <2> QED  BY <2>2, <2>3
  <1>5. i \in LastFor(id, entries)
    BY <1>3, <1>4 DEF LastFor
  <1> QED  BY <1>5

\* The result of replace_all for one sender.
LEMMA ReplacedFor ==
    ASSUME NEW reg \in Registry, Matches(reg), NEW entries \in EntryLists, NEW id \in SenderIds
    PROVE  LET last == LastFor(id, entries)
               now  == ReplacedBy(reg, entries)[id]
           IN  IF last # {}
                 THEN \A i \in last : now # NONE /\ now.data = entries[i].data
                 ELSE now = IF \E i \in DOMAIN entries : entries[i].sender_id = id
                              THEN reg[id] ELSE NONE
  <1> DEFINE now == ReplacedBy(reg, entries)[id]
             seen == {j \in 1 .. Len(entries) : /\ entries[j].sender_id = id
                                                /\ entries[j].data \in Encodable}
  <1>t. Len(entries) \in Nat /\ DOMAIN entries = 1 .. Len(entries)
    BY EntryListTypes
  <1>1. Replacing(reg, entries, Len(entries))
    BY ReplacedEffect
  <1>2. /\ seen = {} => now = Retain(reg, entries)[id]
        /\ \A i \in seen : (\A j \in seen : j <= i) => now # NONE /\ now.data = entries[i].data
    BY <1>1 DEF Replacing, ReplacedBy
  <1>3. Retain(reg, entries)[id] =
          IF \E i \in DOMAIN entries : entries[i].sender_id = id THEN reg[id] ELSE NONE
    BY DEF Retain
  <1>4. \A i \in LastFor(id, entries) : i \in seen /\ \A j \in seen : j <= i
    BY <1>t DEF LastFor
  <1>5. seen # {} => LastFor(id, entries) # {}
    BY <1>t, SeenHasLast
  <1> HIDE DEF seen, now
  <1>6. CASE LastFor(id, entries) # {}
    <2>1. \A i \in LastFor(id, entries) : now # NONE /\ now.data = entries[i].data
      BY <1>2, <1>4
    <2> QED  BY <1>6, <2>1 DEF now
  <1>7. CASE LastFor(id, entries) = {}
    <2>1. now = Retain(reg, entries)[id]
      BY <1>2, <1>5, <1>7
    <2> QED  BY <1>3, <1>7, <2>1 DEF now
  <1> QED  BY <1>6, <1>7

\* In every state, replace_all with a list of any length would leave exactly
\* the servers of the list, each with its last data that can be marshaled and
\* otherwise with what was advertised for it.
THEOREM AllReplaced == Spec => []ReplaceAllReplaces
  <1>1. RegistryInv => advertised \in Registry /\ Matches(advertised)
    BY DEF RegistryInv, PacketsMatchData, Matches
  <1>2. RegistryInv => ReplaceAllReplaces
    BY <1>1, ReplacedFor DEF ReplaceAllReplaces
  <1> QED  BY <1>2, RegistryCorrect, PTL

\* The senders that a registry advertises.
Shown(reg) == {id \in SenderIds : reg[id] # NONE}

\* As far as the ids go, replace_all is what the node's model takes it for
\* (MineshaftNode's Replaced): senders of the list that were advertised stay,
\* the others of the list come if an entry of theirs can be marshaled, and
\* everybody else goes.
THEOREM ReplacedIds ==
    ASSUME NEW reg \in Registry, Matches(reg), NEW entries \in EntryLists
    PROVE  LET hosts == {id \in SenderIds : \E i \in DOMAIN entries : entries[i].sender_id = id}
               unencodable == {id \in SenderIds : \A i \in DOMAIN entries :
                                 entries[i].sender_id = id => entries[i].data \notin Encodable}
           IN  Shown(ReplacedBy(reg, entries)) = (Shown(reg) \cap hosts) \cup (hosts \ unencodable)
  <1> DEFINE Marshalable(id) == \E i \in DOMAIN entries : /\ entries[i].sender_id = id
                                                         /\ entries[i].data \in Encodable
             Listed(id) == \E i \in DOMAIN entries : entries[i].sender_id = id
  <1>t. Len(entries) \in Nat /\ DOMAIN entries = 1 .. Len(entries)
    BY EntryListTypes
  <1>1. ASSUME NEW id \in SenderIds
        PROVE  ReplacedBy(reg, entries)[id] # NONE
                 <=> Marshalable(id) \/ (Listed(id) /\ reg[id] # NONE)
    <2>1. CASE Marshalable(id)
      <3>1. PICK i \in LastFor(id, entries) : TRUE
        BY <1>t, <2>1, SeenHasLast
      <3>2. ReplacedBy(reg, entries)[id] # NONE
        BY <3>1, ReplacedFor
      <3> QED  BY <2>1, <3>2
    <2>2. CASE ~Marshalable(id)
      <3>1. LastFor(id, entries) = {}
        BY <2>2 DEF LastFor
      <3>2. ReplacedBy(reg, entries)[id] = IF Listed(id) THEN reg[id] ELSE NONE
        BY <3>1, ReplacedFor
      <3> QED  BY <2>2, <3>2
    <2> QED  BY <2>1, <2>2
  <1> QED  BY <1>1 DEF Shown

-----------------------------------------------------------------------------
(* Types.                                                                  *)

\* What RegistryInv and HeartbeatInv leave open.
ServiceTypes ==
    /\ queue \in [Tasks -> SUBSET Packet]
    /\ holder \in Callers \cup {NONE}
    /\ cancelled \in BOOLEAN
    /\ starts \in 0 .. MaxStarts
    /\ changes \in 0 .. MaxChanges
    /\ stops \in 0 .. MaxStops

\* One step of the registry, of start and stop, or of the heartbeat.
LEMMA ServiceTypesStep ==
    ASSUME RegistryInv, ServiceTypes, [Next]_vars
    PROVE  ServiceTypes'
  <1> USE DiscoveryAssumption
  <1>1. ASSUME NEW reg, Changes(reg) PROVE ServiceTypes'
    BY <1>1 DEF Changes, beatVars, callVars, ServiceTypes
  <1>2. ASSUME NEW c \in Callers, Start(c) \/ StopCancels(c) \/ StopTakes(c) \/ StopJoins(c)
        PROVE  ServiceTypes'
    <2>1. UNCHANGED <<queue, changes>>
      BY <1>2 DEF Start, StopCancels, StopTakes, StopJoins, regVars, beatVars
    <2>2. holder' \in Callers \cup {NONE} /\ cancelled' \in BOOLEAN
      BY <1>2 DEF Start, StopCancels, StopTakes, StopJoins, ServiceTypes
    <2>3. starts' \in 0 .. MaxStarts /\ stops' \in 0 .. MaxStops
      BY <1>2 DEF Start, StopCancels, StopTakes, StopJoins, ServiceTypes
    <2> QED  BY <2>1, <2>2, <2>3 DEF ServiceTypes
  <1>3. ASSUME NEW t \in Tasks, Tick(t) \/ SendPacket(t) \/ BroadcastDone(t) \/ Cancelled(t)
        PROVE  ServiceTypes'
    <2>1. UNCHANGED <<holder, cancelled, starts, changes, stops>>
      BY <1>3 DEF Tick, SendPacket, BroadcastDone, Cancelled, regVars, callVars
    <2>2. Packets \subseteq Packet
      BY DEF Packets, RegistryInv, Registry, Cached
    <2>3. \/ queue' = queue \/ queue' = [queue EXCEPT ![t] = Packets]
          \/ \E p \in queue[t] : queue' = [queue EXCEPT ![t] = queue[t] \ {p}]
      BY <1>3 DEF Tick, SendPacket, BroadcastDone, Cancelled
    <2>4. queue' \in [Tasks -> SUBSET Packet]
      BY <2>2, <2>3 DEF ServiceTypes
    <2> QED  BY <2>1, <2>4 DEF ServiceTypes
  <1>4. CASE UNCHANGED vars
    BY <1>4 DEF vars, regVars, beatVars, callVars, ServiceTypes
  <1> QED  BY <1>1, <1>2, <1>3, <1>4 DEF Next, Advertise, Unadvertise, replace_all

\* The registry, the handle, the mutex and the packets in flight stay what
\* their types say: DiscoveryTypeOK always holds.
THEOREM DiscoveryTypeCorrect == Spec => []DiscoveryTypeOK
  <1>1. Init => ServiceTypes
    <2> SUFFICES ASSUME Init PROVE ServiceTypes
      OBVIOUS
    <2>1. queue \in [Tasks -> SUBSET Packet]
      BY DEF Init
    <2>2. starts \in 0 .. MaxStarts /\ changes \in 0 .. MaxChanges /\ stops \in 0 .. MaxStops
      BY DiscoveryAssumption DEF Init
    <2>3. holder \in Callers \cup {NONE} /\ cancelled \in BOOLEAN
      BY DEF Init
    <2> QED  BY <2>1, <2>2, <2>3 DEF ServiceTypes
  <1>2. Init => HeartbeatInv
    BY DiscoveryAssumption DEF Init, HeartbeatInv, OneHeartbeat, Tasks
  <1>3. RegistryInv /\ HeartbeatInv /\ ServiceTypes => DiscoveryTypeOK
    <2> SUFFICES ASSUME RegistryInv, HeartbeatInv, ServiceTypes PROVE DiscoveryTypeOK
      OBVIOUS
    <2>1. task \in 0 .. MaxStarts
      BY DiscoveryAssumption DEF HeartbeatInv, ServiceTypes
    <2> QED  BY <2>1 DEF RegistryInv, Registry, HeartbeatInv, ServiceTypes, DiscoveryTypeOK
  <1> QED
    BY <1>1, <1>2, <1>3, ServiceTypesStep, HeartbeatStep, RegistryCorrect, PTL DEF Spec
=============================================================================
