----------------------------- MODULE CoreProofs -----------------------------
(***************************************************************************)
(* Proofs about the smaller components of the core and platform crates,    *)
(* for any number of callers, keys, hosts and sockets.                     *)
(***************************************************************************)
EXTENDS Relay, SessionRegistry, ProtectSocket, PortProbe, ProcessProbe, FiniteSetTheorems, TLAPS

-----------------------------------------------------------------------------
(* The callback slot.                                                      *)

\* Whatever the threads do, a callback that runs is the one in the slot: the
\* mutex is held around the call.
THEOREM RetiredRest == ProtectSpec => []RetiredCallbacksRest
<1>1. ProtectInit => RetiredCallbacksRest
  BY DEF ProtectInit, RetiredCallbacksRest
<1> DEFINE Inv == RetiredCallbacksRest /\ DOMAIN running = Threads
<1>2. ProtectInit => Inv
  BY <1>1 DEF ProtectInit
<1>3. Inv /\ [ProtectNext]_protectVars => Inv'
  BY DEF RetiredCallbacksRest, ProtectNext, set_protect_socket_callback,
         clear_protect_socket_callback, protect_socket, CallbackReturns,
         CallbackPanics, Locks, SlotFree, protectVars
<1> QED BY <1>2, <1>3, PTL DEF ProtectSpec

-----------------------------------------------------------------------------
(* Snapshots.                                                              *)

\* The entries that are left and the summary make up one of the registries.
MadeOf(regs, left, sum) ==
    \E reg \in regs :
      /\ reg \in [SessionKeys -> Handles \cup {NONE}]
      /\ \A k \in SessionKeys : reg[k] = IF left[k] # NONE THEN left[k] ELSE sum[k]

\* What is summarised and what is still to be summarised make up one of the
\* registries there were since the call.
SnapshotInv ==
    /\ tracked \in [SessionKeys -> Handles \cup {NONE}]
    /\ entries \in [Snapshots -> [SessionKeys -> Handles \cup {NONE}]]
    /\ summary \in [Snapshots -> [SessionKeys -> Handles \cup {NONE}]]
    /\ DOMAIN moments = Snapshots
    /\ \A p \in Snapshots :
         moments[p] # {} => MadeOf(moments[p], entries[p], summary[p])

\* Every snapshot is the registry at one moment of the call, for any number of
\* sessions and of concurrent calls.
THEOREM SnapshotsOneMoment == SessionSpec => []SnapshotsAreOneMoment
<1>1. SessionInit => SnapshotInv
  BY DEF SessionInit, SnapshotInv, EmptyMap
<1>2. SnapshotInv /\ [SessionNext]_sessionVars => SnapshotInv'
  <2> SUFFICES ASSUME SnapshotInv, [SessionNext]_sessionVars PROVE SnapshotInv'
    OBVIOUS
  <2> USE DEF SnapshotInv
  <2>1. ASSUME NEW r \in [SessionKeys -> Handles \cup {NONE}], Becomes(r)
        PROVE  SnapshotInv'
    BY <2>1 DEF Becomes, MadeOf
  <2>2. ASSUME NEW k \in SessionKeys, remove(k) \/ \E s \in Handles : upsert(k, s)
        PROVE  \E r \in [SessionKeys -> Handles \cup {NONE}] : Becomes(r)
    BY <2>2 DEF remove, upsert
  <2>3. ASSUME NEW p \in Snapshots, SnapshotCopies(p) PROVE SnapshotInv'
    <3>1. /\ tracked' = tracked /\ DOMAIN moments' = Snapshots
          /\ entries' \in [Snapshots -> [SessionKeys -> Handles \cup {NONE}]]
          /\ summary' \in [Snapshots -> [SessionKeys -> Handles \cup {NONE}]]
      BY <2>3 DEF SnapshotCopies, EmptyMap
    <3>2. moments'[p] = {tracked} /\ entries'[p] = tracked /\ summary'[p] = EmptyMap
      BY <2>3 DEF SnapshotCopies
    <3>3. \A q \in Snapshots : q # p =>
            moments'[q] = moments[q] /\ entries'[q] = entries[q] /\ summary'[q] = summary[q]
      BY <2>3 DEF SnapshotCopies
    <3>4. \A k \in SessionKeys :
            tracked[k] = IF entries'[p][k] # NONE THEN entries'[p][k] ELSE summary'[p][k]
      BY <3>2 DEF EmptyMap
    <3>5. \A q \in Snapshots : moments'[q] # {} =>
            MadeOf(moments'[q], entries'[q], summary'[q])
      <4> TAKE q \in Snapshots
      <4>1. CASE q = p
        BY <4>1, <3>2, <3>4 DEF MadeOf
      <4>2. CASE q # p
        BY <4>2, <3>3
      <4> QED BY <4>1, <4>2
    <3> QED BY <3>1, <3>5
  <2>4. ASSUME NEW p \in Snapshots, SnapshotAdds(p) PROVE SnapshotInv'
    <3>1. PICK k \in SessionKeys :
            /\ entries[p][k] # NONE
            /\ summary' = [summary EXCEPT ![p][k] = entries[p][k]]
            /\ entries' = [entries EXCEPT ![p][k] = NONE]
            /\ UNCHANGED <<tracked, moments>>
      BY <2>4 DEF SnapshotAdds, Copied
    <3>2. /\ entries' \in [Snapshots -> [SessionKeys -> Handles \cup {NONE}]]
          /\ summary' \in [Snapshots -> [SessionKeys -> Handles \cup {NONE}]]
      BY <3>1
    <3>3. \A q \in Snapshots, i \in SessionKeys :
            (IF entries'[q][i] # NONE THEN entries'[q][i] ELSE summary'[q][i])
              = (IF entries[q][i] # NONE THEN entries[q][i] ELSE summary[q][i])
      <4> TAKE q \in Snapshots, i \in SessionKeys
      <4>1. CASE q = p /\ i = k
        <5>1. entries'[p][k] = NONE /\ summary'[p][k] = entries[p][k]
          BY <3>1
        <5> QED BY <4>1, <5>1, <3>1
      <4>2. CASE ~(q = p /\ i = k)
        <5>1. entries'[q][i] = entries[q][i] /\ summary'[q][i] = summary[q][i]
          BY <4>2, <3>1
        <5> QED BY <5>1
      <4> QED BY <4>1, <4>2
    <3>4. \A q \in Snapshots : moments'[q] # {} =>
            MadeOf(moments'[q], entries'[q], summary'[q])
      <4> TAKE q \in Snapshots
      <4> HAVE moments'[q] # {}
      <4>1. PICK reg \in moments[q] :
              /\ reg \in [SessionKeys -> Handles \cup {NONE}]
              /\ \A i \in SessionKeys :
                   reg[i] = IF entries[q][i] # NONE THEN entries[q][i] ELSE summary[q][i]
        BY <3>1 DEF MadeOf
      <4>2. \A i \in SessionKeys :
              reg[i] = IF entries'[q][i] # NONE THEN entries'[q][i] ELSE summary'[q][i]
        BY <4>1, <3>3
      <4> QED BY <4>1, <4>2, <3>1 DEF MadeOf
    <3> QED BY <3>1, <3>2, <3>4
  <2>5. ASSUME NEW p \in Snapshots, SnapshotReturns(p) PROVE SnapshotInv'
    BY <2>5 DEF SnapshotReturns
  <2>6. CASE UNCHANGED sessionVars
    BY <2>6 DEF sessionVars
  <2> QED BY <2>1, <2>2, <2>3, <2>4, <2>5, <2>6 DEF SessionNext
<1>3. SnapshotInv => SnapshotsAreOneMoment
  <2> SUFFICES ASSUME SnapshotInv, NEW p \in Snapshots, Complete(p)
               PROVE  summary[p] \in moments[p]
    BY DEF SnapshotsAreOneMoment
  <2>1. PICK reg \in moments[p] :
          /\ reg \in [SessionKeys -> Handles \cup {NONE}]
          /\ \A k \in SessionKeys : reg[k] = summary[p][k]
    BY DEF SnapshotInv, MadeOf, Complete, EmptyMap
  <2> QED BY <2>1 DEF SnapshotInv
<1> QED BY <1>1, <1>2, <1>3, PTL DEF SessionSpec

-----------------------------------------------------------------------------
(* The port probe.                                                         *)

\* What the scan has left behind: a family bound all through is bound now, and
\* the IPv4 table was only passed without a hit if it has none to show.
PortInv ==
    /\ step \in {"idle", "v4", "v6", "size", "fetch", "returned"}
    /\ os \in {"linux", "windows"}
    /\ step \in {"v4", "v6"} => os = "linux"
    /\ step \in {"size", "fetch"} => os = "windows"
    /\ step # "idle" => held \subseteq bound /\ bound \subseteq seen
    /\ bound \subseteq Supported
    /\ table \in [Families -> {"ok", "missing", "denied"}]
    /\ step = "v6" => "v4" \notin held
    /\ BoundPortsAreFound /\ ReportedPortsWereBound

\* Each step of the lookup, and each socket that opens or closes meanwhile,
\* keeps PortInv.
LEMMA PortCorrect == PortSpec => []PortInv
<1>1. PortInit => PortInv
  BY DEF PortInit, PortInv, BoundPortsAreFound, ReportedPortsWereBound
<1>2. PortInv /\ [PortNext]_portVars => PortInv'
  <2> SUFFICES ASSUME PortInv, [PortNext]_portVars PROVE PortInv'
    OBVIOUS
  <2> USE DEF PortInv, BoundPortsAreFound, ReportedPortsWereBound, TooSmall, Entries
  <2>1. CASE SocketsChange
    <3>1. /\ UNCHANGED <<os, table, step, answer>> /\ step # "returned"
          /\ held' \subseteq held /\ held' \subseteq bound' /\ bound' \subseteq seen'
          /\ bound' \subseteq Supported'
      BY <2>1 DEF SocketsChange, Supported
    <3> QED BY <3>1
  <2>2. CASE PortCall
    BY <2>2 DEF PortCall, Supported
  <2>3. ASSUME NEW f \in Families, ScanTable(f) PROVE PortInv'
    <3>1. /\ UNCHANGED <<os, table, bound, rows, size, held, seen>>
          /\ step = f /\ f \in {"v4", "v6"}
      BY <2>3 DEF ScanTable, PortAnswer, Families
    <3>2. \/ step' = "returned" /\ answer' = "error"
          \/ step' = "returned" /\ answer' = "yes" /\ f \in bound
          \/ /\ f \in bound /\ os = "linux" => table[f] = "missing"
             /\ \/ f = "v4" /\ step' = "v6"
                \/ f = "v6" /\ step' = "returned" /\ answer' = "no"
      BY <2>3 DEF ScanTable, PortAnswer, Denied, HasPort, Families
    <3>3. f \in bound /\ os = "linux" => table[f] # "missing"
      BY DEF Supported
    <3>4. BoundPortsAreFound'
      BY <3>1, <3>2, <3>3 DEF Families, Supported
    <3>5. ReportedPortsWereBound'
      BY <3>1, <3>2
    <3> QED BY <3>1, <3>2, <3>3, <3>4, <3>5 DEF Families, Supported
  <2>4. CASE WindowsSize
    BY <2>4 DEF WindowsSize, PortAnswer, Families, Supported
  <2>5. CASE WindowsFetch
    BY <2>5 DEF WindowsFetch, PortAnswer, HasPort, Families, Supported
  <2>6. CASE UNCHANGED portVars
    BY <2>6 DEF portVars, Supported
  <2> QED BY <2>1, <2>2, <2>3, <2>4, <2>5, <2>6 DEF PortNext
<1> QED BY <1>1, <1>2, PTL DEF PortSpec

\* On Linux and Android, however sockets come and go while udp_port_bound reads
\* the two tables, a port that stays bound is never reported free.
THEOREM PortsFound == PortSpec => []BoundPortsAreFound
<1>1. PortInv => BoundPortsAreFound
  BY DEF PortInv
<1> QED BY <1>1, PortCorrect, PTL

\* A port that udp_port_bound reports was bound at some moment of the call.
THEOREM ReportedBound == PortSpec => []ReportedPortsWereBound
<1>1. PortInv => ReportedPortsWereBound
  BY DEF PortInv
<1> QED BY <1>1, PortCorrect, PTL

-----------------------------------------------------------------------------
(* The processes of the game.                                              *)

\* What is shown to the end of the call is what the later passes still have
\* to find.
ProcessInv ==
    /\ system \in {"linux", "android", "windows"}
    /\ listing \in {"ok", "empty", "denied"}
    /\ pass \in IF system = "linux" THEN {"idle", "comm", "cmdline", "pgrep", "returned"}
               ELSE {"idle", "list", "returned"}
    /\ shown \subseteq Ways
    /\ pass \notin {"idle", "returned"} =>
          shown \subseteq Visible(games) /\ Visible(games) \subseteq ran
    /\ pass = "cmdline" => "comm" \notin shown
    /\ pass = "pgrep" => shown = {}
    /\ VisibleGamesAreNoticed

\* However the processes come and go while minecraft_process_running looks, a
\* game that stays visible is noticed, and one that is reported was there.
THEOREM GamesNoticed == ProcessSpec => []VisibleGamesAreNoticed
<1>1. ProcessInit => ProcessInv
  BY DEF ProcessInit, ProcessInv, VisibleGamesAreNoticed, Ways
<1>2. ProcessInv /\ [ProcessNext]_processVars => ProcessInv'
  <2> SUFFICES ASSUME ProcessInv, [ProcessNext]_processVars PROVE ProcessInv'
    OBVIOUS
  <2> USE DEF ProcessInv, VisibleGamesAreNoticed, Ways
  <2>1. CASE GamesChange
    <3>1. /\ UNCHANGED <<system, listing, pass, running_is>> /\ pass # "returned"
          /\ shown' = shown \cap Visible(games)' /\ ran' = ran \cup Visible(games)'
      BY <2>1 DEF GamesChange, Visible
    <3> QED BY <3>1
  <2>2. CASE ProcessCall
    <3>1. /\ UNCHANGED <<system, listing, games, running_is>> /\ pass = "idle"
          /\ pass' = IF system = "linux" THEN "comm" ELSE "list"
          /\ shown' = Visible(games) /\ ran' = Visible(games)
          /\ Visible(games)' = Visible(games) /\ Visible(games) \subseteq Ways
      BY <2>2 DEF ProcessCall, Visible
    <3> QED BY <3>1
  <2>3. ASSUME NEW a \in {"yes", "no"}, ProcessAnswer(a),
               a = "no" => /\ shown \subseteq IF system = "windows" THEN {"cmdline"} ELSE {}
                           /\ system = "android" => listing = "ok",
               a = "yes" => ran # {} \/ (system = "android" /\ listing # "ok")
        PROVE  ProcessInv'
    BY <2>3 DEF ProcessAnswer
  <2>4. ASSUME NEW how \in Ways, NEW next \in {"cmdline", "pgrep"}, LinuxPass(how, next),
               <<how, next>> \in {<<"comm", "cmdline">>, <<"cmdline", "pgrep">>}
        PROVE  ProcessInv'
    <3>1. pass = how /\ system = "linux"
      BY <2>4 DEF LinuxPass
    <3>2. CASE Finds(how)
      BY <2>3, <2>4, <3>1, <3>2 DEF LinuxPass, Finds
    <3>3. CASE ~Finds(how)
      <4>1. pass' = next /\ UNCHANGED <<system, listing, games, running_is, shown, ran>>
        BY <2>4, <3>3 DEF LinuxPass
      <4>2. how \notin shown /\ Visible(games)' = Visible(games)
        BY <3>1, <3>3, <4>1 DEF Finds, Visible
      <4> QED BY <2>4, <3>1, <4>1, <4>2
    <3> QED BY <3>2, <3>3
  <2>5. CASE LinuxPgrep
    BY <2>3, <2>5 DEF LinuxPgrep, Finds
  <2>6. CASE AndroidPass
    <3>1. /\ system = "android" /\ pass = "list"
          /\ ProcessAnswer(IF listing # "ok" \/ \E how \in Ways : Finds(how)
                             THEN "yes" ELSE "no")
      BY <2>6 DEF AndroidPass
    <3>2. CASE listing # "ok"
      BY <2>3, <3>1, <3>2
    <3>3. CASE listing = "ok" /\ \E how \in Ways : Finds(how)
      BY <2>3, <3>1, <3>3 DEF Finds
    <3>4. CASE listing = "ok" /\ ~\E how \in Ways : Finds(how)
      BY <2>3, <3>1, <3>4 DEF Finds
    <3> QED BY <3>2, <3>3, <3>4
  <2>7. CASE WindowsPass
    BY <2>3, <2>7 DEF WindowsPass, Finds
  <2>8. CASE UNCHANGED processVars
    BY <2>8 DEF processVars, Visible
  <2> QED BY <2>1, <2>2, <2>4, <2>5, <2>6, <2>7, <2>8 DEF ProcessNext
<1>3. ProcessInv => VisibleGamesAreNoticed
  BY DEF ProcessInv
<1> QED BY <1>1, <1>2, <1>3, PTL DEF ProcessSpec

-----------------------------------------------------------------------------
(* The cap of the relay.                                                   *)

RelayInv ==
    /\ max_advertised_hosts \in Nat
    /\ relay_hosts \in [RelayIds -> Records \cup {NONE}]
    /\ command_rx \in Seq(RelayCommand)
    /\ CapIsKept

\* One registration keeps the cap, and changes the set of hosts by one at most.
LEMMA StoreHostStep ==
    ASSUME RelayInv, NEW id \in RelayIds, NEW rec \in Records, StoreHost(id, rec),
           UNCHANGED max_advertised_hosts
    PROVE  /\ relay_hosts' \in [RelayIds -> Records \cup {NONE}]
           /\ CapIsKept'
           /\ Kept' # Kept =>
                /\ Cardinality(Kept' \ Kept) = 1
                /\ Cardinality(Kept \ Kept') <= 1
                /\ Kept \ Kept' # {} => Cardinality(Kept) >= max_advertised_hosts
<1> USE RelayAssumption
<1> DEFINE n == Cardinality(Kept)
<1>0. IsFiniteSet(Kept) /\ n \in Nat /\ max_advertised_hosts \in Nat
  BY FS_Subset, FS_CardinalityType DEF Kept, RelayInv
<1>1. PICK gone \in SUBSET Kept :
        /\ Cardinality(gone) = IF NeedsRoom(id) /\ Kept # {} THEN 1 ELSE 0
        /\ relay_hosts' = [i \in RelayIds |->
                             IF i = id THEN rec
                             ELSE IF i \in gone THEN NONE ELSE relay_hosts[i]]
  BY DEF StoreHost
<1>2. relay_hosts' \in [RelayIds -> Records \cup {NONE}]
  BY <1>1 DEF RelayInv
<1>3. Kept' = (Kept \ gone) \cup {id}
  BY <1>1 DEF Kept, RelayInv
<1>4. IsFiniteSet(gone)
  BY <1>0, FS_Subset
<1>5. CASE NeedsRoom(id) /\ Kept # {}
  <2>1. PICK x \in Kept : gone = {x}
    <3>1. Cardinality(gone) = 1
      BY <1>1, <1>5
    <3>2. PICK x : gone = {x}
      BY <1>4, <3>1, FS_Singleton
    <3> QED BY <3>2
  <2>2. id \notin Kept /\ n >= max_advertised_hosts
    BY <1>5 DEF NeedsRoom, AtCap
  <2>3. /\ IsFiniteSet(Kept \ {x}) /\ Cardinality(Kept \ {x}) = n - 1
    BY <1>0, <2>1, FS_RemoveElement
  <2>4. Cardinality(Kept') = n - 1 + 1
    BY <1>3, <2>1, <2>2, <2>3, FS_AddElement
  <2>5. Cardinality(Kept') = n
    BY <2>4, <1>0
  <2>6. Kept' \ Kept = {id} /\ Kept \ Kept' = {x}
    BY <1>3, <2>1, <2>2
  <2>7. Cardinality({id}) = 1 /\ Cardinality({x}) = 1
    BY FS_Singleton
  <2>8. CapIsKept'
    BY <2>5 DEF CapIsKept, RelayInv
  <2> QED BY <1>2, <2>2, <2>6, <2>7, <2>8
<1>6. CASE ~(NeedsRoom(id) /\ Kept # {})
  <2>1. gone = {}
    BY <1>1, <1>4, <1>6, FS_EmptySet
  <2>2. Kept' = Kept \cup {id}
    BY <1>3, <2>1
  <2>3. CASE id \in Kept
    <3>1. Kept' = Kept
      BY <2>2, <2>3
    <3> QED BY <1>2, <3>1 DEF CapIsKept, RelayInv
  <2>4. CASE id \notin Kept
    <3>1. Cardinality(Kept') = n + 1
      BY <1>0, <2>2, <2>4, FS_AddElement
    <3>2. n < max_advertised_hosts \/ n = 0
      <4>1. ~AtCap \/ Kept = {}
        BY <1>6, <2>4 DEF NeedsRoom
      <4>2. Kept = {} => n = 0
        BY FS_EmptySet
      <4> QED BY <1>0, <4>1, <4>2 DEF AtCap
    <3>3. CapIsKept'
      BY <1>0, <3>1, <3>2 DEF CapIsKept
    <3>4. Kept' \ Kept = {id} /\ Kept \ Kept' = {}
      BY <2>2, <2>4
    <3>5. Cardinality({id}) = 1 /\ Cardinality({}) = 0
      BY FS_Singleton, FS_EmptySet
    <3> QED BY <1>2, <3>3, <3>4, <3>5
  <2> QED BY <2>3, <2>4
<1> QED BY <1>5, <1>6

\* Each step keeps the cap, and either leaves the hosts alone or registers one.
LEMMA RelayStep ==
    ASSUME RelayInv, [RelayNext]_relayVars
    PROVE  /\ RelayInv'
           /\ Kept' # Kept =>
                /\ Cardinality(Kept' \ Kept) = 1
                /\ Cardinality(Kept \ Kept') <= 1
                /\ Kept \ Kept' # {} => Cardinality(Kept) >= max_advertised_hosts
<1> USE RelayAssumption
<1>1. ASSUME NEW id \in RelayIds, NEW rec \in Records, register_host(id, rec)
      PROVE  UNCHANGED max_advertised_hosts /\ StoreHost(id, rec) /\ command_rx' = command_rx
  BY <1>1 DEF register_host
<1>2. ASSUME NEW cmd \in RelayCommand, submit(cmd)
      PROVE  /\ UNCHANGED <<max_advertised_hosts, relay_hosts>>
             /\ command_rx' \in Seq(RelayCommand)
  BY <1>2 DEF submit, RelayInv
<1>3. ASSUME NEW p \in Pumps, PumpHandles(p)
      PROVE  /\ UNCHANGED max_advertised_hosts
             /\ command_rx' \in Seq(RelayCommand)
             /\ \/ UNCHANGED relay_hosts
                \/ \E id \in RelayIds, rec \in Records : StoreHost(id, rec)
  <2>1. Head(command_rx) \in RelayCommand /\ command_rx' \in Seq(RelayCommand)
    BY <1>3 DEF PumpHandles, RelayInv
  <2>2. CASE Head(command_rx).type = "RegisterHost"
    <3>1. Head(command_rx).id \in RelayIds /\ Head(command_rx).rec \in Records
      BY <2>1, <2>2 DEF RelayCommand
    <3> QED BY <1>3, <2>1, <2>2, <3>1 DEF PumpHandles
  <2>3. CASE Head(command_rx).type # "RegisterHost"
    BY <1>3, <2>1, <2>3 DEF PumpHandles
  <2> QED BY <2>2, <2>3
<1>4. /\ UNCHANGED max_advertised_hosts
      /\ command_rx' \in Seq(RelayCommand)
      /\ \/ UNCHANGED relay_hosts
         \/ \E id \in RelayIds, rec \in Records : StoreHost(id, rec)
  BY <1>1, <1>2, <1>3 DEF RelayNext, PumpLocks, PumpReturns, relayVars, RelayInv
<1>5. CASE UNCHANGED relay_hosts
  BY <1>4, <1>5 DEF RelayInv, CapIsKept, Kept
<1>6. ASSUME NEW id \in RelayIds, NEW rec \in Records, StoreHost(id, rec)
      PROVE  /\ RelayInv'
             /\ Kept' # Kept =>
                  /\ Cardinality(Kept' \ Kept) = 1
                  /\ Cardinality(Kept \ Kept') <= 1
                  /\ Kept \ Kept' # {} => Cardinality(Kept) >= max_advertised_hosts
  BY <1>4, <1>6, StoreHostStep DEF RelayInv
<1> QED BY <1>4, <1>5, <1>6

\* RelayInv holds initially and for ever.
LEMMA RelayCorrect == RelaySpec => []RelayInv
<1>1. RelayInit => RelayInv
  <2> SUFFICES ASSUME RelayInit PROVE RelayInv
    OBVIOUS
  <2>1. Kept = {} /\ max_advertised_hosts \in Nat
    BY RelayAssumption DEF RelayInit, Kept
  <2>2. Cardinality(Kept) = 0
    BY <2>1, FS_EmptySet
  <2> QED BY <2>1, <2>2 DEF RelayInit, RelayInv, CapIsKept
<1> QED BY <1>1, RelayStep, PTL DEF RelaySpec

\* The relay never keeps more hosts than its cap (or one, if that is 0), for any
\* finite set of sender ids and any number of callers.
THEOREM CapKept == RelaySpec => []CapIsKept
  BY RelayCorrect, PTL DEF RelayInv

\* A host only leaves the relay when it is full and a new one arrives.
THEOREM LeaveForRoom == RelaySpec => HostsLeaveForRoom
<1>1. RelayInv /\ [RelayNext]_relayVars =>
        [Kept' # Kept =>
           /\ Cardinality(Kept' \ Kept) = 1
           /\ Cardinality(Kept \ Kept') <= 1
           /\ Kept \ Kept' # {} => Cardinality(Kept) >= max_advertised_hosts]_relayVars
  BY RelayStep
<1> QED BY <1>1, RelayCorrect, PTL DEF RelaySpec, HostsLeaveForRoom
=============================================================================
