-------------------------------- MODULE Relay --------------------------------
(***************************************************************************)
(* The relay service (crates/core/src/relay.rs): a registry of advertised  *)
(* hosts with a cap, fed directly by register_host and through a queue of  *)
(* commands that pump_commands works off.                                  *)
(***************************************************************************)
EXTENDS Naturals, Sequences, FiniteSets, Options

CONSTANTS
    RelayIds, Records,
    Caps,         \* values of max_advertised_hosts
    Pumps,        \* callers of pump_commands
    MaxQueue      \* bound: commands waiting

RelayCommand ==
    [type : {"RegisterHost"}, id : RelayIds, rec : Records]
      \cup [type : {"ListHosts", "BridgeToHost"}]

ASSUME RelayAssumption ==
    IsFiniteSet(RelayIds) /\ Caps \subseteq Nat /\ NONE \notin Records

VARIABLES
    max_advertised_hosts,
    relay_hosts,   \* hosts: the record of each sender id
    command_rx,    \* the queue
    rx_guard       \* the caller that holds the lock of command_rx

relayVars == <<max_advertised_hosts, relay_hosts, command_rx, rx_guard>>

RelayInit ==
    /\ max_advertised_hosts \in Caps
    /\ relay_hosts = [id \in RelayIds |-> NONE]
    /\ command_rx = <<>>
    /\ rx_guard = NONE

Kept == {id \in RelayIds : relay_hosts[id] # NONE}

\* Mutant: the cap is checked after it was passed.
OverCap == Cardinality(Kept) > max_advertised_hosts

AtCap == Cardinality(Kept) >= max_advertised_hosts

\* Mutant: a host that is registered already makes room for itself, too.
NeedsRoomAlways(id) == AtCap

NeedsRoom(id) == AtCap /\ id \notin Kept

\* register_host.  The map has no order: any key may come first, and an
\* empty map has none to remove.
StoreHost(id, rec) ==
    \E gone \in SUBSET Kept :
      /\ Cardinality(gone) = IF NeedsRoom(id) /\ Kept # {} THEN 1 ELSE 0
      /\ relay_hosts' = [i \in RelayIds |->
                           IF i = id THEN rec
                           ELSE IF i \in gone THEN NONE ELSE relay_hosts[i]]

register_host(id, rec) ==
    /\ StoreHost(id, rec)
    /\ UNCHANGED <<max_advertised_hosts, command_rx, rx_guard>>

submit(cmd) ==
    /\ Len(command_rx) < MaxQueue
    /\ command_rx' = Append(command_rx, cmd)
    /\ UNCHANGED <<max_advertised_hosts, relay_hosts, rx_guard>>

\* pump_commands waits for the lock, ...
PumpLocks(p) ==
    /\ rx_guard = NONE
    /\ rx_guard' = p
    /\ UNCHANGED <<max_advertised_hosts, relay_hosts, command_rx>>

\* ... handles what try_recv returns, while others submit and register, ...
PumpHandles(p) ==
    /\ rx_guard = p
    /\ command_rx # <<>>
    /\ command_rx' = Tail(command_rx)
    /\ IF Head(command_rx).type = "RegisterHost"
         THEN StoreHost(Head(command_rx).id, Head(command_rx).rec)
         ELSE UNCHANGED relay_hosts
    /\ UNCHANGED <<max_advertised_hosts, rx_guard>>

\* ... and returns when the queue is empty (how many it handled is left out).
PumpReturns(p) ==
    /\ rx_guard = p
    /\ command_rx = <<>>
    /\ rx_guard' = NONE
    /\ UNCHANGED <<max_advertised_hosts, relay_hosts, command_rx>>

RelayNext ==
    \/ \E id \in RelayIds, rec \in Records : register_host(id, rec)
    \/ \E cmd \in RelayCommand : submit(cmd)
    \/ \E p \in Pumps : PumpLocks(p) \/ PumpHandles(p) \/ PumpReturns(p)

RelaySpec == RelayInit /\ [][RelayNext]_relayVars

-----------------------------------------------------------------------------
(* Properties.                                                             *)

\* The "cap on the number of advertised hosts kept in memory" holds whichever
\* way hosts are registered; a cap of 0 still keeps the last one.
CapIsKept ==
    Cardinality(Kept) <= IF max_advertised_hosts = 0 THEN 1 ELSE max_advertised_hosts

\* A host leaves the registry only to make room for a new one, when the
\* registry is full: one at a time, never the one just registered, and never
\* because a registered host sends its record again.
HostsLeaveForRoom ==
    [][Kept' # Kept =>
         /\ Cardinality(Kept' \ Kept) = 1
         /\ Cardinality(Kept \ Kept') <= 1
         /\ Kept \ Kept' # {} => Cardinality(Kept) >= max_advertised_hosts]_relayVars
=============================================================================
