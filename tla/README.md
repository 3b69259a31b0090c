# Mineshaft in TLA+

Mineshaft lets Minecraft Bedrock players reach each other's LAN worlds over the
internet. A *node* runs beside each game. It finds out whether the game hosts a
world or browses for one, and talks to one *rendezvous server* over TCP. The
server lists the hosts and relays WebRTC signals between them and the joiners.

## The system and its modules

| part | source | module | state |
|---|---|---|---|
| rendezvous server | `examples/server/main.rs` | `RendezvousServer` | modelled, safety proved |
| what it promises of listings | `examples/server/main.rs` | `HostDirectory` | abstract, refinement proved |
| node | `examples/client/client.rs` | `MineshaftNode` | modelled, safety proved |
| node and server over TCP | both | `Rendezvous` | modelled, safety proved |
| discovery service | `crates/core/src/discovery.rs` | `Discovery` | modelled, safety proved |
| message framing | `crates/core/src/net.rs` | `Framing` | modelled, safety proved |
| relay service | `crates/core/src/relay.rs` | `Relay` | modelled and proved |
| session registry | `crates/core/src/session.rs` | `SessionRegistry` | modelled and proved |
| protect callback | `crates/platform/android` | `ProtectSocket` | modelled and proved |
| port probe | `crates/platform/*` | `PortProbe` | modelled and proved |
| process probe | `crates/platform/*` | `ProcessProbe` | modelled and proved |
| transport, config, errors | `crates/core/src/{transport,config,error}.rs` | | not modelled |

The `MC*` modules instantiate the specifications for TLC and the `*Proofs`
modules hold the TLAPS proofs. `Options` only declares `NONE` for the smaller
components.

### RendezvousServer and HostDirectory

One connection is a socket (`sock`), a handler task (`task`), a writer task
(`writer`) and its channel (`chan`). `clients`, `hosts`, `host_records`,
`sessions` and `next_session_id` are the fields of `Registry`, as total functions
with `NONE` for a missing key. An action is what a task does between two points
where it can be interrupted, so one critical section of the registry mutex:

- `Accept`, `Enter`: the accept loop, and the entry of the channel in `clients`;
- `Ping`, `RegisterHost`, `UpdateHost`, `UnregisterHost`, `ListHosts`,
  `ConnectRequest`, `Signal`: the arms of the `match`, up to the end of their
  first critical section. What they still have to send is in `todo`;
- `AllocateSession`: the second critical section of `ConnectRequest`;
- `SendTo`: one call of `send_to`, which looks the address up again;
- `ReadEnds`, `ReadFails`, `IdleTimeout`, `WriterDead`: the ways out of the loop;
- `Cleanup`: the end of the spawned task;
- `WriterSends`, `WriterFails`, `WriterDrained`: the writer task.

Connections are identified by `Conns`, and two of them may share an address
(`AddrOf`), as when a peer returns from the port of a dead connection.
`PeerCloses` and `PeerVanishes` are the peer and the network. `Registers` and
`Offers` say which sender ids and WebRTC connection ids a peer uses.

`HostDirectory` says what all this amounts to for whoever lists a world: clients
arrive, have requests answered, and depart. A listing belongs to the address that
published it last, only requests from that address revise or withdraw it, and a
departure takes every listing of its address along. The mapping
(`RendezvousServer!Directory`) reads the presence of a client off its task, counts
requests in `frames`, and takes `hosts` and `host_records` as they are. Sessions,
channels, writers and signals are invisible, so every step of theirs is a stutter.

### MineshaftNode

`pc` follows one round of the main loop: drop the old reader, drop a lost
connection, connect, probe port 7551, ask the game for its world, act on
`Closed`, `Hosting` or `Browsing`, ping. Reader tasks (`reader`, one per
connection ever made) and the signal task (`pending`) run beside it. `remote`
is what the server lists for a connection once it has read everything sent on
it. The game, its discovery responses and the TCP links are external actions.

Aborting a reader is not immediate: a reader with messages to read may be inside
a poll, handles them (`aborting`) and is dropped when it next has to wait
(`ReaderStops`). One that already left its loop is out of reach of the abort and
still clears `reader_alive` (`breaking`). The signal task looks the writer up
(`TakeWriter`) and writes later (`ForwardSignal`), when the connection may have
been given up. Injected signals come from where the server takes them
(`Senders`): a join is answered by the node it was sent to, since the server
passes the sender's own id on.

A write on a link that is not up may fail or seem to succeed: TCP reports a dead
peer late. Both outcomes are explored (the `ok` parameter).

### Rendezvous

All of `MineshaftNode`, and the server as its `HostDirectory`, which the
refinement justifies. `stream` holds, for each connection, the registrations that
the node wrote and the handler has not read. The handlers of two connections
read independently. A connection that broke may lose the end of its stream
(`Loses`) or deliver it late. A handler ends when its stream is read and the
connection is closed, broken or silent (`Drops`). Pings and `ListHosts` change
no listing and are not put into the stream.

### Discovery

The registry of advertised servers with their cached packets, `replace_all` as
the rounds of its loop (`Rounds`), and the heartbeat task with overlapping calls
of `start` and `stop`. `stop` keeps the task mutex while it waits, because the guard lives
to the end of the `if let`. Data that cannot be marshaled is outside `Encodable`.

### Core services and platform crates

These share no state. `MCCoreServices` checks them and `Discovery` in one run,
each behaviour being of one of them (`part`).

- `Framing`: tasks that share a write half behind its mutex write frames byte by
  byte, and `read_message` collects them. A byte is a message and a position, so a
  reader out of step would be seen at once. The connection can end or be reset
  after any byte. The length is written modulo `U32`, as the cast does; messages
  are assumed to be shorter (4 GiB).
- `Relay`: `register_host`, `submit`, and `pump_commands` one command at a time
  under the receiver's lock. `hosts.keys().next()` is any key.
- `SessionRegistry`: `upsert`, `remove`, and `snapshot`, which copies under the
  lock and awaits the addresses without it. `moments` records the registries there
  were during the call.
- `ProtectSocket`: the slot, whose mutex is held while the callback runs and is
  poisoned when it panics.
- `PortProbe`: the two tables of the proc file system one after the other, or
  the two calls of `GetExtendedUdpTable`, while sockets come and go. A family
  whose proc table is missing is one that the system does not have (`Supported`).
  On Windows the result of the first call is ignored and the second may fail.
- `ProcessProbe`: the passes over the processes, while games come and go.

## Runs

| run | instance | shows |
|---|---|---|
| `server_registry` | two peers, one sender id, both ways to join | `TypeOK`, `ImplementsDirectory`, `FreshSessionIds`, `SessionsAreServed` |
| `server_signals` | a host, two joiners | `SignalsInOrder`, `SignalsReachTheirPeer` |
| `server_liveness` | two connections from one address, silent drops | `ListedHostsAreServed`, `ChannelsAreServed`, `DeadHostsLeave`, `UnreachableHandlersEnd` |
| `server_stale_session` | host and joiner | violation: a session with a host that left |
| `node_registration` | two failures, three moves of the player | `RegistrationIsKnown`, `OthersOnlyWhileBrowsing`, `OldReadersEnd`, `DeadConnectionsAreDropped`, `RegistrationConverges` |
| `node_signals` | one failure, four moves, two game ids | `NodeTypeOK`, `ForwardedJoinsAreRemembered` |
| `node_join_answer` | one failure, two game ids | violation: a stale `local_game_id` receives an answer |
| `rendezvous` | three connections, one failure, three moves, two worlds | `RendezvousTypeOK`, `RegistrationsAreListed`, `GhostsLeave`, `WorldsGetListed` |
| `rendezvous_backlog` | the same | violation: an old registration unlists the world |
| `discovery_restart` | start, stop, start | violation: the second heartbeat ends at once |
| `core_services` | two callers of the discovery service, lists of up to three entries; see the configuration | all other properties of `Discovery`, the core services and the platform crates |
| `windows_port` | two other sockets | violation: a bound port is reported free on Windows |

### What the violations show

- **`server_stale_session`**: `ConnectRequest` reads the host address in one
  critical section and stores the session in another. A host cleaned up in
  between gets a session that stays until the joiner leaves.
- **`node_join_answer`**: `local_game_id` is reset only together with
  `hosting_registered`, which a failed write or a reconnection clears first. The
  node that browses afterwards goes on as if it hosted: answers to a join are
  addressed to `local_game_id`. While it is the same game that is harmless. When
  the game was restarted, its join is answered under the id of the earlier one.
- **`rendezvous_backlog`**: the node reconnects and registers again. The
  `RegisterHost` left in its old connection is read after the new one and takes
  the listing over, and the end of the old connection unlists the world. The loop
  believes it registered and sends nothing until the advertisement changes.
  `RegistrationsAreListed` shows that this order of two registrations (`late`)
  is the only cause. It needs the old handler to stall or its bytes to be
  retransmitted for longer than the node takes to reconnect.
- **`discovery_restart`**: the cancellation token is never replaced. No code of
  the repository restarts a service, so this concerns the API.
- **`windows_port`**: a socket is opened between the two calls of
  `GetExtendedUdpTable`. The second one fails with `ERROR_INSUFFICIENT_BUFFER`,
  which is let pass, and the zeroed buffer counts as a table without rows.

### Known deviations without a run

- `clients` is keyed by address alone, so the task of a dead connection can remove
  the entry of its successor ("All connected clients by socket address.",
  `main.rs:36`). The server recovers by closing the connection
  (`UnreachableHandlersEnd`).
- All readers share `reader_alive`. One that already left its loop clears it after
  the next connection set it (`client.rs:287`). The node reconnects once more than
  needed (`RegistrationConverges`, `DeadConnectionsAreDropped`).
- An error of `udp_port_bound` counts as `Closed`, whereas the Android crate asks
  callers to "treat read failures as "unknown"". The world is unregistered and,
  with the next probe, registered again (`RegistrationConverges`).
- On Windows `udp_port_bound` also looks at IPv4 only and answers "free" when the
  first call fails. `WindowsPortsAreFound` leaves these cases out, so that the run
  shows the race alone.
- The Android crate promises `true` "when process enumeration is
  unavailable/restricted" (`android/src/lib.rs:50`). Where an app sees its own
  processes only, the list is restricted but not empty, and the answer is `false`
  (line 175). The model does the same (`AndroidPass`); `VisibleGamesAreNoticed` is
  about games that are visible. `minecraft_process_running` has no caller in the
  repository.
- End of stream inside a length prefix is `Ok(None)`. No complete message is lost
  by it (`CleanEndLosesNothing`).
- A relay with `max_advertised_hosts` 0 keeps one host (`CapIsKept`).

### Bounds

`MaxFrames` bounds the messages of each connection, `MaxSession` the session
ids, `MaxConns` the connections of a node, `MaxFaults` its failures, `MaxMoves`
the changes of the game, `MaxStarts`, `MaxStops`, `MaxChanges` and `MaxEntries`
the calls on the discovery service, `MaxWritten` the messages on a framed stream,
`MaxQueue` the relay's commands, `MaxRows` the other sockets. Two messages per
peer are enough to register and unregister, or to send an offer and a candidate; a
second connection from an address is enough to overlap an old cleanup. Limits of
these instances:

- `server_registry` has no address reuse, and `server_liveness` no second
  address. The proofs cover both at once for the safety properties they state.
- `server_registry` takes its two advertisements as symmetric: the server only
  stores them and hands them out, and every property checked there is safety.
- Silent drops (`Droppable`) only happen in `server_liveness`.
- The node runs without signals in `node_registration` and in `rendezvous`, and
  with one WebRTC connection in `node_signals`.
- `rendezvous` has one failure. One suffices for an old connection with a
  backlog beside a new one; the third connection follows when the old reader
  clears the shared flag late.
- In `core_services` a prefix has two bytes and the limit is two, so that frames
  below, at and above it occur and both reads can be cut short. The proofs are
  for every prefix and limit.

Deadlock is checked except in `Discovery` and the core services, which are idle
for good once the bounded calls are used up or the call under test has returned.

### Fairness

- Server: the runtime polls every task that can run. Nothing is assumed of the
  peers. `IdleTimeout` is fair only on a silent connection, where nothing can
  reset the timer.
- Node: the loop, the readers and the passing of time (`GoesStale`) are fair, and
  an aborted reader's poll comes to an end (`ReaderStops`). A game that is asked answers, and the server answers on a link that is up.
  Failures are bounded and never fair.
- Rendezvous: as for the node; the server's tasks are polled, and a message on its
  way arrives or is lost (`WF` of `Receives \/ Loses`), neither being assumed.
- Discovery: started calls and the heartbeat go on. `Cancelled` is strongly fair,
  because `select!` polls its branches in random order.
- Framing: the reader is polled (`ReadStep`). Writers may stop inside a frame.

## Proofs

For every value of the constants that the named assumptions allow:

| module | theorem | statement |
|---|---|---|
| `RendezvousServerProofs` | `TypeCorrect`, `RegistryCorrect` | `TypeOK`, `RegistryInv` |
| | `ListedHostsServed`, `SessionsServed`, `ChannelsServed` | the three parts of `Books` |
| | `SessionIdsFresh` | `FreshSessionIds` |
| | `ServerImplementsDirectory` | `Spec => ImplementsDirectory` |
| `ServerSignalProofs` | `SignalsOrdered`, `SignalsReach` | `SignalsInOrder`, `SignalsReachTheirPeer` |
| `MineshaftNodeProofs` | `NodeTypeCorrect`, `OldReadersAborted` | `NodeTypeOK`, `RunningReaderIsHeld` |
| | `RegistrationKnown`, `OthersWhileBrowsing`, `JoinsRemembered` | `RegistrationIsKnown`, `OthersOnlyWhileBrowsing`, `ForwardedJoinsAreRemembered` |
| `RendezvousProofs` | `NodeOfRendezvous`, `ServerIsDirectory` | the composition implements `MineshaftNode` and `HostDirectory` |
| | `RendezvousTypeCorrect`, `RegistrationsListed` | `RendezvousTypeOK`, `RegistrationsAreListed` |
| `FramingProofs` | `MessagesWhole`, `RefusedTooLarge`, `CleanEnd` | the three invariants of `Framing` |
| `CoreProofs` | `CapKept`, `LeaveForRoom` | `CapIsKept`, `HostsLeaveForRoom` |
| | `SnapshotsOneMoment`, `RetiredRest` | `SnapshotsAreOneMoment`, `RetiredCallbacksRest` |
| | `PortsFound`, `ReportedBound`, `GamesNoticed` | the invariants of the two probes |
| `DiscoveryProofs` | `HeartbeatAlone`, `DiscoveryTypeCorrect` | `OneHeartbeat`, `DiscoveryTypeOK` |
| | `PacketsMatch`, `AllReplaced` | `PacketsMatchData`, `ReplaceAllReplaces` |
| | `ReplacedIds` | the ids that `replace_all` leaves |

- **Server.** `Books` is not inductive alone. `RegistryInv` adds
  `BusyHandlersLoop`: a handler with work left (`todo`, or an allocation ahead) is
  still in its loop, hence its address is served when that work reaches the
  registry. Without it `AllocateSession` could store a session for a joiner that
  was cleaned up. `QuietStep` settles the actions that leave the registry alone,
  `StillServed` and `LoopServes` the effect on `Served`. Only `Cleanup` can end a
  service, and it removes every entry of its address.
- **Signals.** A handler reads its next message when it has sent the last one, so
  `OrderInv`: the signal a handler is about to send is the newest of its peer, and
  nothing that waits in a channel is newer than what was read. `ReachInv` follows
  a signal back to the tables that routed it: an entry of `hosts` was made by a
  peer that registers the id, and a session was opened by its joiner. Its one
  hypothesis is that WebRTC connection ids stay clear of the counter of
  `ConnectRequest`. Both index `sessions`, and the code leaves this to chance, as
  for `FreshSessionIds`.
- **Refinement.** `AnswerStep` maps every message a handler takes to one answer of
  the directory, `DirectoryStep` maps the remaining actions to `Arrive`, `Depart`
  or a stutter.
- **Node.** `RegistrationInv` adds that nothing is listed on a connection not made
  yet and that the world about to be registered came from the game. `ReaderInv`
  says that a running reader is that of the newest connection, whose abort handle
  the loop holds, and that the loop connects only without one. `AdvertisedInv` adds
  that lists are fetched only while the game browses and nothing is registered,
  and that a count of 0 means that nobody else is advertised. `JoinsInv` adds that
  a join is remembered, for the server that was clicked, before its signal waits to
  be written.
- **Node and server.** The stream of the connection in use need not be empty when
  its listing is looked at. `Replays` says what reading the rest of it will lead
  to: `RegisterHost` comes exactly when the connection does not own the listing,
  and the last message carries what the loop wrote last. `AppendReplay` is a write
  of the node, `TailReplay` a read of the handler, `OtherReplay` what the handlers
  of old connections may do. `ListingInv` adds that connections not made yet have left no
  trace and that a listing belongs to a handler that is there. An old connection
  that takes the listing from the one in use sets `late`, so nothing else does.
- **Framing.** The bytes on the wire follow one another (`Following`), start where
  the reader goes on (`NextRead`) and end where the holder of the mutex goes on
  (`EndOfStream`). `complete` is counted by that end.
- **Core services.** `RelayInv` adds that the queue and the registry are well
  typed, `SnapshotInv` that what is copied and what is summarised make up one
  registry, `PortInv` that on Linux and Android a port held during the call is not
  in a table already passed, `ProcessInv` that a game shown throughout is shown to a
  later pass.
- **Discovery.** The caller that waits for the task has the mutex, so the handle
  it took is the one it waits for. `Replacing` says what the registry is after
  each round of `replace_all`: each sender has its last data so far that can be
  marshaled, or what was retained. `ReplacedEffect` is the induction over the
  rounds. It is put as an induction over sets of numbers (`SetInduction`, from the
  least element of the complement), which needs no operator as a parameter, and
  `RoundsUnfold` shows in the same way that the recursive function exists.
  `ReplacedIds` justifies `MineshaftNode!Replaced`.

The assumptions are `NodeAssumption`, `OwnerAssumption`, `DiscoveryAssumption` and
their like in the other modules: bounds are numbers, host lists are finite, and
`NONE` is not a value. TLC evaluates each on its runs.

Only model-checked: the liveness properties (`DeadHostsLeave`,
`UnreachableHandlersEnd`, `OldReadersEnd`, `DeadConnectionsAreDropped`, `RegistrationConverges`,
`StopReturns`, `AdvertisedServersAreShown`, `GhostsLeave`, `WorldsGetListed`,
`WrittenMessagesArrive`), because the prover handles neither fairness nor
`ENABLED`, and the five violations. Every safety property of a passing run is
proved.

## Not modelled

- `transport.rs`: each function forwards to the nethernet submodule, whose source
  is not in the repository. `config.rs` and `error.rs` are declarations.
- `create_udp_socket`, `ensure_loopback_exempt`, `set_tcp_keepalive`: socket
  options and one external command, without state of the program.
- Logging, message wording, `resolve_server_addr`.
- Growth of `sessions` and `join_conns`: unbounded, and invisible in a finite
  instance.
- Send buffers: a write on a silent link can wait, with the loop, for keepalive.
- A `HostList` larger than the frame limit, which the reader refuses; only the
  refusal itself is modelled (`Refuses`).
