-------------------------- MODULE RendezvousServer --------------------------
(***************************************************************************)
(* The rendezvous server (examples/server/main.rs): an accept loop, one    *)
(* handler task and one writer task per TCP connection, and a registry of  *)
(* clients, hosts, host records and relay sessions behind one mutex.       *)
(*                                                                         *)
(* Every acquisition of the mutex is one atomic step, so a handler that    *)
(* locks several times while it serves one message is several steps, and   *)
(* the other tasks run between them.  What a handler still has to send     *)
(* after it released the mutex is kept in todo; send_to looks the address  *)
(* up again when the message is really sent.                               *)
(*                                                                         *)
(* A connection is not its address: a peer behind a forwarder can come     *)
(* back from the same address and port while the task of its previous      *)
(* connection still waits to clean up.  AddrOf need not be injective.      *)
(***************************************************************************)
EXTENDS Naturals, Sequences

CONSTANTS
    Conns,       \* TCP connections; each one is accepted at most once
    Addrs,       \* socket addresses, the keys of Registry.clients
    AddrOf,      \* the peer address of each connection
    HostIds,     \* sender ids that peers put in their messages
    Ads,         \* contents of a ServerAdvertisement
    ConnIds,     \* WebRTC connection ids that peers put in Signal messages
    Registers,   \* the sender ids that the peer at an address registers
    Offers,      \* the connection ids that the peer at an address opens
    Kinds,       \* the kinds of ClientMessage that the peers send
    Droppable,   \* the connections that can die without a FIN or RST
    MaxFrames,   \* bound: messages that each connection delivers
    MaxSession,  \* bound: the largest relay session id
    NONE         \* an absent entry of a map

ClientKinds == {"Ping", "RegisterHost", "UpdateHost", "UnregisterHost",
                "ListHosts", "ConnectRequest", "Signal"}

ASSUME ConstantsAssumption ==
    /\ AddrOf \in [Conns -> Addrs]
    /\ HostIds \subseteq Nat
    /\ ConnIds \subseteq Nat
    /\ Registers \in [Addrs -> SUBSET HostIds]
    /\ Offers \in [Addrs -> SUBSET ConnIds]
    /\ Kinds \subseteq ClientKinds
    /\ Droppable \subseteq Conns
    /\ MaxFrames \in [Conns -> Nat]
    /\ MaxSession \in Nat
    /\ NONE \notin Conns \cup Addrs \cup Ads

\* The two id spaces that share the map Registry.sessions.
Keys == (1 .. MaxSession) \cup ConnIds

Session == [joiner : Addrs, host : Addrs]

ASSUME SessionAssumption == NONE \notin Session

VARIABLES
    sock,             \* the TCP connection, as the server's kernel sees it
    task,             \* the handler task of the connection
    todo,             \* what the handler sends before it reads again
    joining,          \* host address a ConnectRequest looked up
    writer,           \* the writer task of the connection
    chan,             \* the channel from send_to to the writer task
    clients,          \* Registry.clients: whose sender is stored
    hosts,            \* Registry.hosts
    host_records,     \* Registry.host_records
    sessions,         \* Registry.sessions
    next_session_id,  \* Registry.next_session_id
    frames            \* messages delivered so far; numbers the messages

vars == <<sock, task, todo, joining, writer, chan, clients, hosts,
          host_records, sessions, next_session_id, frames>>

outVars == <<writer, chan, clients>>
hostVars == <<hosts, host_records>>
sessVars == <<sessions, next_session_id>>

-----------------------------------------------------------------------------
(* Messages.  The payload of a Signal is an opaque line; it is represented *)
(* by where it came from, so that properties can tell messages apart.      *)

Payload == [from : Conns, frame : Nat, target : HostIds \cup {0}]

ServerMessage ==
    [type : {"Pong", "Error"}]
      \cup [type : {"Registered"}, sender_id : HostIds]
      \cup [type : {"HostList"}, hosts : [HostIds -> Ads \cup {NONE}]]
      \cup [type : {"IncomingJoin", "JoinAccepted"}, session_id : Keys]
      \cup [type : {"Signal"}, connection_id : Keys, data : Payload]

Send == [to : Addrs, msg : ServerMessage]

To(a, m) == [to |-> a, msg |-> m]

TypeOK ==
    /\ sock \in [Conns -> {"none", "open", "closed", "silent"}]
    /\ task \in [Conns -> {"none", "accepted", "loop", "leaving", "done"}]
    /\ todo \in [Conns -> Seq(Send)]
    /\ joining \in [Conns -> Addrs \cup {NONE}]
    /\ writer \in [Conns -> {"none", "running", "dead", "stopped"}]
    /\ chan \in [Conns -> Seq(ServerMessage)]
    /\ clients \in [Addrs -> Conns \cup {NONE}]
    /\ hosts \in [HostIds -> Addrs \cup {NONE}]
    /\ host_records \in [HostIds -> Ads \cup {NONE}]
    /\ sessions \in [Keys -> Session \cup {NONE}]
    /\ next_session_id \in 1 .. (MaxSession + 1)
    /\ frames \in [Conns -> Nat]

\* Mutant: the id that Registry::default() leaves there.
DefaultSessionId == 0

FirstSessionId == 1

Init ==
    /\ sock = [c \in Conns |-> "none"]
    /\ task = [c \in Conns |-> "none"]
    /\ todo = [c \in Conns |-> <<>>]
    /\ joining = [c \in Conns |-> NONE]
    /\ writer = [c \in Conns |-> "none"]
    /\ chan = [c \in Conns |-> <<>>]
    /\ clients = [a \in Addrs |-> NONE]
    /\ hosts = [id \in HostIds |-> NONE]
    /\ host_records = [id \in HostIds |-> NONE]
    /\ sessions = [k \in Keys |-> NONE]
    /\ next_session_id = FirstSessionId
    /\ frames = [c \in Conns |-> 0]

-----------------------------------------------------------------------------
(* The network.                                                            *)

\* The accept loop spawns the handler.  Two connections from one address
\* and port cannot both be open: the kernel tells them apart by nothing else.
Accept(c) ==
    /\ task[c] = "none"
    /\ \A d \in Conns : AddrOf[d] = AddrOf[c] => sock[d] \in {"none", "closed"}
    /\ sock' = [sock EXCEPT ![c] = "open"]
    /\ task' = [task EXCEPT ![c] = "accepted"]
    /\ UNCHANGED <<todo, joining, outVars, hostVars, sessVars, frames>>

\* The peer closes or resets the connection.  What it sent before is still
\* in the receive buffer.
PeerCloses(c) ==
    /\ sock[c] \in {"open", "silent"}
    /\ sock' = [sock EXCEPT ![c] = "closed"]
    /\ UNCHANGED <<task, todo, joining, outVars, hostVars, sessVars, frames>>

\* A NAT or a forwarder drops the connection and tells nobody.
PeerVanishes(c) ==
    /\ sock[c] = "open"
    /\ c \in Droppable
    /\ sock' = [sock EXCEPT ![c] = "silent"]
    /\ UNCHANGED <<task, todo, joining, outVars, hostVars, sessVars, frames>>

-----------------------------------------------------------------------------
(* The handler task.                                                       *)

\* The handler stores the sender of its channel, replacing (and dropping)
\* the one an earlier connection from the address left, and starts its writer.
Enter(c) ==
    /\ task[c] = "accepted"
    /\ clients' = [clients EXCEPT ![AddrOf[c]] = c]
    /\ task' = [task EXCEPT ![c] = "loop"]
    /\ writer' = [writer EXCEPT ![c] = "running"]
    /\ UNCHANGED <<sock, todo, joining, chan, hostVars, sessVars, frames>>

\* The handler is in select!, waiting for a message or for a reason to stop.
Selecting(c) == task[c] = "loop" /\ todo[c] = <<>> /\ joining[c] = NONE

\* It reads one message of the given kind.
Reads(c, kind) ==
    /\ Selecting(c)
    /\ kind \in Kinds
    /\ frames[c] < MaxFrames[c]
    /\ frames' = [frames EXCEPT ![c] = @ + 1]

Ping(c) ==
    /\ Reads(c, "Ping")
    /\ todo' = [todo EXCEPT ![c] = <<To(AddrOf[c], [type |-> "Pong"])>>]
    /\ UNCHANGED <<sock, task, joining, outVars, hostVars, sessVars>>

RegisterHost(c, id, ad) ==
    /\ Reads(c, "RegisterHost")
    /\ id \in Registers[AddrOf[c]]
    /\ hosts' = [hosts EXCEPT ![id] = AddrOf[c]]
    /\ host_records' = [host_records EXCEPT ![id] = ad]
    /\ todo' = [todo EXCEPT ![c] =
                  <<To(AddrOf[c], [type |-> "Registered", sender_id |-> id])>>]
    /\ UNCHANGED <<sock, task, joining, outVars, sessVars>>

\* Mutant: any client may change a registered host.
OwnsAnyHost(c, id) == hosts[id] # NONE

\* The check that UpdateHost and UnregisterHost make.
Owns(c, id) == hosts[id] = AddrOf[c]

UpdateHost(c, id, ad) ==
    /\ Reads(c, "UpdateHost")
    /\ host_records' = IF Owns(c, id)
                         THEN [host_records EXCEPT ![id] = ad]
                         ELSE host_records
    /\ UNCHANGED <<sock, task, todo, joining, outVars, hosts, sessVars>>

UnregisterHost(c, id) ==
    /\ Reads(c, "UnregisterHost")
    /\ IF Owns(c, id)
         THEN /\ hosts' = [hosts EXCEPT ![id] = NONE]
              /\ host_records' = [host_records EXCEPT ![id] = NONE]
         ELSE UNCHANGED hostVars
    /\ UNCHANGED <<sock, task, todo, joining, outVars, sessVars>>

\* The snapshot is taken under the mutex and sent after it was released.
ListHosts(c) ==
    /\ Reads(c, "ListHosts")
    /\ todo' = [todo EXCEPT ![c] =
                  <<To(AddrOf[c], [type |-> "HostList", hosts |-> host_records])>>]
    /\ UNCHANGED <<sock, task, joining, outVars, hostVars, sessVars>>

\* First critical section of ConnectRequest: only the address is kept.
ConnectRequest(c, id) ==
    /\ Reads(c, "ConnectRequest")
    /\ IF hosts[id] # NONE
         THEN /\ joining' = [joining EXCEPT ![c] = hosts[id]]
              /\ UNCHANGED todo
         ELSE /\ todo' = [todo EXCEPT ![c] = <<To(AddrOf[c], [type |-> "Error"])>>]
              /\ UNCHANGED joining
    /\ UNCHANGED <<sock, task, outVars, hostVars, sessVars>>

\* Mutant: the counter is not advanced.
SameId(id) == id

\* A u64 that starts at 1 and grows by one per join does not wrap.
FollowingId(id) == id + 1

\* Second critical section: the session is stored for the address that was
\* looked up in the first, whatever happened to that host in between.
AllocateSession(c) ==
    LET id == next_session_id
    IN  /\ joining[c] # NONE
        /\ id <= MaxSession
        /\ next_session_id' = FollowingId(id)
        /\ sessions' = [sessions EXCEPT
                          ![id] = [joiner |-> AddrOf[c], host |-> joining[c]]]
        /\ todo' = [todo EXCEPT ![c] =
             <<To(joining[c], [type |-> "IncomingJoin", session_id |-> id]),
               To(AddrOf[c], [type |-> "JoinAccepted", session_id |-> id])>>]
        /\ joining' = [joining EXCEPT ![c] = NONE]
        /\ UNCHANGED <<sock, task, outVars, hostVars, frames>>

\* Mutant: the pair (joiner, host) is read the wrong way round.
RouteToHost(t, k) ==
    IF t # 0 THEN hosts[t]
    ELSE IF sessions[k] = NONE THEN NONE ELSE sessions[k].host

\* A target other than 0 names the host; 0 is the host's answer, which goes
\* to the joiner that last used the connection id.
Route(t, k) ==
    IF t # 0 THEN hosts[t]
    ELSE IF sessions[k] = NONE THEN NONE ELSE sessions[k].joiner

Signal(c, t, k) ==
    LET dest == Route(t, k)
        line == [from |-> c, frame |-> frames[c] + 1, target |-> t]
    IN  /\ Reads(c, "Signal")
        /\ t # 0 => k \in Offers[AddrOf[c]]
        /\ sessions' = IF t # 0 /\ dest # NONE
                         THEN [sessions EXCEPT
                                 ![k] = [joiner |-> AddrOf[c], host |-> dest]]
                         ELSE sessions
        /\ todo' = IF dest # NONE
                     THEN [todo EXCEPT ![c] =
                             <<To(dest, [type |-> "Signal",
                                         connection_id |-> k,
                                         data |-> line])>>]
                     ELSE todo
        /\ UNCHANGED <<sock, task, joining, outVars, hostVars, next_session_id>>

\* Mutant: the newest message is written first.
DeliverFirst(a, m) ==
    LET d == clients[a]
    IN  IF d # NONE /\ writer[d] = "running"
          THEN [chan EXCEPT ![d] = <<m>> \o @] ELSE chan

\* send_to: the address is looked up now.  The message is lost when the
\* client left, or when its writer is gone and the channel with it.
Deliver(a, m) ==
    LET d == clients[a]
    IN  IF d # NONE /\ writer[d] = "running"
          THEN [chan EXCEPT ![d] = Append(@, m)] ELSE chan

SendTo(c) ==
    /\ todo[c] # <<>>
    /\ todo' = [todo EXCEPT ![c] = Tail(@)]
    /\ chan' = Deliver(Head(todo[c]).to, Head(todo[c]).msg)
    /\ UNCHANGED <<sock, task, joining, writer, clients, hostVars, sessVars, frames>>

\* handle_client returns: both halves of the socket are dropped and the
\* writer is aborted, and with it what the channel still holds.
Leave(c) ==
    /\ Selecting(c)
    /\ task' = [task EXCEPT ![c] = "leaving"]
    /\ writer' = [writer EXCEPT ![c] = "stopped"]
    /\ chan' = [chan EXCEPT ![c] = <<>>]
    /\ sock' = [sock EXCEPT ![c] = "closed"]
    /\ UNCHANGED <<todo, joining, clients, hostVars, sessVars, frames>>

\* End of stream or an I/O error.
ReadEnds(c) == sock[c] = "closed" /\ Leave(c)

\* An oversized or malformed frame.
ReadFails(c) == sock[c] = "open" /\ Leave(c)

\* Mutant: the read has no timeout.
NoIdleTimeout(c) == FALSE

\* CLIENT_IDLE_TIMEOUT passed without a message.
IdleTimeout(c) == sock[c] \in {"open", "silent"} /\ Leave(c)

\* Mutant: nobody waits for the notification.
NoWriterDead(c) == FALSE

\* The writer notified writer_dead.
WriterDead(c) == writer[c] = "dead" /\ Leave(c)

\* Mutant: the handle of a client that left stays.
KeepClient(a) == clients

RemoveClient(a) == [clients EXCEPT ![a] = NONE]

\* Mutant: only the sessions of a host that left are dropped.
InvolvesAsHost(k, a) == sessions[k] # NONE /\ sessions[k].host = a

Involves(k, a) ==
    sessions[k] # NONE /\ (sessions[k].joiner = a \/ sessions[k].host = a)

\* Mutant: the hosts of a client that left stay listed.
NoOrphans(a) == {}

Orphaned(a) == {id \in HostIds : hosts[id] = a}

\* The accept loop's task, after handle_client returned: one critical
\* section forgets the client, its sessions and its hosts.
Cleanup(c) ==
    LET a == AddrOf[c]
    IN  /\ task[c] = "leaving"
        /\ task' = [task EXCEPT ![c] = "done"]
        /\ clients' = RemoveClient(a)
        /\ sessions' = [k \in Keys |-> IF Involves(k, a) THEN NONE ELSE sessions[k]]
        /\ hosts' = [id \in HostIds |->
                       IF id \in Orphaned(a) THEN NONE ELSE hosts[id]]
        /\ host_records' = [id \in HostIds |->
                              IF id \in Orphaned(a) THEN NONE ELSE host_records[id]]
        /\ UNCHANGED <<sock, todo, joining, writer, chan, next_session_id, frames>>

-----------------------------------------------------------------------------
(* The writer task.                                                        *)

\* The kernel takes the frame, which a connection that is already dead
\* may do as well.
WriterSends(c) ==
    /\ writer[c] = "running"
    /\ chan[c] # <<>>
    /\ chan' = [chan EXCEPT ![c] = Tail(@)]
    /\ UNCHANGED <<sock, task, todo, joining, writer, clients, hostVars,
                   sessVars, frames>>

WriterStops(c) ==
    /\ writer' = [writer EXCEPT ![c] = "dead"]
    /\ chan' = [chan EXCEPT ![c] = <<>>]
    /\ UNCHANGED <<sock, task, todo, joining, clients, hostVars, sessVars, frames>>

\* A write on a broken connection fails.
WriterFails(c) ==
    /\ writer[c] = "running"
    /\ chan[c] # <<>>
    /\ sock[c] # "open"
    /\ WriterStops(c)

\* The channel is empty and its only sender, stored in clients, was dropped.
WriterDrained(c) ==
    /\ writer[c] = "running"
    /\ chan[c] = <<>>
    /\ clients[AddrOf[c]] # c
    /\ WriterStops(c)

-----------------------------------------------------------------------------

Handles(c) ==
    \/ Ping(c)
    \/ \E id \in HostIds, ad \in Ads : RegisterHost(c, id, ad)
    \/ \E id \in HostIds, ad \in Ads : UpdateHost(c, id, ad)
    \/ \E id \in HostIds : UnregisterHost(c, id)
    \/ ListHosts(c)
    \/ \E id \in HostIds : ConnectRequest(c, id)
    \/ \E t \in HostIds \cup {0}, k \in ConnIds : Signal(c, t, k)

\* Every connection came and went.
Finished == (\A c \in Conns : task[c] = "done") /\ UNCHANGED vars

Next ==
    \/ \E c \in Conns :
         \/ Accept(c) \/ PeerCloses(c) \/ PeerVanishes(c)
         \/ Enter(c) \/ Handles(c) \/ AllocateSession(c) \/ SendTo(c)
         \/ ReadEnds(c) \/ ReadFails(c) \/ IdleTimeout(c) \/ WriterDead(c)
         \/ Cleanup(c)
         \/ WriterSends(c) \/ WriterFails(c) \/ WriterDrained(c)
    \/ Finished

Spec == Init /\ [][Next]_vars

(* The runtime polls every task that can run.  Nothing is assumed of the   *)
(* peers; the idle timeout is only certain to fire on a silent connection. *)
Fairness ==
    \A c \in Conns :
      /\ WF_vars(Enter(c)) /\ WF_vars(AllocateSession(c)) /\ WF_vars(SendTo(c))
      /\ WF_vars(ReadEnds(c)) /\ WF_vars(WriterDead(c))
      /\ WF_vars(sock[c] = "silent" /\ IdleTimeout(c))
      /\ WF_vars(Cleanup(c))
      /\ WF_vars(WriterSends(c)) /\ WF_vars(WriterDrained(c))

FairSpec == Spec /\ Fairness

-----------------------------------------------------------------------------
(* Properties.                                                             *)

\* The handler of c is in the registry's books: it has entered its address
\* and still has its cleanup ahead.
Active(c) == task[c] \in {"loop", "leaving"}

Served(a) == \E c \in Conns : AddrOf[c] = a /\ Active(c)

\* A host is in the list that ListHosts hands out exactly when joiners can be
\* routed to it, and the handler that will unlist it when its peer is gone is
\* still there: hosts and host_records never drift apart and no listing
\* outlives the last connection of its address.
ListedHostsAreServed ==
    \A id \in HostIds :
      /\ hosts[id] = NONE <=> host_records[id] = NONE
      /\ hosts[id] # NONE => Served(hosts[id])

\* A session that Signal opened has both its ends connected, and one that
\* ConnectRequest opened has at least its joiner connected: the cleanup of
\* the last connection of an address leaves no such session behind.
SessionsAreServed ==
    \A k \in Keys : sessions[k] # NONE =>
      /\ Served(sessions[k].joiner)
      /\ k \notin 1 .. MaxSession => Served(sessions[k].host)

\* What the comment in the cleanup says of all sessions: "Relay sessions
\* involving this client are dead too."
SessionsDieWithTheirClients ==
    \A k \in Keys : sessions[k] # NONE =>
      Served(sessions[k].joiner) /\ Served(sessions[k].host)

\* A channel that send_to finds under an address belongs to a connection from
\* that address that was not cleaned up, so no message goes to a finished one.
ChannelsAreServed ==
    \A a \in Addrs : clients[a] # NONE =>
      AddrOf[clients[a]] = a /\ Active(clients[a])

\* The directory that the tasks and maps of the server add up to.
Presence == [c \in Conns |-> IF Active(c) THEN "here"
                            ELSE IF task[c] = "done" THEN "gone" ELSE "away"]

Directory == INSTANCE HostDirectory WITH
    Clients <- Conns, presence <- Presence, requests <- frames,
    owner <- hosts, record <- host_records

\* The server implements HostDirectory: a listing is only changed by a message
\* of the client that owns it, or taken over by one that registers the same
\* sender id, and a cleanup removes all that its address lists and no more,
\* although messages are handled in several critical sections and two
\* connections can share an address.
ImplementsDirectory == Directory!DirectorySpec

\* Two signals of one connection wait for one peer in the order in which they
\* were sent (an offer before its candidates), although each of them crosses
\* two critical sections and a channel.
SignalsInOrder ==
    \A d \in Conns : \A i, j \in 1 .. Len(chan[d]) :
      LET m == chan[d][i]
          n == chan[d][j]
      IN  (/\ i < j
           /\ m.type = "Signal" /\ n.type = "Signal"
           /\ m.data.from = n.data.from)
          => m.data.frame < n.data.frame

\* A signal for a host waits at a peer that registers this host, and an answer
\* at a peer that opened this WebRTC connection, even if the host moved, the
\* joiner left or another joiner came while the signal was on its way.
SignalsReachTheirPeer ==
    \A d \in Conns : \A i \in 1 .. Len(chan[d]) :
      LET m == chan[d][i]
      IN  m.type = "Signal" =>
            IF m.data.target # 0
              THEN m.data.target \in Registers[AddrOf[d]]
              ELSE m.connection_id \in Offers[AddrOf[d]]

\* ConnectRequest never overwrites a session: the id it is about to hand out
\* names none.  It needs WebRTC connection ids to stay clear of the counter,
\* which the code leaves to chance (both live in Registry.sessions).
FreshSessionIds ==
    ConnIds \cap (1 .. MaxSession) = {}
      => \A k \in next_session_id .. MaxSession : sessions[k] = NONE

\* A host whose connection died, silently or not, is unlisted, unless its peer
\* comes back: what CLIENT_IDLE_TIMEOUT and the cleanup are there for.
DeadHostsLeave ==
    \A id \in HostIds, a \in Addrs :
      hosts[id] = a ~>
        (hosts[id] # a \/ \E c \in Conns : AddrOf[c] = a /\ sock[c] = "open")

\* A handler whose entry in clients was replaced or removed by another
\* connection from its address, and whose peer would wait for answers that
\* cannot be sent any more, closes the connection.
UnreachableHandlersEnd ==
    \A c \in Conns :
      (task[c] = "loop" /\ clients[AddrOf[c]] # c) ~> (task[c] = "done")
=============================================================================
