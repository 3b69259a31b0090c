---------------------------- MODULE MineshaftNode ----------------------------
(***************************************************************************)
(* The node that runs beside the game (examples/client/client.rs): the     *)
(* main loop that keeps a connection to the rendezvous server and tells it *)
(* what the game does, the reader task of each connection, and the task    *)
(* that forwards the game's signals.  The main loop is cut at the awaits   *)
(* during which another task or the game can change what it works with.    *)
(*                                                                         *)
(* Connections are numbered in the order in which they are made; 0 stands  *)
(* for None.  The server is seen through its connections only: remote is   *)
(* what it lists for this node once it has read everything written.        *)
(***************************************************************************)
EXTENDS Naturals, Sequences, FiniteSets

CONSTANTS
    Me,           \* my_network_id
    Others,       \* sender ids of other nodes
    GameIds,      \* network ids that instances of the local game take
    Ads,          \* contents of a ServerAdvertisement
    Unencodable,  \* sender ids whose response packet cannot be marshaled
    HostLists,    \* host lists that the server may answer with
    SignalIds,    \* WebRTC connection ids
    MaxConns,     \* bound: connections made
    MaxFaults,    \* bound: failures of the network and of the probes
    MaxMoves,     \* bound: changes of what the game does
    NONE

Ids == Others \cup {Me}
Conns == 1 .. MaxConns
World == [id : GameIds, ad : Ads]

Join == [game : GameIds, target : Ids]

ASSUME NodeAssumption ==
    /\ HostLists \subseteq SUBSET Ids
    /\ \A hosts \in HostLists : IsFiniteSet(hosts)
    /\ MaxConns \in Nat /\ MaxFaults \in Nat /\ MaxMoves \in Nat
    /\ NONE \notin GameIds \cup Ads \cup Join

VARIABLES
    pc,                 \* where the main loop is
    mode, world,        \* what detect_game_state returned
    server,             \* the connection that the main loop uses
    server_writer,      \* the connection that the signal task writes to
    reader_task,        \* the connection whose reader can be aborted
    reader_alive,       \* the flag that all readers share
    stale,              \* LIVENESS_TIMEOUT has passed since last_seen
    incoming, asked,    \* host lists for the main loop; one is due
    hosting_registered, registered_advertisement,
    advertised,         \* sender ids in the discovery service's registry
    advertised_count,
    local_game_id, join_conns,
    epoch,              \* connections made so far
    link, reader,       \* each connection and its reader task
    remote,             \* each connection's effect on the server's host list
    game, discovered,   \* the game; its answer to the discovery request
    pending,            \* the signal that the signal task is about to write
    forwarded,          \* the last signal of each connection to the server
    injected,           \* the last signal to the game
    faults, moves

loopVars == <<pc, mode, world>>
connVars == <<server, server_writer, reader_task, epoch, link, reader, reader_alive, stale>>
listVars == <<incoming, asked>>
hostVars == <<hosting_registered, registered_advertisement, remote>>
advVars == <<advertised, advertised_count>>
sigVars == <<join_conns, pending, forwarded, injected>>
gameVars == <<game, discovered, moves>>

vars == <<loopVars, connVars, listVars, hostVars, advVars, local_game_id,
          sigVars, gameVars, faults>>

Game(state, id, ad) == [state |-> state, id |-> id, ad |-> ad]

LoopTypeOK ==
    /\ pc \in {"top", "connect", "detect", "probe", "act", "fetch", "await", "beat"}
    /\ mode \in {"Closed", "Error", "Browsing", "Hosting"}
    /\ world \in World \cup {NONE}

ConnTypeOK ==
    /\ epoch \in 0 .. MaxConns
    /\ server \in {0, epoch} /\ server_writer \in {0, epoch}
    /\ reader_task \in {0, epoch}
    /\ reader_alive \in BOOLEAN /\ stale \in BOOLEAN
    /\ link \in [Conns -> {"unused", "up", "silent", "closed"}]
    /\ reader \in [Conns -> {"none", "run", "aborting", "breaking", "ended", "aborted"}]

HostTypeOK ==
    /\ hosting_registered \in BOOLEAN
    /\ registered_advertisement \in Ads \cup {NONE}
    /\ remote \in [Conns -> Ads \cup {NONE}]

SigTypeOK ==
    /\ join_conns \in [SignalIds -> Join \cup {NONE}]
    /\ pending \in [via : 0 .. MaxConns, target : Ids \cup {0}, conn : SignalIds] \cup {NONE}
    /\ forwarded \in [SignalIds -> [via : Conns, target : Ids \cup {0}] \cup {NONE}]
    /\ injected \in [sender : Ids, recipient : GameIds, conn : SignalIds] \cup {NONE}

GameTypeOK ==
    /\ game \in [state : {"closed", "browsing", "hosting"},
                 id : GameIds \cup {NONE}, ad : Ads \cup {NONE}]
    /\ discovered \in World \cup {NONE}
    /\ moves \in 0 .. MaxMoves

NodeTypeOK ==
    /\ LoopTypeOK /\ ConnTypeOK /\ HostTypeOK /\ SigTypeOK /\ GameTypeOK
    /\ incoming \in Seq(HostLists) /\ asked \in BOOLEAN
    /\ advertised \subseteq Ids /\ advertised_count \in Nat
    /\ local_game_id \in GameIds \cup {NONE}
    /\ faults \in 0 .. MaxFaults

Init ==
    /\ pc = "top" /\ mode = "Closed" /\ world = NONE
    /\ server = 0 /\ server_writer = 0 /\ reader_task = 0
    /\ reader_alive = FALSE /\ stale = FALSE
    /\ incoming = <<>> /\ asked = FALSE
    /\ hosting_registered = FALSE /\ registered_advertisement = NONE
    /\ advertised = {} /\ advertised_count = 0
    /\ local_game_id = NONE
    /\ join_conns = [k \in SignalIds |-> NONE]
    /\ epoch = 0
    /\ link = [n \in Conns |-> "unused"]
    /\ reader = [n \in Conns |-> "none"]
    /\ remote = [n \in Conns |-> NONE]
    /\ game = Game("closed", NONE, NONE)
    /\ discovered = NONE
    /\ pending = NONE /\ injected = NONE
    /\ forwarded = [k \in SignalIds |-> NONE]
    /\ faults = 0 /\ moves = 0

Fault == faults < MaxFaults /\ faults' = faults + 1

-----------------------------------------------------------------------------
(* Top of the loop: the connection.                                        *)

\* Mutant: the reader is left running.
LeaveReader(n) == reader

\* AbortHandle::abort takes effect when the task next has to wait: a reader that
\* still has messages to read may be in the middle of a poll and goes on until
\* then, and one that already left its loop has nothing to wait for and still
\* stores the flag.
Abort(n) ==
    IF reader[n] # "run" THEN reader
    ELSE [reader EXCEPT ![n] = IF link[n] = "silent" THEN "aborted" ELSE "aborting"]

DropReader ==
    /\ pc = "top" /\ server = 0
    /\ pc' = "connect"
    /\ IF reader_task # 0
         THEN /\ reader' = Abort(reader_task)
              /\ server_writer' = 0
         ELSE UNCHANGED <<reader, server_writer>>
    /\ reader_task' = 0
    /\ UNCHANGED <<mode, world, server, epoch, link, reader_alive, stale, listVars,
                   hostVars, advVars, local_game_id, sigVars, gameVars, faults>>

\* Mutant: a silent connection is taken for a live one.
ReaderDead == ~reader_alive

\* reader_dead || silent
ConnectionLost == ~reader_alive \/ stale

LoseServer ==
    /\ pc = "top" /\ server # 0
    /\ ConnectionLost
    /\ server' = 0
    /\ UNCHANGED <<loopVars, server_writer, reader_task, epoch, link, reader,
                   reader_alive, stale, listVars, hostVars, advVars,
                   local_game_id, sigVars, gameVars, faults>>

KeepServer ==
    /\ pc = "top" /\ server # 0
    /\ ~ConnectionLost
    /\ pc' = "detect"
    /\ UNCHANGED <<mode, world, connVars, listVars, hostVars, advVars,
                   local_game_id, sigVars, gameVars, faults>>

\* Mutant: what was registered over the old connection is still believed.
KeepRegistration == UNCHANGED <<hosting_registered, registered_advertisement>>

\* The server drops the registration with the old connection.
ForgetRegistration == hosting_registered' = FALSE /\ registered_advertisement' = NONE

\* A new connection, its reader and its channel.
Connect ==
    LET n == epoch + 1
    IN  /\ pc = "connect"
        /\ epoch < MaxConns
        /\ epoch' = n
        /\ link' = [link EXCEPT ![n] = "up"]
        /\ reader' = [reader EXCEPT ![n] = "run"]
        /\ reader_alive' = TRUE /\ stale' = FALSE
        /\ server' = n /\ server_writer' = n /\ reader_task' = n
        /\ incoming' = <<>> /\ asked' = FALSE
        /\ ForgetRegistration
        /\ pc' = "detect"
        /\ UNCHANGED <<mode, world, remote, advVars, local_game_id, sigVars,
                       gameVars, faults>>

ConnectFails ==
    /\ pc = "connect"
    /\ Fault
    /\ pc' = "top"
    /\ UNCHANGED <<mode, world, connVars, listVars, hostVars, advVars,
                   local_game_id, sigVars, gameVars>>

-----------------------------------------------------------------------------
(* detect_game_state.                                                      *)

Detected(m, w) ==
    /\ mode' = m /\ world' = w
    /\ pc' = "act"
    /\ UNCHANGED <<connVars, listVars, hostVars, advVars, local_game_id,
                   sigVars, gameVars>>

PortFree ==
    /\ pc = "detect" /\ game.state = "closed"
    /\ Detected("Closed", NONE)
    /\ UNCHANGED faults

\* udp_port_bound returns Err: handled like Ok(false).
PortError ==
    /\ pc = "detect"
    /\ Fault
    /\ Detected("Error", NONE)

\* The port is bound: forget earlier answers and send a discovery request.
PortBound ==
    /\ pc = "detect" /\ game.state # "closed"
    /\ pc' = "probe"
    /\ discovered' = NONE
    /\ UNCHANGED <<mode, world, connVars, listVars, hostVars, advVars,
                   local_game_id, sigVars, game, moves, faults>>

\* External: a game that hosts answers; the signaling stack keeps the answer.
GameResponds ==
    /\ pc = "probe" /\ game.state = "hosting"
    /\ discovered = NONE
    /\ discovered' = [id |-> game.id, ad |-> game.ad]
    /\ UNCHANGED <<loopVars, connVars, listVars, hostVars, advVars,
                   local_game_id, sigVars, game, moves, faults>>

\* 250 ms later: an answer means hosting, none means browsing.
ProbeAnswered ==
    /\ pc = "probe" /\ discovered # NONE
    /\ Detected("Hosting", discovered)
    /\ UNCHANGED faults

ProbeUnanswered ==
    /\ pc = "probe" /\ discovered = NONE
    /\ IF game.state = "hosting" THEN Fault ELSE UNCHANGED faults
    /\ Detected("Browsing", NONE)

-----------------------------------------------------------------------------
(* What the loop does about the game.                                      *)

\* send_or_drop on the loop's connection: a write can fail on a dead one only,
\* and may appear to succeed on it.
Writes(ok) == ok \/ link[server] # "up"

\* DiscoveryService::replace_all, as far as the ids go.
Replaced(hosts) == (advertised \cap hosts) \cup (hosts \ Unencodable)

\* The user left the world, or the game: common to Closed and Browsing.
Unregister(ok) ==
    IF hosting_registered
      THEN /\ Writes(ok)
           /\ server' = IF ok THEN server ELSE 0
           /\ remote' = IF ok THEN [remote EXCEPT ![server] = NONE] ELSE remote
           /\ hosting_registered' = FALSE
           /\ registered_advertisement' = NONE
           /\ local_game_id' = NONE
      ELSE /\ ok
           /\ UNCHANGED <<server, hostVars, local_game_id>>

GameClosed(ok) ==
    /\ pc = "act" /\ mode \in {"Closed", "Error"}
    /\ Unregister(ok)
    /\ advertised' = IF advertised_count > 0 THEN Replaced({}) ELSE advertised
    /\ advertised_count' = 0
    /\ pc' = "beat"
    /\ UNCHANGED <<mode, world, server_writer, reader_task, epoch, link, reader,
                   reader_alive, stale, listVars, sigVars, gameVars, faults>>

\* Mutant: only the first advertisement of a world is sent.
NotRegistered == ~hosting_registered

HostChanged == ~hosting_registered \/ registered_advertisement # world.ad

\* RegisterHost, or UpdateHost if the world is registered.
GameHosting(ok) ==
    /\ pc = "act" /\ mode = "Hosting"
    /\ local_game_id' = world.id
    /\ IF HostChanged
         THEN /\ Writes(ok)
              /\ advertised' = (IF advertised_count > 0 THEN Replaced({}) ELSE advertised)
                                 \cup ({Me} \ Unencodable)
              /\ advertised_count' = 0
              /\ server' = IF ok THEN server ELSE 0
              /\ remote' = IF ok /\ (hosting_registered => remote[server] # NONE)
                             THEN [remote EXCEPT ![server] = world.ad] ELSE remote
              /\ hosting_registered' = ok
              /\ registered_advertisement' = IF ok THEN world.ad ELSE NONE
         ELSE /\ ok
              /\ UNCHANGED <<server, hostVars, advVars>>
    /\ pc' = "beat"
    /\ UNCHANGED <<mode, world, server_writer, reader_task, epoch, link, reader,
                   reader_alive, stale, listVars, sigVars, gameVars, faults>>

GameBrowsing(ok) ==
    /\ pc = "act" /\ mode = "Browsing"
    /\ Unregister(ok)
    /\ pc' = "fetch"
    /\ UNCHANGED <<mode, world, server_writer, reader_task, epoch, link, reader,
                   reader_alive, stale, listVars, advVars, sigVars, gameVars, faults>>

\* fetch_host_list: ask ...
FetchAsks(ok) ==
    /\ pc = "fetch"
    /\ IF server # 0 THEN Writes(ok) ELSE ~ok
    /\ asked' = ok
    /\ server' = IF ok THEN server ELSE 0
    /\ pc' = IF ok THEN "await" ELSE "beat"
    /\ UNCHANGED <<mode, world, server_writer, reader_task, epoch, link, reader,
                   reader_alive, stale, incoming, hostVars, advVars,
                   local_game_id, sigVars, gameVars, faults>>

\* Mutant: the number of advertised servers is not kept.
OldCount(shown) == advertised_count

Count(shown) == Cardinality(shown)

\* ... and wait for what the reader passes on.
FetchSucceeds ==
    /\ pc = "await" /\ incoming # <<>>
    /\ incoming' = Tail(incoming)
    /\ advertised' = Replaced(Head(incoming))
    /\ advertised_count' = Count(advertised')
    /\ pc' = "beat"
    /\ UNCHANGED <<mode, world, connVars, asked, hostVars, local_game_id,
                   sigVars, gameVars, faults>>

\* The reader ended, or 5 s passed (which on a live connection is a fault).
FetchFails ==
    /\ pc = "await" /\ incoming = <<>>
    /\ IF link[server] = "up" THEN Fault ELSE UNCHANGED faults
    /\ server' = 0
    /\ pc' = "beat"
    /\ UNCHANGED <<mode, world, server_writer, reader_task, epoch, link, reader,
                   reader_alive, stale, listVars, hostVars, advVars,
                   local_game_id, sigVars, gameVars>>

\* The ping, if one is due, and the sleep.
Beat(ok) ==
    /\ pc = "beat"
    /\ IF server # 0 THEN Writes(ok) ELSE ok
    /\ server' = IF ok THEN server ELSE 0
    /\ pc' = "top"
    /\ UNCHANGED <<mode, world, server_writer, reader_task, epoch, link, reader,
                   reader_alive, stale, listVars, hostVars, advVars,
                   local_game_id, sigVars, gameVars, faults>>

-----------------------------------------------------------------------------
(* The reader task of connection n.                                        *)

Polled(n) == reader[n] \in {"run", "aborting"}

\* A connection that was closed can still have messages to read.
CanRead(n) == Polled(n) /\ link[n] \in {"up", "closed"}

\* Every message sets last_seen, which all readers share.
Refreshes ==
    /\ stale' = FALSE
    /\ UNCHANGED <<server, server_writer, reader_task, epoch, link, reader, reader_alive>>

ReaderHostList(n, hosts) ==
    /\ CanRead(n) /\ n = epoch
    /\ asked
    /\ asked' = FALSE
    /\ incoming' = Append(incoming, hosts)
    /\ Refreshes
    /\ UNCHANGED <<loopVars, hostVars, advVars, local_game_id, sigVars, gameVars, faults>>

\* A message that is only logged, or a host list for a channel that was dropped.
ReaderOther(n) ==
    /\ CanRead(n) /\ stale
    /\ Refreshes
    /\ UNCHANGED <<loopVars, listVars, hostVars, advVars, local_game_id, sigVars,
                   gameVars, faults>>

\* Mutant: sender and recipient are swapped.
SwappedSignal(joiner, k) ==
    IF local_game_id # NONE
      THEN [sender |-> local_game_id, recipient |-> joiner, conn |-> k]
    ELSE injected

\* inject_signal: hosting comes first, then the joins that the game started;
\* without either there is no route.
InjectSignal(joiner, k) ==
    IF local_game_id # NONE
      THEN [sender |-> joiner, recipient |-> local_game_id, conn |-> k]
    ELSE IF join_conns[k] # NONE
      THEN [sender |-> join_conns[k].target, recipient |-> join_conns[k].game,
            conn |-> k]
    ELSE injected

\* The server passes the sender's own id on.  Any node may offer to join; a join
\* that reached the server is answered by the node that was clicked.
Senders(k) ==
    IF join_conns[k] = NONE THEN Others
    ELSE IF forwarded[k] # NONE THEN {join_conns[k].target} ELSE {}

ReaderSignal(n, joiner, k) ==
    /\ CanRead(n)
    /\ joiner \in Senders(k)
    /\ injected' = InjectSignal(joiner, k)
    /\ Refreshes
    /\ UNCHANGED <<loopVars, listVars, hostVars, advVars, local_game_id, join_conns,
                   pending, forwarded, gameVars, faults>>

\* End of stream or error: the loop is left.
ReaderBreaks(n) ==
    /\ Polled(n) /\ link[n] = "closed"
    /\ reader' = [reader EXCEPT ![n] = "breaking"]
    /\ UNCHANGED <<loopVars, server, server_writer, reader_task, epoch, link,
                   reader_alive, stale, listVars, hostVars, advVars,
                   local_game_id, sigVars, gameVars, faults>>

\* The aborted task has to wait, and is dropped.
ReaderStops(n) ==
    /\ reader[n] = "aborting"
    /\ reader' = [reader EXCEPT ![n] = "aborted"]
    /\ UNCHANGED <<loopVars, server, server_writer, reader_task, epoch, link,
                   reader_alive, stale, listVars, hostVars, advVars,
                   local_game_id, sigVars, gameVars, faults>>

\* After the loop the shared flag is cleared, whichever connection is current now.
ReaderEnds(n) ==
    /\ reader[n] = "breaking"
    /\ reader' = [reader EXCEPT ![n] = "ended"]
    /\ reader_alive' = FALSE
    /\ UNCHANGED <<loopVars, server, server_writer, reader_task, epoch, link,
                   stale, listVars, hostVars, advVars, local_game_id, sigVars,
                   gameVars, faults>>

-----------------------------------------------------------------------------
(* The task that forwards the signals of the local game.                   *)

\* Mutant: the join is not remembered.
ForgetJoin(k, t) == join_conns

RememberJoin(k, t) == [join_conns EXCEPT ![k] = [game |-> game.id, target |-> t]]

\* The player clicked an advertised server: join_target knows the connection,
\* whose id the game made up for this join.
GameJoins(k, t) ==
    /\ pending = NONE
    /\ game.state = "browsing" /\ t \in advertised
    /\ join_conns[k] \in {NONE, [game |-> game.id, target |-> t]}
    /\ join_conns' = RememberJoin(k, t)
    /\ pending' = [via |-> 0, target |-> t, conn |-> k]
    /\ UNCHANGED <<loopVars, connVars, listVars, hostVars, advVars,
                   local_game_id, forwarded, injected, gameVars, faults>>

\* The hosting game answers a joiner; unless it is known as the local game,
\* its signals are skipped.
GameAnswers(k) ==
    /\ pending = NONE
    /\ game.state = "hosting" /\ join_conns[k] = NONE
    /\ local_game_id = game.id
    /\ pending' = [via |-> 0, target |-> 0, conn |-> k]
    /\ UNCHANGED <<loopVars, connVars, listVars, hostVars, advVars,
                   local_game_id, join_conns, forwarded, injected, gameVars, faults>>

\* The writer of the connection is looked up; without one the signal is lost.
TakeWriter ==
    /\ pending # NONE /\ pending.via = 0
    /\ pending' = IF server_writer # 0 THEN [pending EXCEPT !.via = server_writer] ELSE NONE
    /\ UNCHANGED <<loopVars, connVars, listVars, hostVars, advVars,
                   local_game_id, join_conns, forwarded, injected, gameVars, faults>>

\* The write, on a connection that may have been given up since.
ForwardSignal ==
    /\ pending # NONE /\ pending.via # 0
    /\ pending' = NONE
    /\ \/ forwarded' = [forwarded EXCEPT ![pending.conn] =
                           [via |-> pending.via, target |-> pending.target]]
       \/ link[pending.via] # "up" /\ forwarded' = forwarded
    /\ UNCHANGED <<loopVars, connVars, listVars, hostVars, advVars,
                   local_game_id, join_conns, injected, gameVars, faults>>

-----------------------------------------------------------------------------
(* The game and the network.                                               *)

\* What the player can do next: start the game, leave it, open or leave a
\* world, or change something that the advertisement shows.
GameMoves ==
    /\ moves < MaxMoves /\ moves' = moves + 1
    /\ game' \in IF game.state = "closed"
                   THEN {Game("browsing", i, NONE) : i \in GameIds}
                   ELSE ({Game("closed", NONE, NONE), Game("browsing", game.id, NONE)}
                          \cup {Game("hosting", game.id, ad) : ad \in Ads}) \ {game}
    /\ UNCHANGED <<loopVars, connVars, listVars, hostVars, advVars,
                   local_game_id, sigVars, discovered, faults>>

\* The server or the network ends the connection, or a read error does.
LinkCloses(n) ==
    /\ link[n] \in {"up", "silent"}
    /\ Fault
    /\ link' = [link EXCEPT ![n] = "closed"]
    /\ UNCHANGED <<loopVars, server, server_writer, reader_task, epoch, reader,
                   reader_alive, stale, listVars, hostVars, advVars,
                   local_game_id, sigVars, gameVars>>

\* A NAT or a forwarder drops it and tells nobody.
LinkDrops(n) ==
    /\ link[n] = "up"
    /\ Fault
    /\ link' = [link EXCEPT ![n] = "silent"]
    /\ UNCHANGED <<loopVars, server, server_writer, reader_task, epoch, reader,
                   reader_alive, stale, listVars, hostVars, advVars,
                   local_game_id, sigVars, gameVars>>

\* LIVENESS_TIMEOUT after the last message.  Pongs keep a live link fresh.
GoesStale ==
    /\ epoch # 0 /\ link[epoch] = "silent"
    /\ ~stale
    /\ stale' = TRUE
    /\ UNCHANGED <<loopVars, server, server_writer, reader_task, epoch, link,
                   reader, reader_alive, listVars, hostVars, advVars,
                   local_game_id, sigVars, gameVars, faults>>

-----------------------------------------------------------------------------

Loop ==
    \/ DropReader \/ LoseServer \/ KeepServer \/ Connect \/ ConnectFails
    \/ PortFree \/ PortError \/ PortBound \/ ProbeAnswered \/ ProbeUnanswered
    \/ \E ok \in BOOLEAN : GameClosed(ok) \/ GameHosting(ok) \/ GameBrowsing(ok)
                            \/ FetchAsks(ok) \/ Beat(ok)
    \/ FetchSucceeds \/ FetchFails

Next ==
    \/ Loop
    \/ \E n \in Conns :
         \/ \E hosts \in HostLists : ReaderHostList(n, hosts)
         \/ \E joiner \in Ids, k \in SignalIds : ReaderSignal(n, joiner, k)
         \/ ReaderOther(n) \/ ReaderBreaks(n) \/ ReaderStops(n) \/ ReaderEnds(n)
         \/ LinkCloses(n) \/ LinkDrops(n)
    \/ \E k \in SignalIds, t \in Ids : GameJoins(k, t)
    \/ \E k \in SignalIds : GameAnswers(k)
    \/ TakeWriter \/ ForwardSignal
    \/ GameMoves \/ GameResponds \/ GoesStale

Spec == Init /\ [][Next]_vars

(* The runtime polls the loop and the readers, no poll goes on for ever,   *)
(* time passes, and the server answers while the connection is up.         *)
(* Failures are bounded, not fair.                                         *)
Fairness ==
    /\ WF_vars(Loop)
    /\ WF_vars(GameResponds)
    /\ WF_vars(GoesStale)
    /\ \A n \in Conns :
         /\ WF_vars(ReaderBreaks(n)) /\ WF_vars(ReaderStops(n)) /\ WF_vars(ReaderEnds(n))
         /\ WF_vars(\E hosts \in HostLists : ReaderHostList(n, hosts))

FairSpec == Spec /\ Fairness

-----------------------------------------------------------------------------
(* Properties.                                                             *)

\* The loop's idea of its registration is what the server, having read all of
\* the current connection, lists: across failed writes, reconnections and
\* changes of the game, nothing is listed that the loop does not know of and
\* no update is skipped because of an advertisement the server never got.
RegistrationIsKnown ==
    server # 0 =>
      /\ remote[server] = registered_advertisement
      /\ hosting_registered <=> registered_advertisement # NONE

\* When the loop has dealt with a game that hosts or is closed, no server of
\* another node is advertised to the game any more, although the loop only
\* clears the registry when its own count says that there is something in it.
OthersOnlyWhileBrowsing ==
    pc = "beat" /\ mode # "Browsing" => advertised \subseteq {Me}

\* The answer to a join finds its way back: before the signal of a join leaves
\* the node, the server that the player clicked is remembered for it, and no
\* reconnection, restart of the game or other signal changes that.
ForwardedJoinsAreRemembered ==
    \A k \in SignalIds :
      forwarded[k] # NONE /\ forwarded[k].target # 0 =>
        /\ join_conns[k] # NONE
        /\ join_conns[k].target = forwarded[k].target

\* What inject_signal says of the two ids it chooses: "our game receives".  Once
\* the loop has seen the game browse, the answer of another node to a join of the
\* game that runs is addressed to that game.
AnswersReachTheGame ==
    [][\A k \in SignalIds :
         (/\ injected' # injected /\ injected'.conn = k
          /\ mode = "Browsing" /\ pc \in {"fetch", "await", "beat"}
          /\ join_conns[k] # NONE
          /\ join_conns[k].game = game.id /\ join_conns[k].target # Me)
         => injected'.recipient = game.id]_vars

\* The comment on reader_task: "so a dead connection's reader does not linger
\* after a reconnect".  The reader of an earlier connection comes to its end,
\* also when the connection is silent and would keep it waiting.
OldReadersEnd ==
    (\E n \in Conns : n < epoch /\ Polled(n)) ~> (\A n \in Conns : n < epoch => ~Polled(n))

\* A connection that died, silently or not, is given up: the loop comes to have
\* none, or one that works.
DeadConnectionsAreDropped ==
    (server # 0 /\ link[server] # "up") ~> (server = 0 \/ link[server] = "up")

\* Once the network and the game settle, the server lists exactly what the
\* game does: the world it hosts with its latest advertisement, or nothing.
RegistrationConverges ==
    <>[](/\ server # 0
         /\ remote[server] = IF game.state = "hosting" THEN game.ad ELSE NONE)
=============================================================================
