------------------------- MODULE MineshaftNodeProofs -------------------------
(***************************************************************************)
(* Proofs about the node, for any number of connections, failures, moves,  *)
(* worlds and signals.                                                     *)
(***************************************************************************)
EXTENDS MineshaftNode, FiniteSetTheorems, TLAPS

-----------------------------------------------------------------------------
(* The game.                                                               *)

\* A game that runs has an id, and one that hosts has an advertisement.
GameInv ==
    /\ game \in [state : {"closed", "browsing", "hosting"},
                id : GameIds \cup {NONE}, ad : Ads \cup {NONE}]
    /\ game.state # "closed" => game.id \in GameIds
    /\ game.state = "hosting" => game.ad \in Ads

\* Only GameMoves changes the game, and keeps GameInv.
LEMMA GameCorrect == Spec => []GameInv
<1>1. Init => GameInv
  BY DEF Init, GameInv, Game
<1>2. GameInv /\ [Next]_vars => GameInv'
  <2> SUFFICES ASSUME GameInv, [Next]_vars PROVE GameInv'
    OBVIOUS
  <2>1. CASE GameMoves
    <3>1. game' \in {Game("browsing", i, NONE) : i \in GameIds}
          \/ (/\ game.state # "closed"
              /\ \/ game' = Game("closed", NONE, NONE)
                 \/ game' = Game("browsing", game.id, NONE)
                 \/ \E ad \in Ads : game' = Game("hosting", game.id, ad))
      BY <2>1 DEF GameMoves
    <3> QED BY <3>1 DEF GameInv, Game
  <2>2. CASE game' = game
    BY <2>2 DEF GameInv
  <2>3. Loop => game' = game
    BY DEF Loop, DropReader, LoseServer, KeepServer, Connect, ConnectFails,
           PortFree, PortError, PortBound, ProbeAnswered, ProbeUnanswered,
           Detected, GameClosed, GameHosting, GameBrowsing, FetchAsks, Beat,
           FetchSucceeds, FetchFails, gameVars
  <2>4. GameMoves \/ game' = game
    BY <2>3 DEF Next, ReaderHostList, ReaderSignal, ReaderOther, ReaderBreaks,
           ReaderStops, ReaderEnds, LinkCloses, LinkDrops, GameJoins, GameAnswers,
           TakeWriter, ForwardSignal, GameResponds, GoesStale, gameVars, vars
  <2> QED BY <2>1, <2>2, <2>4
<1> QED BY <1>1, <1>2, PTL DEF Spec

-----------------------------------------------------------------------------
(* The loop knows its registration.                                        *)

\* A new connection starts unlisted, the loop only uses the newest one, and
\* what it acts on as a world is one.
RegistrationInv ==
    /\ epoch \in Nat
    /\ server \in {0, epoch}
    /\ remote \in [Conns -> Ads \cup {NONE}]
    /\ \A n \in Conns : n > epoch => remote[n] = NONE
    /\ discovered \in World \cup {NONE}
    /\ pc = "act" /\ mode = "Hosting" => world \in World
    /\ server # 0 => server \in Conns
    /\ RegistrationIsKnown

\* Each step of the node keeps RegistrationInv.
LEMMA RegistrationStep ==
    ASSUME RegistrationInv, GameInv, [Next]_vars
    PROVE  RegistrationInv'
<1> USE NodeAssumption DEF RegistrationInv, RegistrationIsKnown, hostVars
<1>1. CASE Connect
  <2>1. /\ epoch' = epoch + 1 /\ server' = epoch + 1 /\ epoch + 1 \in Conns
        /\ hosting_registered' = FALSE /\ registered_advertisement' = NONE
        /\ remote' = remote /\ discovered' = discovered /\ pc' = "detect"
    BY <1>1 DEF Connect, ForgetRegistration, gameVars, Conns
  <2>2. remote[epoch + 1] = NONE /\ epoch + 1 # 0
    BY <2>1
  <2>3. \A n \in Conns : n > epoch + 1 => remote[n] = NONE
    BY DEF Conns
  <2> QED BY <2>1, <2>2, <2>3
<1>2. CASE LoseServer
  BY <1>2 DEF LoseServer, loopVars, gameVars
<1>3. ASSUME NEW ok \in BOOLEAN, GameHosting(ok) PROVE RegistrationInv'
  <2>1. /\ world \in World /\ epoch' = epoch /\ discovered' = discovered /\ pc' = "beat"
        /\ world.ad \in Ads /\ world.ad # NONE
    BY <1>3 DEF GameHosting, World, gameVars
  <2>2. CASE HostChanged /\ ok
    <3>1. /\ server' = server /\ hosting_registered' = TRUE
          /\ registered_advertisement' = world.ad
      BY <1>3, <2>2 DEF GameHosting
    <3>2. CASE server = 0
      <4>1. remote' \in {remote, [remote EXCEPT ![0] = world.ad]} /\ 0 \notin Conns
        BY <1>3, <3>2 DEF GameHosting, Conns
      <4>2. remote' = remote
        BY <4>1
      <4> QED BY <2>1, <3>1, <3>2, <4>2
    <3>3. CASE server # 0
      <4>1. remote' = [remote EXCEPT ![server] = world.ad] /\ server = epoch
        BY <1>3, <2>2, <3>3 DEF GameHosting
      <4>2. remote' \in [Conns -> Ads \cup {NONE}] /\ remote'[server] = world.ad
        BY <2>1, <3>3, <4>1
      <4>3. \A n \in Conns : n > epoch => remote'[n] = NONE
        BY <4>1 DEF Conns
      <4> QED BY <2>1, <3>1, <4>2, <4>3
    <3> QED BY <3>2, <3>3
  <2>3. CASE HostChanged /\ ~ok
    BY <1>3, <2>1, <2>3 DEF GameHosting
  <2>4. CASE ~HostChanged
    BY <1>3, <2>1, <2>4 DEF GameHosting
  <2> QED BY <2>2, <2>3, <2>4
<1>4. ASSUME NEW ok \in BOOLEAN, GameClosed(ok) \/ GameBrowsing(ok)
      PROVE RegistrationInv'
  <2>1. /\ epoch' = epoch /\ discovered' = discovered /\ pc' \in {"beat", "fetch"}
        /\ Unregister(ok)
    BY <1>4 DEF GameClosed, GameBrowsing, gameVars
  <2>2. CASE hosting_registered
    <3>1. /\ server' = IF ok THEN server ELSE 0
          /\ hosting_registered' = FALSE /\ registered_advertisement' = NONE
          /\ remote' = IF ok THEN [remote EXCEPT ![server] = NONE] ELSE remote
      BY <2>1, <2>2 DEF Unregister
    <3>2. /\ remote' \in [Conns -> Ads \cup {NONE}]
          /\ \A n \in Conns : remote'[n] = NONE \/ remote'[n] = remote[n]
          /\ (ok /\ server # 0) => remote'[server] = NONE
      BY <3>1
    <3>3. server' # 0 => remote'[server'] = NONE
      BY <3>1, <3>2
    <3> QED BY <2>1, <3>1, <3>2, <3>3
  <2>3. CASE ~hosting_registered
    BY <2>1, <2>3 DEF Unregister
  <2> QED BY <2>2, <2>3
<1>5. ASSUME server' \in {0, server}, pc' # "act" \/ UNCHANGED <<pc, mode, world>>,
             UNCHANGED <<epoch, hostVars>>, discovered' \in World \cup {NONE}
      PROVE RegistrationInv'
  BY <1>5
<1>6. CASE PortFree \/ PortError \/ ProbeUnanswered
  BY <1>6 DEF PortFree, PortError, ProbeUnanswered, Detected, connVars, gameVars
<1>7. CASE ProbeAnswered
  BY <1>7 DEF ProbeAnswered, Detected, connVars, gameVars
<1>8. CASE PortBound
  BY <1>8, <1>5 DEF PortBound, connVars
<1>9. CASE GameResponds
  <2>1. discovered' \in World \cup {NONE}
    BY <1>9 DEF GameResponds, GameInv, World
  <2> QED BY <1>9, <2>1, <1>5 DEF GameResponds, connVars, loopVars
<1>10. CASE DropReader \/ KeepServer \/ ConnectFails \/ FetchSucceeds \/ FetchFails
  BY <1>10, <1>5 DEF DropReader, KeepServer, ConnectFails, FetchSucceeds,
                     FetchFails, connVars, gameVars
<1>11. ASSUME NEW ok \in BOOLEAN, FetchAsks(ok) \/ Beat(ok) PROVE RegistrationInv'
  BY <1>11, <1>5 DEF FetchAsks, Beat, gameVars
<1>12. CASE UNCHANGED <<loopVars, server, epoch, hostVars, discovered>>
  BY <1>12, <1>5 DEF loopVars
<1>13. Loop => RegistrationInv'
  BY <1>1, <1>2, <1>3, <1>4, <1>6, <1>7, <1>8, <1>10, <1>11 DEF Loop
<1>14. Loop \/ GameResponds \/ UNCHANGED <<loopVars, server, epoch, hostVars, discovered>>
  <2> DEFINE Same == UNCHANGED <<loopVars, server, epoch, hostVars, discovered>>
  <2>1. ASSUME NEW n \in Conns, NEW hosts, NEW joiner, NEW k,
               \/ ReaderHostList(n, hosts) \/ ReaderSignal(n, joiner, k) \/ ReaderOther(n)
               \/ ReaderBreaks(n) \/ ReaderStops(n) \/ ReaderEnds(n)
               \/ LinkCloses(n) \/ LinkDrops(n)
        PROVE  Same
    BY <2>1 DEF ReaderHostList, ReaderSignal, ReaderOther, Refreshes, ReaderBreaks,
           ReaderStops, ReaderEnds, LinkCloses, LinkDrops, gameVars
  <2>2. ASSUME NEW k, NEW t,
               \/ GameJoins(k, t) \/ GameAnswers(k) \/ TakeWriter \/ ForwardSignal
               \/ GameMoves \/ GoesStale \/ UNCHANGED vars
        PROVE  Same
    BY <2>2 DEF GameJoins, GameAnswers, TakeWriter, ForwardSignal, GameMoves, GoesStale,
           connVars, gameVars, vars
  <2> HIDE DEF Same
  <2>3. Loop \/ GameResponds \/ Same
    BY <2>1, <2>2 DEF Next
  <2> QED BY <2>3 DEF Same
<1> QED BY <1>9, <1>12, <1>13, <1>14

\* RegistrationInv always holds.
LEMMA RegistrationInvariant == Spec => []RegistrationInv
<1>1. Init => RegistrationInv
  BY DEF Init, RegistrationInv, RegistrationIsKnown
<1> QED
  BY <1>1, RegistrationStep, GameCorrect, PTL DEF Spec

\* However writes fail, connections are replaced and the game changes, the
\* loop believes of its registration what the server, once it has read all of
\* the current connection, lists.
THEOREM RegistrationKnown == Spec => []RegistrationIsKnown
<1>1. RegistrationInv => RegistrationIsKnown
  BY DEF RegistrationInv
<1> QED BY <1>1, RegistrationInvariant, PTL

-----------------------------------------------------------------------------
(* Old readers have been aborted.                                          *)

\* The comment on reader_task: "so a dead connection's reader does not linger
\* after a reconnect".  A reader that nobody told to stop is the one that
\* reader_task holds, so that the next reconnection aborts it too.
RunningReaderIsHeld == \A n \in Conns : reader[n] = "run" => n = reader_task

\* A running reader belongs to the newest connection and can be aborted, and
\* it has been when the next connection is made.
ReaderInv ==
    /\ epoch \in Nat
    /\ reader \in [Conns -> {"none", "run", "aborting", "breaking", "ended", "aborted"}]
    /\ reader_task \in {0, epoch}
    /\ \A n \in Conns : reader[n] = "run" => n = epoch /\ n = reader_task
    /\ pc = "connect" => reader_task = 0

\* Each step of the node keeps ReaderInv.
LEMMA ReaderStep ==
    ASSUME ReaderInv, [Next]_vars
    PROVE  ReaderInv'
<1> USE DEF ReaderInv
<1>1. CASE DropReader
  <2>1. /\ epoch' = epoch /\ reader_task' = 0 /\ reader' \in {reader, Abort(reader_task)}
        /\ reader_task # 0 => reader' = Abort(reader_task)
    BY <1>1 DEF DropReader
  <2>2. \A n \in Conns : n # 0
    BY DEF Conns
  <2>3. \A n \in Conns : reader'[n] # "run"
    BY <2>1, <2>2 DEF Abort
  <2>4. reader' \in [Conns -> {"none", "run", "aborting", "breaking", "ended", "aborted"}]
    BY <2>1 DEF Abort
  <2> QED BY <2>1, <2>3, <2>4
<1>2. CASE Connect
  <2>1. /\ epoch' = epoch + 1 /\ reader_task' = epoch + 1 /\ pc' = "detect"
        /\ reader' = [reader EXCEPT ![epoch + 1] = "run"] /\ reader_task = 0
    BY <1>2 DEF Connect
  <2>2. \A n \in Conns : reader[n] # "run"
    BY <2>1 DEF Conns
  <2>3. \A n \in Conns : reader'[n] = "run" => n = epoch + 1
    BY <2>1, <2>2
  <2>4. reader' \in [Conns -> {"none", "run", "aborting", "breaking", "ended", "aborted"}]
    BY <2>1
  <2>5. epoch' \in Nat /\ reader_task' = epoch'
    BY <2>1
  <2> QED BY <2>1, <2>3, <2>4, <2>5
<1>3. ASSUME NEW n \in Conns, ReaderBreaks(n) \/ ReaderStops(n) \/ ReaderEnds(n)
      PROVE  ReaderInv'
  <2>1. /\ UNCHANGED <<epoch, reader_task, pc>>
        /\ \E r \in {"breaking", "aborted", "ended"} : reader' = [reader EXCEPT ![n] = r]
    BY <1>3 DEF ReaderBreaks, ReaderStops, ReaderEnds, loopVars
  <2> QED BY <2>1
<1>4. CASE UNCHANGED <<epoch, reader, reader_task>> /\ (pc' # "connect" \/ pc' = pc)
  BY <1>4
<1>5. Loop => \/ DropReader \/ Connect
              \/ UNCHANGED <<epoch, reader, reader_task>> /\ (pc' # "connect" \/ pc' = pc)
  BY DEF Loop, LoseServer, KeepServer, ConnectFails, PortFree, PortError,
         PortBound, ProbeAnswered, ProbeUnanswered, Detected, GameClosed,
         GameHosting, GameBrowsing, FetchAsks, Beat, FetchSucceeds, FetchFails,
         connVars, loopVars
<1>6. \/ Loop \/ \E n \in Conns : ReaderBreaks(n) \/ ReaderStops(n) \/ ReaderEnds(n)
      \/ UNCHANGED <<epoch, reader, reader_task, pc>>
  BY DEF Next, ReaderHostList, ReaderSignal, ReaderOther, Refreshes, LinkCloses,
         LinkDrops, GameJoins, GameAnswers, TakeWriter, ForwardSignal, GameMoves,
         GameResponds, GoesStale, connVars, loopVars, vars
<1> QED BY <1>1, <1>2, <1>3, <1>4, <1>5, <1>6

\* However often the node reconnects, every reader of an earlier connection has
\* been aborted or has left its loop.
THEOREM OldReadersAborted == Spec => []RunningReaderIsHeld
<1>1. Init => ReaderInv
  BY DEF Init, ReaderInv
<1>2. ReaderInv => RunningReaderIsHeld
  BY DEF ReaderInv, RunningReaderIsHeld
<1> QED BY <1>1, <1>2, ReaderStep, PTL DEF Spec

-----------------------------------------------------------------------------
(* Type correctness.                                                       *)

\* The bounds are natural numbers, so that each range starts with 0.
LEMMA BoundsHoldZero == 0 \in 0 .. MaxConns /\ 0 \in 0 .. MaxFaults /\ 0 \in 0 .. MaxMoves
<1>1. MaxConns \in Nat /\ MaxFaults \in Nat /\ MaxMoves \in Nat
  BY NodeAssumption
<1> QED BY <1>1

\* Each step of the node keeps its state well typed.
LEMMA NodeTypeStep ==
    ASSUME NodeTypeOK, GameInv, RegistrationInv, [Next]_vars
    PROVE  NodeTypeOK'
<1> DEFINE ListOK == incoming \in Seq(HostLists) /\ asked \in BOOLEAN
           AdvOK == advertised \subseteq Ids /\ advertised_count \in Nat
           IdOK == local_game_id \in GameIds \cup {NONE}
           FaultsOK == faults \in 0 .. MaxFaults
<1>types. /\ LoopTypeOK /\ ConnTypeOK /\ HostTypeOK /\ SigTypeOK /\ GameTypeOK
          /\ ListOK /\ AdvOK /\ IdOK /\ FaultsOK
  BY DEF NodeTypeOK
<1>same. /\ UNCHANGED loopVars => LoopTypeOK'
         /\ UNCHANGED connVars => ConnTypeOK'
         /\ UNCHANGED hostVars => HostTypeOK'
         /\ UNCHANGED sigVars => SigTypeOK'
         /\ UNCHANGED gameVars => GameTypeOK'
         /\ UNCHANGED listVars => ListOK'
         /\ UNCHANGED advVars => AdvOK'
         /\ UNCHANGED local_game_id => IdOK'
         /\ UNCHANGED faults => FaultsOK'
  <2>1. UNCHANGED loopVars => LoopTypeOK'
    BY <1>types DEF loopVars, LoopTypeOK
  <2>2. UNCHANGED connVars => ConnTypeOK'
    BY <1>types DEF connVars, ConnTypeOK
  <2>3. UNCHANGED hostVars => HostTypeOK'
    BY <1>types DEF hostVars, HostTypeOK
  <2>4. UNCHANGED sigVars => SigTypeOK'
    BY <1>types DEF sigVars, SigTypeOK
  <2>5. UNCHANGED gameVars => GameTypeOK'
    BY <1>types DEF gameVars, GameTypeOK
  <2>6. UNCHANGED listVars => ListOK'
    BY <1>types DEF listVars
  <2>7. UNCHANGED advVars => AdvOK'
    BY <1>types DEF advVars
  <2> QED BY <1>types, <2>1, <2>2, <2>3, <2>4, <2>5, <2>6, <2>7
<1>zero. 0 \in 0 .. MaxConns
  BY BoundsHoldZero
<1>fresh. Refreshes => ConnTypeOK'
  BY <1>types DEF Refreshes, ConnTypeOK
<1>fault. Fault => FaultsOK'
  BY <1>types, NodeAssumption DEF Fault
<1>all. ASSUME LoopTypeOK', ConnTypeOK', HostTypeOK', SigTypeOK', GameTypeOK',
               ListOK', AdvOK', IdOK', FaultsOK'
        PROVE  NodeTypeOK'
  BY <1>all DEF NodeTypeOK
<1> HIDE DEF ListOK, AdvOK, IdOK, FaultsOK
<1>1. CASE DropReader
  <2>1. LoopTypeOK'
    BY <1>1, <1>types DEF DropReader, LoopTypeOK
  <2>2. ConnTypeOK'
    <3>1. /\ UNCHANGED <<server, epoch, link, reader_alive, stale>> /\ reader_task' = 0
          /\ server_writer' \in {0, server_writer} /\ reader' \in {reader, Abort(reader_task)}
      BY <1>1 DEF DropReader
    <3>2. reader' \in [Conns -> {"none", "run", "aborting", "breaking", "ended", "aborted"}]
      BY <1>types, <3>1 DEF ConnTypeOK, Abort
    <3> QED BY <1>types, <3>1, <3>2 DEF ConnTypeOK
  <2> QED BY <1>1, <1>same, <1>all, <2>1, <2>2 DEF DropReader
<1>2. CASE LoseServer \/ FetchFails
  <2>1. ConnTypeOK'
    BY <1>2, <1>types DEF LoseServer, FetchFails, ConnTypeOK
  <2>2. LoopTypeOK'
    BY <1>2, <1>types DEF LoseServer, FetchFails, LoopTypeOK, loopVars
  <2>3. FaultsOK'
    BY <1>2, <1>same, <1>fault DEF LoseServer, FetchFails
  <2> QED BY <1>2, <1>same, <1>all, <2>1, <2>2, <2>3 DEF LoseServer, FetchFails
<1>3. CASE KeepServer \/ ConnectFails
  <2>1. LoopTypeOK'
    BY <1>3, <1>types DEF KeepServer, ConnectFails, LoopTypeOK
  <2> QED BY <1>3, <1>same, <1>fault, <1>all, <2>1 DEF KeepServer, ConnectFails
<1>4. CASE Connect
  <2>1. LoopTypeOK'
    BY <1>4, <1>types DEF Connect, LoopTypeOK
  <2>2. ConnTypeOK'
    <3>1. /\ epoch' = epoch + 1 /\ epoch' \in 0 .. MaxConns
          /\ server' = epoch' /\ server_writer' = epoch' /\ reader_task' = epoch'
      BY <1>4, <1>types, NodeAssumption DEF Connect, ConnTypeOK
    <3>2. /\ link' \in [Conns -> {"unused", "up", "silent", "closed"}]
          /\ reader' \in [Conns -> {"none", "run", "aborting", "breaking", "ended", "aborted"}]
      BY <1>4, <1>types DEF Connect, ConnTypeOK
    <3>3. reader_alive' \in BOOLEAN /\ stale' \in BOOLEAN
      BY <1>4 DEF Connect
    <3> QED BY <3>1, <3>2, <3>3 DEF ConnTypeOK
  <2>3. ListOK'
    <3>1. incoming' = <<>> /\ asked' = FALSE
      BY <1>4 DEF Connect
    <3>2. incoming' \in Seq(HostLists)
      BY <3>1
    <3> QED BY <3>1, <3>2 DEF ListOK
  <2>4. HostTypeOK'
    BY <1>4, <1>types DEF Connect, ForgetRegistration, HostTypeOK
  <2> QED BY <1>4, <1>same, <1>all, <2>1, <2>2, <2>3, <2>4 DEF Connect
<1>5. ASSUME NEW m \in {"Closed", "Error", "Browsing", "Hosting"},
             NEW w \in World \cup {NONE}, Detected(m, w), Fault \/ UNCHANGED faults
      PROVE  NodeTypeOK'
  <2>1. LoopTypeOK'
    BY <1>5 DEF Detected, LoopTypeOK
  <2> QED BY <1>5, <1>same, <1>fault, <1>all, <2>1 DEF Detected
<1>6. CASE PortFree \/ PortError \/ ProbeUnanswered
  BY <1>5, <1>6 DEF PortFree, PortError, ProbeUnanswered
<1>7. CASE ProbeAnswered
  <2>1. discovered \in World \cup {NONE}
    BY <1>types DEF GameTypeOK
  <2> QED BY <1>5, <1>7, <2>1 DEF ProbeAnswered
<1>8. CASE PortBound
  <2>1. LoopTypeOK'
    BY <1>8, <1>types DEF PortBound, LoopTypeOK
  <2>2. GameTypeOK'
    BY <1>8, <1>types DEF PortBound, GameTypeOK
  <2> QED BY <1>8, <1>same, <1>all, <2>1, <2>2 DEF PortBound
<1>9. CASE GameResponds
  <2>1. [id |-> game.id, ad |-> game.ad] \in World
    BY <1>9 DEF GameResponds, GameInv, World
  <2>2. GameTypeOK'
    BY <1>9, <1>types, <2>1 DEF GameResponds, GameTypeOK
  <2> QED BY <1>9, <1>same, <1>all, <2>2 DEF GameResponds
<1>10. ASSUME server' \in {0, server},
              UNCHANGED <<server_writer, reader_task, epoch, link, reader,
                          reader_alive, stale>>
       PROVE  ConnTypeOK'
  BY <1>10, <1>types DEF ConnTypeOK
<1>11. ASSUME NEW ok \in BOOLEAN, Unregister(ok)
       PROVE  server' \in {0, server} /\ HostTypeOK' /\ IdOK'
  <2>1. CASE hosting_registered
    <3>1. /\ server' \in {0, server} /\ hosting_registered' = FALSE
          /\ registered_advertisement' = NONE /\ local_game_id' = NONE
          /\ remote' \in {remote, [remote EXCEPT ![server] = NONE]}
      BY <1>11, <2>1 DEF Unregister
    <3>2. remote' \in [Conns -> Ads \cup {NONE}]
      BY <1>types, <3>1 DEF HostTypeOK
    <3> QED BY <3>1, <3>2 DEF HostTypeOK, IdOK
  <2>2. CASE ~hosting_registered
    BY <1>11, <1>same, <2>2 DEF Unregister
  <2> QED BY <2>1, <2>2
<1>12. ASSUME NEW ok \in BOOLEAN, GameClosed(ok) PROVE NodeTypeOK'
  <2>1. LoopTypeOK'
    BY <1>12, <1>types DEF GameClosed, LoopTypeOK
  <2>2. ConnTypeOK' /\ HostTypeOK' /\ IdOK'
    BY <1>10, <1>11, <1>12 DEF GameClosed
  <2>3. AdvOK'
    BY <1>12, <1>types DEF GameClosed, Replaced, AdvOK
  <2> QED BY <1>12, <1>same, <1>all, <2>1, <2>2, <2>3 DEF GameClosed
<1>13. ASSUME NEW ok \in BOOLEAN, GameHosting(ok) PROVE NodeTypeOK'
  <2>1. world \in World /\ world.id \in GameIds /\ world.ad \in Ads
    BY <1>13 DEF GameHosting, RegistrationInv, World
  <2>2. LoopTypeOK'
    BY <1>13, <1>types DEF GameHosting, LoopTypeOK
  <2>3. IdOK'
    BY <1>13, <2>1 DEF GameHosting, IdOK
  <2>4. CASE HostChanged
    <3>1. /\ server' \in {0, server} /\ hosting_registered' = ok
          /\ registered_advertisement' \in {world.ad, NONE}
          /\ remote' \in {remote, [remote EXCEPT ![server] = world.ad]}
          /\ advertised' \subseteq advertised \cup {Me} /\ advertised_count' = 0
      BY <1>13, <2>4 DEF GameHosting, Replaced
    <3>2. remote' \in [Conns -> Ads \cup {NONE}]
      BY <1>types, <2>1, <3>1 DEF HostTypeOK
    <3>3. HostTypeOK'
      BY <2>1, <3>1, <3>2 DEF HostTypeOK
    <3>4. AdvOK'
      BY <1>types, <3>1 DEF AdvOK, Ids
    <3>5. ConnTypeOK'
      BY <1>10, <1>13, <3>1 DEF GameHosting
    <3> QED BY <1>13, <1>same, <1>all, <2>2, <2>3, <3>3, <3>4, <3>5 DEF GameHosting
  <2>5. CASE ~HostChanged
    <3>1. ConnTypeOK' /\ HostTypeOK' /\ AdvOK'
      BY <1>13, <1>10, <1>same, <2>5 DEF GameHosting
    <3> QED BY <1>13, <1>same, <1>all, <2>2, <2>3, <3>1 DEF GameHosting
  <2> QED BY <2>4, <2>5
<1>14. ASSUME NEW ok \in BOOLEAN, GameBrowsing(ok) PROVE NodeTypeOK'
  <2>1. LoopTypeOK'
    BY <1>14, <1>types DEF GameBrowsing, LoopTypeOK
  <2>2. ConnTypeOK' /\ HostTypeOK' /\ IdOK'
    BY <1>10, <1>11, <1>14 DEF GameBrowsing
  <2> QED BY <1>14, <1>same, <1>all, <2>1, <2>2 DEF GameBrowsing
<1>15. ASSUME NEW ok \in BOOLEAN, FetchAsks(ok) PROVE NodeTypeOK'
  <2>1. LoopTypeOK'
    BY <1>15, <1>types DEF FetchAsks, LoopTypeOK
  <2>2. ConnTypeOK'
    BY <1>10, <1>15 DEF FetchAsks
  <2>3. ListOK'
    BY <1>15, <1>types DEF FetchAsks, ListOK
  <2> QED BY <1>15, <1>same, <1>all, <2>1, <2>2, <2>3 DEF FetchAsks
<1>16. CASE FetchSucceeds
  <2>1. LoopTypeOK'
    BY <1>16, <1>types DEF FetchSucceeds, LoopTypeOK
  <2>2. incoming \in Seq(HostLists) /\ incoming # <<>>
    BY <1>16, <1>types DEF FetchSucceeds, ListOK
  <2>3. Head(incoming) \in HostLists /\ Tail(incoming) \in Seq(HostLists)
    BY <2>2
  <2>4. ListOK'
    BY <1>16, <1>types, <2>3 DEF FetchSucceeds, ListOK
  <2>5. AdvOK'
    <3>1. advertised' \subseteq Head(incoming)
      BY <1>16 DEF FetchSucceeds, Replaced
    <3>2. IsFiniteSet(advertised') /\ advertised' \subseteq Ids
      BY <2>3, <3>1, NodeAssumption, FS_Subset
    <3> QED BY <1>16, <3>2, FS_CardinalityType DEF FetchSucceeds, Count, AdvOK
  <2> QED BY <1>16, <1>same, <1>all, <2>1, <2>4, <2>5 DEF FetchSucceeds
<1>17. ASSUME NEW ok \in BOOLEAN, Beat(ok) PROVE NodeTypeOK'
  <2>1. LoopTypeOK'
    BY <1>17, <1>types DEF Beat, LoopTypeOK
  <2>2. ConnTypeOK'
    BY <1>10, <1>17 DEF Beat
  <2> QED BY <1>17, <1>same, <1>all, <2>1, <2>2 DEF Beat
<1>18. ASSUME NEW n \in Conns, NEW hosts \in HostLists, ReaderHostList(n, hosts)
       PROVE  NodeTypeOK'
  <2>1. incoming \in Seq(HostLists)
    BY <1>types DEF ListOK
  <2>2. incoming' = Append(incoming, hosts)
    BY <1>18 DEF ReaderHostList
  <2>3. Append(incoming, hosts) \in Seq(HostLists)
    BY <1>18, <2>1
  <2>4. asked' = FALSE
    BY <1>18 DEF ReaderHostList
  <2>5. ListOK'
    BY <2>2, <2>3, <2>4 DEF ListOK
  <2> QED BY <1>18, <1>same, <1>all, <1>fresh, <2>5 DEF ReaderHostList
<1>19. ASSUME NEW n \in Conns, NEW joiner \in Ids, NEW k \in SignalIds,
              ReaderSignal(n, joiner, k)
       PROVE  NodeTypeOK'
  <2>1. injected' = InjectSignal(joiner, k) /\ UNCHANGED <<join_conns, pending, forwarded>>
    BY <1>19 DEF ReaderSignal
  <2>2. injected' \in [sender : Ids, recipient : GameIds, conn : SignalIds] \cup {NONE}
    <3>2. CASE local_game_id # NONE
      BY <1>types, <2>1, <3>2 DEF InjectSignal, Ids, IdOK
    <3>3. CASE local_game_id = NONE /\ join_conns[k] # NONE
      <4>1. join_conns[k] \in Join
        BY <1>types, <3>3 DEF SigTypeOK
      <4>2. join_conns[k].target \in Ids /\ join_conns[k].game \in GameIds
        BY <4>1 DEF Join
      <4> QED BY <2>1, <3>3, <4>2 DEF InjectSignal
    <3>4. CASE local_game_id = NONE /\ join_conns[k] = NONE
      BY <1>types, <2>1, <3>4 DEF InjectSignal, SigTypeOK
    <3> QED BY <3>2, <3>3, <3>4
  <2>3. SigTypeOK'
    BY <1>types, <2>1, <2>2 DEF SigTypeOK
  <2> QED BY <1>19, <1>same, <1>all, <1>fresh, <2>3 DEF ReaderSignal
<1>20. ASSUME NEW n \in Conns, ReaderBreaks(n) \/ ReaderStops(n) \/ ReaderEnds(n)
       PROVE  NodeTypeOK'
  <2>1. ConnTypeOK'
    BY <1>20, <1>types DEF ReaderBreaks, ReaderStops, ReaderEnds, ConnTypeOK
  <2> QED BY <1>20, <1>same, <1>all, <2>1 DEF ReaderBreaks, ReaderStops, ReaderEnds
<1>21. ASSUME NEW n \in Conns, LinkCloses(n) \/ LinkDrops(n) PROVE NodeTypeOK'
  <2>1. ConnTypeOK'
    BY <1>21, <1>types DEF LinkCloses, LinkDrops, ConnTypeOK
  <2> QED BY <1>21, <1>same, <1>fault, <1>all, <2>1 DEF LinkCloses, LinkDrops
<1>22. ASSUME NEW k \in SignalIds, NEW t \in Ids, GameJoins(k, t) PROVE NodeTypeOK'
  <2>1. [game |-> game.id, target |-> t] \in Join
    BY <1>22 DEF GameJoins, GameInv, Join
  <2>2. SigTypeOK'
    <3>1. join_conns' \in [SignalIds -> Join \cup {NONE}]
      BY <1>22, <1>types, <2>1 DEF GameJoins, RememberJoin, SigTypeOK
    <3>2. pending' = [via |-> 0, target |-> t, conn |-> k]
      BY <1>22 DEF GameJoins
    <3>3. pending' \in [via : 0 .. MaxConns, target : Ids \cup {0}, conn : SignalIds]
      BY <1>zero, <3>2
    <3> QED BY <1>22, <1>types, <3>1, <3>3 DEF GameJoins, SigTypeOK
  <2> QED BY <1>22, <1>same, <1>all, <2>2 DEF GameJoins
<1>23. ASSUME NEW k \in SignalIds, GameAnswers(k) PROVE NodeTypeOK'
  <2>1. SigTypeOK'
    <3>1. pending' = [via |-> 0, target |-> 0, conn |-> k]
      BY <1>23 DEF GameAnswers
    <3>2. pending' \in [via : 0 .. MaxConns, target : Ids \cup {0}, conn : SignalIds]
      BY <1>zero, <3>1
    <3> QED BY <1>23, <1>types, <3>2 DEF GameAnswers, SigTypeOK
  <2> QED BY <1>23, <1>same, <1>all, <2>1 DEF GameAnswers
<1>24. CASE TakeWriter
  <2>1. server_writer \in 0 .. MaxConns
    BY <1>types, NodeAssumption DEF ConnTypeOK
  <2>2. pending' \in [via : 0 .. MaxConns, target : Ids \cup {0}, conn : SignalIds] \cup {NONE}
    <3>1. pending \in [via : 0 .. MaxConns, target : Ids \cup {0}, conn : SignalIds]
      BY <1>24, <1>types DEF TakeWriter, SigTypeOK
    <3> QED BY <1>24, <2>1, <3>1 DEF TakeWriter
  <2>3. SigTypeOK'
    BY <1>24, <1>types, <2>2 DEF TakeWriter, SigTypeOK
  <2> QED BY <1>24, <1>same, <1>all, <2>3 DEF TakeWriter
<1>25. CASE GameMoves
  <2>1. game' \in [state : {"closed", "browsing", "hosting"},
                   id : GameIds \cup {NONE}, ad : Ads \cup {NONE}]
    <3>1. game.id \in GameIds \cup {NONE}
      BY <1>types DEF GameTypeOK
    <3>2. \/ \E i \in GameIds : game' = Game("browsing", i, NONE)
          \/ game' = Game("closed", NONE, NONE)
          \/ game' = Game("browsing", game.id, NONE)
          \/ \E ad \in Ads : game' = Game("hosting", game.id, ad)
      BY <1>25 DEF GameMoves
    <3>3. \A st \in {"closed", "browsing", "hosting"}, i \in GameIds \cup {NONE}, a \in Ads \cup {NONE} :
            Game(st, i, a) \in [state : {"closed", "browsing", "hosting"},
                               id : GameIds \cup {NONE}, ad : Ads \cup {NONE}]
      BY DEF Game
    <3> DEFINE T == [state : {"closed", "browsing", "hosting"},
                     id : GameIds \cup {NONE}, ad : Ads \cup {NONE}]
    <3> HIDE DEF T
    <3>4. \A i \in GameIds \cup {NONE}, a \in Ads \cup {NONE} :
            /\ Game("closed", i, a) \in T /\ Game("browsing", i, a) \in T
            /\ Game("hosting", i, a) \in T
      BY <3>3 DEF T
    <3>5. game' \in T
      BY <3>1, <3>2, <3>4
    <3> QED BY <3>5 DEF T
  <2>2. moves' \in 0 .. MaxMoves
    <3>1. moves \in 0 .. MaxMoves /\ moves < MaxMoves /\ moves' = moves + 1
      BY <1>25, <1>types DEF GameMoves, GameTypeOK
    <3> QED BY <3>1, NodeAssumption
  <2>3. GameTypeOK'
    BY <1>25, <1>types, <2>1, <2>2 DEF GameMoves, GameTypeOK
  <2> QED BY <1>25, <1>same, <1>all, <2>3 DEF GameMoves
<1>26. CASE GoesStale
  <2>1. ConnTypeOK'
    BY <1>26, <1>types DEF GoesStale, ConnTypeOK
  <2> QED BY <1>26, <1>same, <1>all, <2>1 DEF GoesStale
<1>27. CASE UNCHANGED vars
  BY <1>27, <1>same, <1>all DEF vars
<1>28. Loop => NodeTypeOK'
  BY <1>1, <1>2, <1>3, <1>4, <1>6, <1>7, <1>8, <1>12, <1>13, <1>14, <1>15, <1>16,
     <1>17 DEF Loop
<1>29. CASE ForwardSignal
  <2>1. /\ pending \in [via : 0 .. MaxConns, target : Ids \cup {0}, conn : SignalIds]
        /\ pending.via # 0
    BY <1>29, <1>types DEF ForwardSignal, SigTypeOK
  <2>2. [via |-> pending.via, target |-> pending.target] \in [via : Conns, target : Ids \cup {0}]
    BY <2>1, NodeAssumption DEF Conns
  <2>3. forwarded' \in [SignalIds -> [via : Conns, target : Ids \cup {0}] \cup {NONE}]
    BY <1>29, <1>types, <2>1, <2>2 DEF ForwardSignal, SigTypeOK
  <2>4. SigTypeOK'
    BY <1>29, <1>types, <2>3 DEF ForwardSignal, SigTypeOK
  <2> QED BY <1>29, <1>same, <1>all, <2>4 DEF ForwardSignal
<1>30. ASSUME NEW n \in Conns, ReaderOther(n) PROVE NodeTypeOK'
  BY <1>30, <1>same, <1>all, <1>fresh DEF ReaderOther
<1> QED BY <1>9, <1>18, <1>19, <1>20, <1>21, <1>22, <1>23, <1>24, <1>25, <1>26,
           <1>27, <1>28, <1>29, <1>30 DEF Next

\* The node's state is always well typed; in particular a host list that the
\* reader passes on, a signal that it injects and one that is forwarded have
\* a sender, a recipient and a connection whatever happened before.
THEOREM NodeTypeCorrect == Spec => []NodeTypeOK
<1>1. Init => NodeTypeOK
  <2> SUFFICES ASSUME Init PROVE NodeTypeOK
    OBVIOUS
  <2>0. incoming = <<>>
    BY DEF Init
  <2>1. incoming \in Seq(HostLists)
    BY <2>0
  <2>2. /\ join_conns \in [SignalIds -> Join \cup {NONE}]
        /\ link \in [Conns -> {"unused", "up", "silent", "closed"}]
        /\ reader \in [Conns -> {"none", "run", "aborting", "breaking", "ended", "aborted"}]
        /\ remote \in [Conns -> Ads \cup {NONE}]
        /\ forwarded \in [SignalIds -> [via : Conns, target : Ids \cup {0}] \cup {NONE}]
    BY DEF Init
  <2>3. game \in [state : {"closed", "browsing", "hosting"},
                  id : GameIds \cup {NONE}, ad : Ads \cup {NONE}]
    BY DEF Init, Game
  <2>4. epoch \in 0 .. MaxConns /\ faults \in 0 .. MaxFaults /\ moves \in 0 .. MaxMoves
    BY BoundsHoldZero DEF Init
  <2>5. /\ reader_alive \in BOOLEAN /\ stale \in BOOLEAN /\ asked \in BOOLEAN
        /\ hosting_registered \in BOOLEAN
    BY DEF Init
  <2> QED BY <2>1, <2>2, <2>3, <2>4, <2>5
             DEF Init, NodeTypeOK, LoopTypeOK, ConnTypeOK, HostTypeOK, SigTypeOK, GameTypeOK
<1> QED
  BY <1>1, NodeTypeStep, GameCorrect, RegistrationInvariant, PTL DEF Spec

-----------------------------------------------------------------------------
(* What is advertised to the game.                                         *)

\* Host lists are only fetched while the game browses and nothing is
\* registered, and the loop's count says when there is something to clear.
AdvertisedInv ==
    /\ pc \in {"fetch", "await"} => mode = "Browsing" /\ ~hosting_registered
    /\ hosting_registered \/ advertised_count = 0 => advertised \subseteq {Me}
    /\ OthersOnlyWhileBrowsing

\* Clearing the registry when the count says so leaves no other node's server.
LEMMA ClearedIsMine ==
    ASSUME NodeTypeOK, AdvertisedInv
    PROVE  (IF advertised_count > 0 THEN Replaced({}) ELSE advertised) \subseteq {Me}
<1>1. advertised_count \in Nat
  BY DEF NodeTypeOK
<1>2. CASE advertised_count > 0
  BY <1>2 DEF Replaced
<1>3. CASE ~(advertised_count > 0)
  BY <1>1, <1>3 DEF AdvertisedInv
<1> QED BY <1>2, <1>3

\* Each step of the node keeps AdvertisedInv.
LEMMA AdvertisedStep ==
    ASSUME NodeTypeOK, AdvertisedInv, [Next]_vars
    PROVE  AdvertisedInv'
<1> USE DEF OthersOnlyWhileBrowsing
<1>1. ASSUME NEW ok \in BOOLEAN, GameClosed(ok) PROVE AdvertisedInv'
  <2>1. pc' = "beat" /\ advertised' \subseteq {Me}
    BY <1>1, ClearedIsMine DEF GameClosed
  <2> QED BY <2>1 DEF AdvertisedInv
<1>2. ASSUME NEW ok \in BOOLEAN, GameHosting(ok) PROVE AdvertisedInv'
  <2>1. CASE HostChanged
    <3>1. pc' = "beat" /\ advertised' \subseteq {Me}
      BY <1>2, <2>1, ClearedIsMine DEF GameHosting
    <3> QED BY <3>1 DEF AdvertisedInv
  <2>2. CASE ~HostChanged
    <3>1. pc' = "beat" /\ hosting_registered /\ advertised' = advertised
      BY <1>2, <2>2 DEF GameHosting, HostChanged, advVars
    <3> QED BY <3>1 DEF AdvertisedInv
  <2> QED BY <2>1, <2>2
<1>3. ASSUME NEW ok \in BOOLEAN, GameBrowsing(ok) PROVE AdvertisedInv'
  <2>1. /\ pc' = "fetch" /\ mode = "Browsing" /\ mode' = mode
        /\ UNCHANGED <<advertised, advertised_count>>
    BY <1>3 DEF GameBrowsing, advVars
  <2>2. ~hosting_registered'
    BY <1>3 DEF GameBrowsing, Unregister, hostVars
  <2> QED BY <2>1, <2>2 DEF AdvertisedInv
<1>4. CASE FetchSucceeds
  <2>0. incoming \in Seq(HostLists) /\ incoming # <<>>
    BY <1>4 DEF FetchSucceeds, NodeTypeOK
  <2>1. Head(incoming) \in HostLists
    BY <2>0
  <2>2. advertised' \subseteq Head(incoming)
    BY <1>4 DEF FetchSucceeds, Replaced
  <2>3. IsFiniteSet(advertised')
    BY <2>1, <2>2, NodeAssumption, FS_Subset
  <2>4. advertised_count' = 0 => advertised' = {}
    BY <1>4, <2>3, FS_EmptySet DEF FetchSucceeds, Count
  <2>5. /\ pc = "await" /\ pc' = "beat" /\ mode' = mode
        /\ hosting_registered' = hosting_registered
    BY <1>4 DEF FetchSucceeds, hostVars
  <2> QED BY <2>4, <2>5 DEF AdvertisedInv
<1>5. ASSUME NEW ok \in BOOLEAN, FetchAsks(ok) PROVE AdvertisedInv'
  <2>1. /\ pc = "fetch" /\ pc' \in {"await", "beat"}
        /\ UNCHANGED <<mode, hosting_registered, advertised, advertised_count>>
    BY <1>5 DEF FetchAsks, hostVars, advVars
  <2> QED BY <2>1 DEF AdvertisedInv
<1>6. CASE FetchFails
  <2>1. /\ pc = "await" /\ pc' = "beat"
        /\ UNCHANGED <<mode, hosting_registered, advertised, advertised_count>>
    BY <1>6 DEF FetchFails, hostVars, advVars
  <2> QED BY <2>1 DEF AdvertisedInv
<1>7. CASE Connect
  <2>1. pc' = "detect" /\ hosting_registered' = FALSE
        /\ UNCHANGED <<advertised, advertised_count>>
    BY <1>7 DEF Connect, ForgetRegistration, advVars
  <2> QED BY <2>1 DEF AdvertisedInv
<1>8. ASSUME pc' \notin {"fetch", "await", "beat"} \/ UNCHANGED <<pc, mode>>,
             UNCHANGED <<hosting_registered, advertised, advertised_count>>
      PROVE  AdvertisedInv'
  BY <1>8 DEF AdvertisedInv
<1>9. CASE DropReader \/ LoseServer \/ KeepServer \/ ConnectFails \/ PortFree
           \/ PortError \/ PortBound \/ ProbeAnswered \/ ProbeUnanswered
  BY <1>8, <1>9 DEF DropReader, LoseServer, KeepServer, ConnectFails, PortFree,
     PortError, PortBound, ProbeAnswered, ProbeUnanswered, Detected, hostVars,
     advVars, loopVars
<1>10. ASSUME NEW ok \in BOOLEAN, Beat(ok) PROVE AdvertisedInv'
  BY <1>8, <1>10 DEF Beat, hostVars, advVars
<1>11. CASE UNCHANGED <<loopVars, hostVars, advVars>>
  BY <1>8, <1>11 DEF loopVars, hostVars, advVars
<1>12. Loop => AdvertisedInv'
  BY <1>1, <1>2, <1>3, <1>4, <1>5, <1>6, <1>7, <1>9, <1>10 DEF Loop
<1>13. Loop \/ UNCHANGED <<loopVars, hostVars, advVars>>
  BY DEF Next, ReaderHostList, ReaderSignal, ReaderOther, ReaderBreaks,
         ReaderStops, ReaderEnds, LinkCloses, LinkDrops, GameJoins, GameAnswers,
         TakeWriter, ForwardSignal, GameMoves, GameResponds, GoesStale, vars
<1> QED BY <1>11, <1>12, <1>13

\* When the loop has dealt with a game that hosts or is closed, no server of
\* another node is advertised to it, for any host lists the server sent and
\* any ids whose response cannot be marshaled.
THEOREM OthersWhileBrowsing == Spec => []OthersOnlyWhileBrowsing
<1>1. Init => AdvertisedInv
  BY DEF Init, AdvertisedInv, OthersOnlyWhileBrowsing
<1>2. AdvertisedInv => OthersOnlyWhileBrowsing
  BY DEF AdvertisedInv
<1> QED BY <1>1, <1>2, AdvertisedStep, NodeTypeCorrect, PTL DEF Spec

-----------------------------------------------------------------------------
(* Joins are remembered.                                                   *)

\* The join of connection k is remembered for the server t.
Remembered(k, t) == join_conns[k] # NONE /\ join_conns[k].target = t

\* A join is remembered from before its signal waits to be written.
JoinsInv ==
    /\ pending # NONE /\ pending.target # 0 => Remembered(pending.conn, pending.target)
    /\ \A k \in SignalIds : forwarded[k] # NONE /\ forwarded[k].target # 0
                             => Remembered(k, forwarded[k].target)

\* Each step of the node keeps JoinsInv.
LEMMA JoinsStep ==
    ASSUME NodeTypeOK, GameInv, JoinsInv, [Next]_vars
    PROVE  JoinsInv'
<1>1. ASSUME NEW k \in SignalIds, NEW t \in Ids, GameJoins(k, t) PROVE JoinsInv'
  <2>1. /\ join_conns' = [join_conns EXCEPT ![k] = [game |-> game.id, target |-> t]]
        /\ pending' = [via |-> 0, target |-> t, conn |-> k] /\ forwarded' = forwarded
        /\ join_conns[k] \in {NONE, [game |-> game.id, target |-> t]}
    BY <1>1 DEF GameJoins, RememberJoin
  <2>2. game.id \in GameIds
    BY <1>1 DEF GameJoins, GameInv
  <2>3. [game |-> game.id, target |-> t] # NONE
    BY <2>2, NodeAssumption DEF Join
  <2>4. join_conns \in [SignalIds -> Join \cup {NONE}]
    BY DEF NodeTypeOK, SigTypeOK
  <2>5. join_conns'[k] = [game |-> game.id, target |-> t]
    BY <2>1, <2>4
  <2>6. \A j \in SignalIds : join_conns[j] # NONE => join_conns'[j] = join_conns[j]
    BY <2>1, <2>4, <2>5
  <2>7. join_conns'[k] # NONE /\ join_conns'[k].target = t
    <3>1. [game |-> game.id, target |-> t].target = t
      OBVIOUS
    <3> QED BY <2>3, <2>5, <3>1
  <2>8. Remembered(pending.conn, pending.target)'
    <3>1. pending'.conn = k /\ pending'.target = t
      BY <2>1
    <3> QED BY <2>7, <3>1 DEF Remembered
  <2>9. ASSUME NEW j \in SignalIds, forwarded[j] # NONE, forwarded[j].target # 0
        PROVE  Remembered(j, forwarded[j].target)'
    <3>1. Remembered(j, forwarded[j].target)
      BY <2>9 DEF JoinsInv
    <3> QED BY <2>1, <2>6, <3>1 DEF Remembered
  <2>10. (\A j \in SignalIds : forwarded[j] # NONE /\ forwarded[j].target # 0
                              => Remembered(j, forwarded[j].target))'
    BY <2>1, <2>9 DEF Remembered
  <2> QED BY <2>8, <2>10 DEF JoinsInv
<1>2. ASSUME NEW k \in SignalIds, GameAnswers(k) PROVE JoinsInv'
  <2>1. pending' = [via |-> 0, target |-> 0, conn |-> k] /\ UNCHANGED <<join_conns, forwarded>>
    BY <1>2 DEF GameAnswers
  <2> QED BY <2>1 DEF JoinsInv, Remembered
<1>3. CASE ForwardSignal
  <2>1. /\ pending # NONE /\ pending' = NONE /\ join_conns' = join_conns
        /\ forwarded' \in {forwarded, [forwarded EXCEPT ![pending.conn] =
                                [via |-> pending.via, target |-> pending.target]]}
    BY <1>3 DEF ForwardSignal
  <2>2. /\ pending \in [via : 0 .. MaxConns, target : Ids \cup {0}, conn : SignalIds]
        /\ forwarded \in [SignalIds -> [via : Conns, target : Ids \cup {0}] \cup {NONE}]
    BY <2>1 DEF NodeTypeOK, SigTypeOK
  <2>3. \A k \in SignalIds : \/ forwarded'[k] = forwarded[k]
                             \/ /\ k = pending.conn
                                /\ forwarded'[k] = [via |-> pending.via, target |-> pending.target]
    BY <2>1, <2>2
  <2>4. [via |-> pending.via, target |-> pending.target].target = pending.target
    OBVIOUS
  <2>5. \A k \in SignalIds : \/ forwarded'[k] = forwarded[k]
                             \/ k = pending.conn /\ forwarded'[k].target = pending.target
    BY <2>3, <2>4
  <2> QED BY <2>1, <2>5 DEF JoinsInv, Remembered
<1>4. CASE UNCHANGED <<join_conns, pending, forwarded>>
  BY <1>4 DEF JoinsInv, Remembered
<1>5. Loop => UNCHANGED <<join_conns, pending, forwarded>>
  BY DEF Loop, DropReader, LoseServer, KeepServer, Connect, ConnectFails,
         PortFree, PortError, PortBound, ProbeAnswered, ProbeUnanswered,
         Detected, GameClosed, GameHosting, GameBrowsing, FetchAsks, Beat,
         FetchSucceeds, FetchFails, sigVars
<1>6. \/ \E k \in SignalIds, t \in Ids : GameJoins(k, t)
      \/ \E k \in SignalIds : GameAnswers(k)
      \/ TakeWriter \/ ForwardSignal
      \/ UNCHANGED <<join_conns, pending, forwarded>>
  BY <1>5 DEF Next, ReaderHostList, ReaderSignal, ReaderOther, ReaderBreaks,
         ReaderStops, ReaderEnds, LinkCloses, LinkDrops, GameMoves, GameResponds,
         GoesStale, sigVars, vars
<1>7. CASE TakeWriter
  <2>1. /\ pending # NONE /\ UNCHANGED <<join_conns, forwarded>>
        /\ pending' \in {NONE, [pending EXCEPT !.via = server_writer]}
    BY <1>7 DEF TakeWriter
  <2>2. pending \in [via : 0 .. MaxConns, target : Ids \cup {0}, conn : SignalIds]
    BY <2>1 DEF NodeTypeOK, SigTypeOK
  <2>3. pending' # NONE => pending'.target = pending.target /\ pending'.conn = pending.conn
    BY <2>1, <2>2
  <2> QED BY <2>1, <2>3 DEF JoinsInv, Remembered
<1> QED BY <1>1, <1>2, <1>3, <1>4, <1>6, <1>7

\* Before the signal of a join leaves the node, over whichever connection, the
\* server it is for is remembered, and stays so, for any number of joins.
THEOREM JoinsRemembered == Spec => []ForwardedJoinsAreRemembered
<1>1. Init => JoinsInv
  BY DEF Init, JoinsInv
<1>2. JoinsInv => ForwardedJoinsAreRemembered
  BY DEF JoinsInv, Remembered, ForwardedJoinsAreRemembered
<1> QED BY <1>1, <1>2, JoinsStep, NodeTypeCorrect, GameCorrect, PTL DEF Spec

=============================================================================
