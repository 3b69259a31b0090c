----------------------- MODULE RendezvousServerProofs -----------------------
(***************************************************************************)
(* Proofs about the rendezvous server, for any number of connections,      *)
(* addresses, hosts and messages, with or without reuse of addresses.      *)
(***************************************************************************)
EXTENDS RendezvousServer, TLAPS

-----------------------------------------------------------------------------
(* Type correctness.                                                       *)

\* Whatever ServerMessage the handlers build is well formed.
LEMMA MessageTypes ==
    /\ [type |-> "Pong"] \in ServerMessage
    /\ [type |-> "Error"] \in ServerMessage
    /\ \A id \in HostIds :
         [type |-> "Registered", sender_id |-> id] \in ServerMessage
    /\ \A f \in [HostIds -> Ads \cup {NONE}] :
         [type |-> "HostList", hosts |-> f] \in ServerMessage
    /\ \A k \in Keys :
         /\ [type |-> "IncomingJoin", session_id |-> k] \in ServerMessage
         /\ [type |-> "JoinAccepted", session_id |-> k] \in ServerMessage
    /\ \A k \in Keys, p \in Payload :
         [type |-> "Signal", connection_id |-> k, data |-> p] \in ServerMessage
  BY DEF ServerMessage

\* A message addressed to an address is a Send.
LEMMA SendTypes ==
    ASSUME NEW a \in Addrs, NEW m \in ServerMessage
    PROVE  To(a, m) \in Send
  BY DEF To, Send

\* Every step of the server keeps its state well typed.
LEMMA TypeStep ==
    ASSUME TypeOK, [Next]_vars
    PROVE  TypeOK'
<1> USE ConstantsAssumption DEF TypeOK, outVars, hostVars, sessVars
<1>1. ASSUME NEW c \in Conns, Accept(c) PROVE TypeOK'
  BY <1>1 DEF Accept
<1>2. ASSUME NEW c \in Conns, PeerCloses(c) PROVE TypeOK'
  BY <1>2 DEF PeerCloses
<1>3. ASSUME NEW c \in Conns, PeerVanishes(c) PROVE TypeOK'
  BY <1>3 DEF PeerVanishes
<1>4. ASSUME NEW c \in Conns, Enter(c) PROVE TypeOK'
  BY <1>4 DEF Enter
<1>5. ASSUME NEW c \in Conns, Ping(c) PROVE TypeOK'
  <2>1. <<To(AddrOf[c], [type |-> "Pong"])>> \in Seq(Send)
    BY MessageTypes, SendTypes
  <2> QED BY <1>5, <2>1 DEF Ping, Reads
<1>6. ASSUME NEW c \in Conns, NEW id \in HostIds, NEW ad \in Ads,
             RegisterHost(c, id, ad)
      PROVE TypeOK'
  <2>1. <<To(AddrOf[c], [type |-> "Registered", sender_id |-> id])>> \in Seq(Send)
    BY MessageTypes, SendTypes
  <2> QED BY <1>6, <2>1 DEF RegisterHost, Reads
<1>7. ASSUME NEW c \in Conns, NEW id \in HostIds, NEW ad \in Ads,
             UpdateHost(c, id, ad)
      PROVE TypeOK'
  BY <1>7 DEF UpdateHost, Reads
<1>8. ASSUME NEW c \in Conns, NEW id \in HostIds, UnregisterHost(c, id)
      PROVE TypeOK'
  <2>1. frames' \in [Conns -> Nat]
    BY <1>8 DEF UnregisterHost, Reads
  <2>2. /\ hosts' \in [HostIds -> Addrs \cup {NONE}]
        /\ host_records' \in [HostIds -> Ads \cup {NONE}]
    <3>1. hosts' = hosts \/ hosts' = [hosts EXCEPT ![id] = NONE]
      BY <1>8 DEF UnregisterHost
    <3>2. \/ host_records' = host_records
          \/ host_records' = [host_records EXCEPT ![id] = NONE]
      BY <1>8 DEF UnregisterHost
    <3>3. hosts' \in [HostIds -> Addrs \cup {NONE}]
      BY <3>1
    <3> QED BY <3>2, <3>3
  <2> QED BY <1>8, <2>1, <2>2 DEF UnregisterHost
<1>9. ASSUME NEW c \in Conns, ListHosts(c) PROVE TypeOK'
  <2>1. <<To(AddrOf[c], [type |-> "HostList", hosts |-> host_records])>> \in Seq(Send)
    BY MessageTypes, SendTypes
  <2> QED BY <1>9, <2>1 DEF ListHosts, Reads
<1>10. ASSUME NEW c \in Conns, NEW id \in HostIds, ConnectRequest(c, id)
       PROVE TypeOK'
  <2>1. <<To(AddrOf[c], [type |-> "Error"])>> \in Seq(Send)
    BY MessageTypes, SendTypes
  <2>2. frames' \in [Conns -> Nat]
    BY <1>10 DEF ConnectRequest, Reads
  <2>3. todo' \in [Conns -> Seq(Send)]
    <3> DEFINE sends == <<To(AddrOf[c], [type |-> "Error"])>>
    <3>1. sends \in Seq(Send)
      BY <2>1
    <3>2. todo' = [todo EXCEPT ![c] = sends] \/ todo' = todo
      BY <1>10 DEF ConnectRequest
    <3> HIDE DEF sends
    <3> QED BY <3>1, <3>2
  <2>4. joining' \in [Conns -> Addrs \cup {NONE}]
    BY <1>10 DEF ConnectRequest
  <2> QED BY <1>10, <2>2, <2>3, <2>4 DEF ConnectRequest
<1>11. ASSUME NEW c \in Conns, AllocateSession(c) PROVE TypeOK'
  <2> DEFINE id == next_session_id
             sends == <<To(joining[c], [type |-> "IncomingJoin", session_id |-> id]),
                        To(AddrOf[c], [type |-> "JoinAccepted", session_id |-> id])>>
  <2>1. joining[c] \in Addrs /\ id \in 1 .. MaxSession /\ id \in Keys
    BY <1>11 DEF AllocateSession, Keys
  <2>2. sends \in Seq(Send)
    BY <2>1, MessageTypes, SendTypes
  <2>3. [joiner |-> AddrOf[c], host |-> joining[c]] \in Session
    BY <2>1 DEF Session
  <2> HIDE DEF sends
  <2>4. todo' = [todo EXCEPT ![c] = sends]
    BY <1>11 DEF AllocateSession, sends
  <2>5. sessions' \in [Keys -> Session \cup {NONE}]
    BY <1>11, <2>1, <2>3 DEF AllocateSession
  <2>6. next_session_id' \in 1 .. (MaxSession + 1)
    BY <1>11, <2>1 DEF AllocateSession, FollowingId
  <2>7. joining' \in [Conns -> Addrs \cup {NONE}]
    BY <1>11 DEF AllocateSession
  <2>8. todo' \in [Conns -> Seq(Send)]
    BY <2>2, <2>4
  <2> QED BY <1>11, <2>5, <2>6, <2>7, <2>8 DEF AllocateSession
<1>12. ASSUME NEW c \in Conns, NEW t \in HostIds \cup {0}, NEW k \in ConnIds,
              Signal(c, t, k)
       PROVE TypeOK'
  <2> DEFINE dest == Route(t, k)
             line == [from |-> c, frame |-> frames[c] + 1, target |-> t]
             sends == <<To(dest, [type |-> "Signal", connection_id |-> k,
                                  data |-> line])>>
  <2>1. k \in Keys /\ line \in Payload
    BY DEF Keys, Payload
  <2>2. dest \in Addrs \cup {NONE}
    BY <2>1, SessionAssumption DEF Route, Session
  <2>3. dest # NONE => sends \in Seq(Send)
    BY <2>1, <2>2, MessageTypes, SendTypes
  <2>4. dest # NONE => [joiner |-> AddrOf[c], host |-> dest] \in Session
    BY <2>2 DEF Session
  <2> HIDE DEF sends, dest
  <2>5. /\ todo' = IF dest # NONE THEN [todo EXCEPT ![c] = sends] ELSE todo
        /\ sessions' = IF t # 0 /\ dest # NONE
                         THEN [sessions EXCEPT
                                 ![k] = [joiner |-> AddrOf[c], host |-> dest]]
                         ELSE sessions
        /\ frames' = [frames EXCEPT ![c] = @ + 1]
        /\ UNCHANGED <<sock, task, joining, outVars, hostVars, next_session_id>>
    BY <1>12 DEF Signal, Reads, sends, dest
  <2>6. todo' \in [Conns -> Seq(Send)]
    BY <2>3, <2>5
  <2>7. sessions' \in [Keys -> Session \cup {NONE}]
    BY <2>1, <2>4, <2>5
  <2>8. frames' \in [Conns -> Nat]
    BY <2>5
  <2> QED BY <2>5, <2>6, <2>7, <2>8
<1>13. ASSUME NEW c \in Conns, SendTo(c) PROVE TypeOK'
  <2>1. Head(todo[c]) \in Send /\ Tail(todo[c]) \in Seq(Send)
    BY <1>13 DEF SendTo
  <2>2. Head(todo[c]).to \in Addrs /\ Head(todo[c]).msg \in ServerMessage
    BY <2>1 DEF Send
  <2>3. chan' \in [Conns -> Seq(ServerMessage)]
    <3> DEFINE m == Head(todo[c]).msg
               d == clients[Head(todo[c]).to]
    <3>1. m \in ServerMessage /\ d \in Conns \cup {NONE}
      BY <2>2
    <3>2. chan' = chan \/ (d # NONE /\ chan' = [chan EXCEPT ![d] = Append(chan[d], m)])
      BY <1>13 DEF SendTo, Deliver
    <3> HIDE DEF m, d
    <3>3. d \in Conns => Append(chan[d], m) \in Seq(ServerMessage)
      BY <3>1
    <3> QED BY <3>1, <3>2, <3>3
  <2>4. todo' \in [Conns -> Seq(Send)]
    BY <1>13, <2>1 DEF SendTo
  <2> QED BY <1>13, <2>3, <2>4 DEF SendTo
<1>14. ASSUME NEW c \in Conns, Leave(c) PROVE TypeOK'
  BY <1>14 DEF Leave
<1>15. ASSUME NEW c \in Conns, Cleanup(c) PROVE TypeOK'
  BY <1>15 DEF Cleanup, RemoveClient
<1>16. ASSUME NEW c \in Conns, WriterSends(c) PROVE TypeOK'
  <2>1. Tail(chan[c]) \in Seq(ServerMessage)
    BY <1>16 DEF WriterSends
  <2> QED BY <1>16, <2>1 DEF WriterSends
<1>17. ASSUME NEW c \in Conns, WriterStops(c) PROVE TypeOK'
  BY <1>17 DEF WriterStops
<1>18. CASE UNCHANGED vars
  BY <1>18 DEF vars
<1> QED
  BY <1>1, <1>2, <1>3, <1>4, <1>5, <1>6, <1>7, <1>8, <1>9, <1>10, <1>11,
     <1>12, <1>13, <1>14, <1>15, <1>16, <1>17, <1>18
     DEF Next, Handles, ReadEnds, ReadFails, IdleTimeout, WriterDead,
         WriterFails, WriterDrained, Finished

\* The state of the server is well typed: in particular the counter of session
\* ids starts at 1 and every id it hands out is a key of the session map.
THEOREM TypeCorrect == Spec => []TypeOK
<1>1. Init => TypeOK
  BY ConstantsAssumption DEF Init, TypeOK, FirstSessionId
<1>2. TypeOK /\ [Next]_vars => TypeOK'
  BY TypeStep
<1> QED BY <1>1, <1>2, PTL DEF Spec

-----------------------------------------------------------------------------
(* The registry and the tasks.                                             *)

\* A handler that still has something to send, or is between the two critical
\* sections of ConnectRequest, has not left its loop.
BusyHandlersLoop ==
    \A c \in Conns : todo[c] # <<>> \/ joining[c] # NONE => task[c] = "loop"

\* The part of the invariant that relates the registry to the tasks.
Books == ListedHostsAreServed /\ SessionsAreServed /\ ChannelsAreServed

RegistryInv == TypeOK /\ BusyHandlersLoop /\ Books

\* An address stays served while no handler finishes its cleanup.
LEMMA StillServed ==
    ASSUME \A d \in Conns : Active(d) => Active(d)'
    PROVE  \A a : Served(a) => Served(a)'
  BY DEF Served

\* A step that leaves the registry alone and finishes no cleanup keeps the
\* books in order.
LEMMA QuietStep ==
    ASSUME Books, UNCHANGED <<clients, hosts, host_records, sessions>>, TypeOK,
           \A d \in Conns : Active(d) => Active(d)'
    PROVE  Books'
<1>1. \A a : Served(a) => Served(a)'
  BY StillServed
<1>2. ListedHostsAreServed'
  BY <1>1 DEF Books, ListedHostsAreServed
<1>3. SessionsAreServed'
  BY <1>1 DEF Books, SessionsAreServed
<1>4. ChannelsAreServed'
  BY DEF Books, ChannelsAreServed, TypeOK
<1> QED BY <1>2, <1>3, <1>4 DEF Books

\* The handler that takes a step in its loop serves its own address.
LEMMA LoopServes ==
    ASSUME NEW c \in Conns, task[c] = "loop"
    PROVE  Served(AddrOf[c])
  BY DEF Served, Active

\* Every step keeps the books in order.
LEMMA BooksStep ==
    ASSUME RegistryInv, [Next]_vars
    PROVE  Books'
<1> USE ConstantsAssumption DEF RegistryInv
<1> DEFINE Quiet == /\ UNCHANGED <<clients, hosts, host_records, sessions>>
                    /\ \A d \in Conns : Active(d) => Active(d)'
<1>1. Quiet => Books'
  BY QuietStep
<1> HIDE DEF Quiet
<1>2. ASSUME NEW c \in Conns,
             Accept(c) \/ PeerCloses(c) \/ PeerVanishes(c) \/ SendTo(c)
               \/ WriterSends(c) \/ WriterStops(c)
      PROVE  Books'
  <2>1. UNCHANGED <<clients, hosts, host_records, sessions>>
    BY <1>2 DEF Accept, PeerCloses, PeerVanishes, SendTo, WriterSends,
                WriterStops, outVars, hostVars, sessVars
  <2>2. \A d \in Conns : Active(d) => Active(d)'
    <3>1. CASE Accept(c)
      BY <3>1 DEF Accept, Active, TypeOK
    <3>2. CASE UNCHANGED task
      BY <3>2 DEF Active
    <3> QED BY <1>2, <3>1, <3>2 DEF PeerCloses, PeerVanishes, SendTo,
               WriterSends, WriterStops
  <2> QED BY <1>1, <2>1, <2>2 DEF Quiet
<1>3. ASSUME NEW c \in Conns, Ping(c) \/ ListHosts(c) PROVE Books'
  <2>1. Quiet
    BY <1>3 DEF Ping, ListHosts, Quiet, Active, outVars, hostVars, sessVars
  <2> QED BY <1>1, <2>1
<1>4. ASSUME NEW c \in Conns, NEW id \in HostIds, ConnectRequest(c, id)
      PROVE  Books'
  <2>1. Quiet
    BY <1>4 DEF ConnectRequest, Quiet, Active, outVars, hostVars, sessVars
  <2> QED BY <1>1, <2>1
<1>5. ASSUME NEW c \in Conns, Leave(c) PROVE Books'
  <2>1. Quiet
    BY <1>5 DEF Leave, Quiet, Active, TypeOK, outVars, hostVars, sessVars
  <2> QED BY <1>1, <2>1
<1>6. ASSUME NEW c \in Conns, Enter(c) PROVE Books'
  <2>1. \A d \in Conns : Active(d) => Active(d)'
    BY <1>6 DEF Enter, Active, TypeOK
  <2>2. \A a : Served(a) => Served(a)'
    BY <2>1, StillServed
  <2>3. ListedHostsAreServed' /\ SessionsAreServed'
    BY <1>6, <2>2 DEF Enter, Books, ListedHostsAreServed, SessionsAreServed,
                      hostVars, sessVars
  <2>4. ChannelsAreServed'
    BY <1>6, <2>1 DEF Enter, Books, ChannelsAreServed, Active, TypeOK
  <2> QED BY <2>3, <2>4 DEF Books
<1>7. ASSUME NEW c \in Conns, NEW id \in HostIds, NEW ad \in Ads,
             RegisterHost(c, id, ad)
      PROVE  Books'
  <2>1. task[c] = "loop" /\ UNCHANGED <<task, clients, sessions>>
    BY <1>7 DEF RegisterHost, Reads, Selecting, outVars, sessVars
  <2>2. \A a : Served(a) <=> Served(a)'
    BY <2>1 DEF Served, Active
  <2>3. ListedHostsAreServed'
    <3>1. /\ hosts' = [hosts EXCEPT ![id] = AddrOf[c]]
          /\ host_records' = [host_records EXCEPT ![id] = ad]
      BY <1>7 DEF RegisterHost
    <3>2. Served(AddrOf[c]) /\ AddrOf[c] # NONE /\ ad # NONE
      BY <2>1, LoopServes
    <3> QED BY <2>2, <3>1, <3>2 DEF Books, ListedHostsAreServed, TypeOK
  <2>4. SessionsAreServed' /\ ChannelsAreServed'
    BY <2>1, <2>2 DEF Books, SessionsAreServed, ChannelsAreServed, Active
  <2> QED BY <2>3, <2>4 DEF Books
<1>8. ASSUME NEW c \in Conns, NEW id \in HostIds, NEW ad \in Ads,
             UpdateHost(c, id, ad)
      PROVE  Books'
  <2>1. UNCHANGED <<task, clients, sessions, hosts>>
    BY <1>8 DEF UpdateHost, outVars, sessVars
  <2>2. \A a : Served(a) <=> Served(a)'
    BY <2>1 DEF Served, Active
  <2>3. ListedHostsAreServed'
    BY <1>8, <2>1, <2>2 DEF UpdateHost, Owns, Books, ListedHostsAreServed, TypeOK
  <2>4. SessionsAreServed' /\ ChannelsAreServed'
    BY <2>1, <2>2 DEF Books, SessionsAreServed, ChannelsAreServed, Active
  <2> QED BY <2>3, <2>4 DEF Books
<1>9. ASSUME NEW c \in Conns, NEW id \in HostIds, UnregisterHost(c, id)
      PROVE  Books'
  <2>1. UNCHANGED <<task, clients, sessions>>
    BY <1>9 DEF UnregisterHost, outVars, sessVars
  <2>2. \A a : Served(a) <=> Served(a)'
    BY <2>1 DEF Served, Active
  <2>3. ListedHostsAreServed'
    <3>1. \/ hosts' = hosts /\ host_records' = host_records
          \/ /\ hosts' = [hosts EXCEPT ![id] = NONE]
             /\ host_records' = [host_records EXCEPT ![id] = NONE]
      BY <1>9 DEF UnregisterHost, hostVars
    <3> QED BY <2>2, <3>1 DEF Books, ListedHostsAreServed, TypeOK
  <2>4. SessionsAreServed' /\ ChannelsAreServed'
    BY <2>1, <2>2 DEF Books, SessionsAreServed, ChannelsAreServed, Active
  <2> QED BY <2>3, <2>4 DEF Books
<1>10. ASSUME NEW c \in Conns, AllocateSession(c) PROVE Books'
  <2>1. /\ task[c] = "loop"
        /\ UNCHANGED <<task, clients, hosts, host_records>>
    BY <1>10 DEF AllocateSession, BusyHandlersLoop, outVars, hostVars
  <2>2. \A a : Served(a) <=> Served(a)'
    BY <2>1 DEF Served, Active
  <2>3. SessionsAreServed'
    <3>0. next_session_id \in 1 .. MaxSession
      <4>1. next_session_id <= MaxSession
        BY <1>10 DEF AllocateSession
      <4> QED BY <4>1 DEF TypeOK
    <3>1. sessions' = [sessions EXCEPT
                         ![next_session_id] = [joiner |-> AddrOf[c], host |-> joining[c]]]
      BY <1>10 DEF AllocateSession
    <3>2. Served(AddrOf[c])
      BY <2>1, LoopServes
    <3> QED BY <2>2, <3>0, <3>1, <3>2 DEF Books, SessionsAreServed, TypeOK
  <2>4. ListedHostsAreServed' /\ ChannelsAreServed'
    BY <2>1, <2>2 DEF Books, ListedHostsAreServed, ChannelsAreServed, Active
  <2> QED BY <2>3, <2>4 DEF Books
<1>11. ASSUME NEW c \in Conns, NEW t \in HostIds \cup {0}, NEW k \in ConnIds,
              Signal(c, t, k)
       PROVE  Books'
  <2>1. /\ task[c] = "loop"
        /\ UNCHANGED <<task, clients, hosts, host_records>>
    BY <1>11 DEF Signal, Reads, Selecting, outVars, hostVars
  <2>2. \A a : Served(a) <=> Served(a)'
    BY <2>1 DEF Served, Active
  <2>3. SessionsAreServed'
    <3>1. CASE t # 0 /\ hosts[t] # NONE
      <4>1. sessions' = [sessions EXCEPT
                           ![k] = [joiner |-> AddrOf[c], host |-> hosts[t]]]
        BY <1>11, <3>1 DEF Signal, Route
      <4>2. Served(AddrOf[c]) /\ Served(hosts[t])
        BY <2>1, <3>1, LoopServes DEF Books, ListedHostsAreServed
      <4> QED BY <2>2, <4>1, <4>2 DEF Books, SessionsAreServed, TypeOK
    <3>2. CASE ~(t # 0 /\ hosts[t] # NONE)
      <4>1. UNCHANGED sessions
        BY <1>11, <3>2 DEF Signal, Route
      <4> QED BY <2>2, <4>1 DEF Books, SessionsAreServed
    <3> QED BY <3>1, <3>2
  <2>4. ListedHostsAreServed' /\ ChannelsAreServed'
    BY <2>1, <2>2 DEF Books, ListedHostsAreServed, ChannelsAreServed, Active
  <2> QED BY <2>3, <2>4 DEF Books
<1>12. ASSUME NEW c \in Conns, Cleanup(c) PROVE Books'
  <2> DEFINE a == AddrOf[c]
  <2>1. \A b : b # a /\ Served(b) => Served(b)'
    BY <1>12 DEF Cleanup, Served, Active, TypeOK
  <2>2. ListedHostsAreServed'
    BY <1>12, <2>1 DEF Cleanup, Orphaned, Books, ListedHostsAreServed, TypeOK
  <2>3. SessionsAreServed'
    BY <1>12, <2>1 DEF Cleanup, Involves, Books, SessionsAreServed, TypeOK
  <2>4. ChannelsAreServed'
    <3>1. /\ clients' = [clients EXCEPT ![a] = NONE]
          /\ task' = [task EXCEPT ![c] = "done"]
      BY <1>12 DEF Cleanup, RemoveClient
    <3> QED BY <3>1 DEF Books, ChannelsAreServed, Active, TypeOK
  <2> QED BY <2>2, <2>3, <2>4 DEF Books
<1>13. CASE UNCHANGED vars
  <2>1. Quiet
    BY <1>13 DEF vars, Quiet, Active
  <2> QED BY <1>1, <2>1
<1> QED
  BY <1>2, <1>3, <1>4, <1>5, <1>6, <1>7, <1>8, <1>9, <1>10, <1>11, <1>12, <1>13
     DEF Next, Handles, ReadEnds, ReadFails, IdleTimeout, WriterDead,
         WriterFails, WriterDrained, Finished

\* The inductive invariant holds in every reachable state.
THEOREM RegistryCorrect == Spec => []RegistryInv
<1> USE ConstantsAssumption
<1>1. Init => RegistryInv
  <2>1. Init => TypeOK
    BY DEF Init, TypeOK, FirstSessionId
  <2>2. Init => BusyHandlersLoop
    BY DEF Init, BusyHandlersLoop
  <2>3. Init => ListedHostsAreServed /\ SessionsAreServed /\ ChannelsAreServed
    BY DEF Init, ListedHostsAreServed, SessionsAreServed, ChannelsAreServed
  <2> QED BY <2>1, <2>2, <2>3 DEF RegistryInv, Books
<1>2. RegistryInv /\ [Next]_vars => RegistryInv'
  <2> SUFFICES ASSUME RegistryInv, [Next]_vars PROVE RegistryInv'
    OBVIOUS
  <2> USE DEF RegistryInv
  <2>1. TypeOK'
    BY TypeStep
  <2>2. Books'
    BY BooksStep
  <2>3. BusyHandlersLoop'
    <3> USE DEF BusyHandlersLoop, TypeOK
    <3>1. ASSUME NEW c \in Conns, Accept(c) \/ Enter(c) \/ Leave(c) \/ Cleanup(c)
          PROVE  BusyHandlersLoop'
      <4>1. CASE Accept(c) \/ Enter(c)
        <5>1. task[c] # "loop" /\ UNCHANGED <<todo, joining>>
          BY <4>1 DEF Accept, Enter
        <5>2. \A d \in Conns : d # c => task'[d] = task[d]
          BY <4>1 DEF Accept, Enter
        <5> QED BY <5>1, <5>2
      <4>2. CASE Leave(c)
        BY <4>2 DEF Leave, Selecting
      <4>3. CASE Cleanup(c)
        BY <4>3 DEF Cleanup
      <4> QED BY <3>1, <4>1, <4>2, <4>3
    <3>2. ASSUME NEW c \in Conns, Handles(c) PROVE BusyHandlersLoop'
      <4>1. task[c] = "loop" /\ UNCHANGED task
        BY <3>2 DEF Handles, Ping, RegisterHost, UpdateHost, UnregisterHost,
           ListHosts, ConnectRequest, Signal, Reads, Selecting
      <4>2. \A d \in Conns : d # c => todo'[d] = todo[d] /\ joining'[d] = joining[d]
        <5> DEFINE Others == \A d \in Conns : d # c =>
                               todo'[d] = todo[d] /\ joining'[d] = joining[d]
        <5>1. Ping(c) \/ ListHosts(c) => Others
          BY DEF Ping, ListHosts
        <5>2. \A id \in HostIds : UnregisterHost(c, id) \/ ConnectRequest(c, id) => Others
          BY DEF UnregisterHost, ConnectRequest
        <5>3. \A id \in HostIds, ad \in Ads :
                RegisterHost(c, id, ad) \/ UpdateHost(c, id, ad) => Others
          BY DEF RegisterHost, UpdateHost
        <5>4. \A t \in HostIds \cup {0}, k \in ConnIds : Signal(c, t, k) => Others
          BY DEF Signal
        <5> HIDE DEF Others
        <5>5. Others
          BY <3>2, <5>1, <5>2, <5>3, <5>4 DEF Handles
        <5> QED BY <5>5 DEF Others
      <4> QED BY <4>1, <4>2
    <3>3. ASSUME NEW c \in Conns, AllocateSession(c) \/ SendTo(c)
          PROVE  BusyHandlersLoop'
      BY <3>3 DEF AllocateSession, SendTo
    <3>4. CASE UNCHANGED <<task, todo, joining>>
      BY <3>4
    <3> QED
      BY <3>1, <3>2, <3>3, <3>4
         DEF Next, PeerCloses, PeerVanishes, ReadEnds, ReadFails, IdleTimeout,
             WriterDead, WriterSends, WriterFails, WriterDrained, WriterStops,
             Finished, vars
  <2> QED BY <2>1, <2>2, <2>3
<1> QED BY <1>1, <1>2, PTL DEF Spec

\* For any number of connections: the host list and the routing table agree,
\* and every listed host has a handler that will unlist it when it is gone.
THEOREM ListedHostsServed == Spec => []ListedHostsAreServed
  BY RegistryCorrect, PTL DEF RegistryInv, Books

\* No session that Signal opened outlives one of its ends, and no session at
\* all outlives its joiner.
THEOREM SessionsServed == Spec => []SessionsAreServed
  BY RegistryCorrect, PTL DEF RegistryInv, Books

\* send_to never finds the channel of a connection that was cleaned up.
THEOREM ChannelsServed == Spec => []ChannelsAreServed
  BY RegistryCorrect, PTL DEF RegistryInv, Books

-----------------------------------------------------------------------------
(* The server implements HostDirectory.                                    *)

\* A handler that answers a message in its loop answers a request of the
\* directory.
LEMMA AnswerStep ==
    ASSUME TypeOK, NEW c \in Conns, NEW k, Reads(c, k), UNCHANGED task
    PROVE  Directory!Answer(c)
<1>1. Presence[c] = "here" /\ Presence' = Presence
  BY DEF Reads, Selecting, Presence, Active
<1> QED BY <1>1 DEF Reads, Directory!Answer

\* Each step of the server is a step of the directory or invisible in it.
LEMMA DirectoryStep ==
    ASSUME TypeOK, [Next]_vars
    PROVE  [Directory!DirectoryNext]_(Directory!directoryVars)
<1> USE ConstantsAssumption
<1> DEFINE Goal == Directory!DirectoryNext \/ UNCHANGED Directory!directoryVars
<1>t. task \in [Conns -> {"none", "accepted", "loop", "leaving", "done"}]
  BY DEF TypeOK
<1>1. ASSUME NEW c \in Conns, NEW i \in HostIds, NEW ad \in Ads,
             RegisterHost(c, i, ad)
      PROVE  Goal
  <2>1. Directory!Answer(c)
    BY <1>1, AnswerStep DEF RegisterHost
  <2> QED BY <1>1, <2>1 DEF RegisterHost, Directory!DirectoryNext, Directory!Publish
<1>2. ASSUME NEW c \in Conns, NEW i \in HostIds, NEW ad \in Ads,
             UpdateHost(c, i, ad)
      PROVE  Goal
  <2>1. Directory!Answer(c)
    BY <1>2, AnswerStep DEF UpdateHost
  <2>2. CASE Owns(c, i)
    BY <1>2, <2>1, <2>2
       DEF UpdateHost, Owns, Directory!DirectoryNext, Directory!Revise
  <2>3. CASE ~Owns(c, i)
    BY <1>2, <2>1, <2>3
       DEF UpdateHost, Directory!DirectoryNext, Directory!Pass, Directory!listing
  <2> QED BY <2>2, <2>3
<1>3. ASSUME NEW c \in Conns, NEW i \in HostIds, UnregisterHost(c, i)
      PROVE  Goal
  <2>1. Directory!Answer(c)
    BY <1>3, AnswerStep DEF UnregisterHost
  <2>2. CASE Owns(c, i)
    BY <1>3, <2>1, <2>2
       DEF UnregisterHost, Owns, Directory!DirectoryNext, Directory!Withdraw
  <2>3. CASE ~Owns(c, i)
    BY <1>3, <2>1, <2>3
       DEF UnregisterHost, hostVars, Directory!DirectoryNext, Directory!Pass,
           Directory!listing
  <2> QED BY <2>2, <2>3
<1>4. ASSUME NEW c \in Conns, Cleanup(c) PROVE Goal
  <2>1. /\ Presence[c] = "here"
        /\ Presence' = [Presence EXCEPT ![c] = "gone"]
    BY <1>4, <1>t DEF Cleanup, Presence, Active
  <2>2. /\ hosts' = [id \in HostIds |->
                      IF hosts[id] = AddrOf[c] THEN NONE ELSE hosts[id]]
        /\ host_records' = [id \in HostIds |->
                      IF hosts[id] = AddrOf[c] THEN NONE ELSE host_records[id]]
        /\ frames' = frames
    BY <1>4 DEF Cleanup, Orphaned
  <2> QED BY <2>1, <2>2 DEF Directory!DirectoryNext, Directory!Depart
<1>5. ASSUME NEW c \in Conns, Enter(c) PROVE Goal
  <2>1. /\ Presence[c] = "away"
        /\ Presence' = [Presence EXCEPT ![c] = "here"]
    BY <1>5, <1>t DEF Enter, Presence, Active
  <2> QED
    BY <1>5, <2>1
       DEF Enter, hostVars, Directory!DirectoryNext, Directory!Arrive, Directory!listing
<1>6. ASSUME NEW c \in Conns, Accept(c) \/ Leave(c) PROVE Goal
  <2>1. Presence' = Presence
    BY <1>6, <1>t DEF Accept, Leave, Selecting, Presence, Active
  <2> QED BY <1>6, <2>1 DEF Accept, Leave, hostVars, Directory!directoryVars
<1>7. ASSUME NEW c \in Conns, NEW k, Reads(c, k), UNCHANGED <<task, hostVars>>
      PROVE  Goal
  <2>1. Directory!Answer(c)
    BY <1>7, AnswerStep
  <2> QED
    BY <1>7, <2>1 DEF hostVars, Directory!DirectoryNext, Directory!Pass, Directory!listing
<1>8. CASE UNCHANGED <<task, frames, hostVars>>
  BY <1>8 DEF hostVars, Presence, Active, Directory!directoryVars
<1>9. ASSUME NEW c \in Conns, Handles(c)
      PROVE  \/ \E i \in HostIds, ad \in Ads :
                  RegisterHost(c, i, ad) \/ UpdateHost(c, i, ad)
             \/ \E i \in HostIds : UnregisterHost(c, i)
             \/ \E k : Reads(c, k) /\ UNCHANGED <<task, hostVars>>
  BY <1>9 DEF Handles, Ping, ListHosts, ConnectRequest, Signal
<1>10. \/ \E c \in Conns : Handles(c)
       \/ \E c \in Conns : Cleanup(c) \/ Enter(c) \/ Accept(c) \/ Leave(c)
       \/ UNCHANGED <<task, frames, hostVars>>
  BY DEF Next, PeerCloses, PeerVanishes, AllocateSession, SendTo, ReadEnds,
         ReadFails, IdleTimeout, WriterDead, WriterSends, WriterFails,
         WriterDrained, WriterStops, Finished, hostVars, vars
<1> QED BY <1>1, <1>2, <1>3, <1>4, <1>5, <1>6, <1>7, <1>8, <1>9, <1>10

\* The tasks and critical sections of the server implement the directory, for
\* any number of clients and with addresses reused or not: only the owner
\* changes a listing, until it is taken over, and a cleanup removes all of it.
THEOREM ServerImplementsDirectory == Spec => ImplementsDirectory
<1>1. Init => Directory!DirectoryInit
  BY DEF Init, Presence, Active, Directory!DirectoryInit
<1> QED
  BY <1>1, DirectoryStep, TypeCorrect, PTL
     DEF Spec, ImplementsDirectory, Directory!DirectorySpec

-----------------------------------------------------------------------------
(* Session ids.                                                            *)

\* ConnectRequest never overwrites a session, as long as the WebRTC connection
\* ids, which share the map, stay clear of the counter.
THEOREM SessionIdsFresh == Spec => []FreshSessionIds
<1> USE ConstantsAssumption
<1>1. Init => FreshSessionIds
  BY DEF Init, FreshSessionIds, FirstSessionId, Keys
<1>2. TypeOK /\ FreshSessionIds /\ [Next]_vars => FreshSessionIds'
  <2> SUFFICES ASSUME TypeOK, FreshSessionIds, [Next]_vars,
                      ConnIds \cap (1 .. MaxSession) = {}
               PROVE  \A k \in next_session_id' .. MaxSession : sessions'[k] = NONE
    BY DEF FreshSessionIds
  <2>a. /\ next_session_id \in Nat /\ next_session_id >= 1 /\ MaxSession \in Nat
        /\ sessions \in [Keys -> Session \cup {NONE}]
        /\ 1 .. MaxSession \subseteq Keys
    <3>1. 1 .. MaxSession \subseteq Keys
      BY DEF Keys
    <3>2. next_session_id \in 1 .. (MaxSession + 1) /\ sessions \in [Keys -> Session \cup {NONE}]
      BY DEF TypeOK
    <3> QED BY <3>1, <3>2
  <2>b. \A k \in next_session_id .. MaxSession : sessions[k] = NONE /\ k \notin ConnIds
    BY <2>a DEF FreshSessionIds
  <2>1. ASSUME NEW c \in Conns, AllocateSession(c)
        PROVE  \A k \in next_session_id' .. MaxSession : sessions'[k] = NONE
    <3>1. /\ next_session_id' = next_session_id + 1
          /\ \E s : sessions' = [sessions EXCEPT ![next_session_id] = s]
      BY <2>1 DEF AllocateSession, FollowingId
    <3> QED BY <2>a, <2>b, <3>1
  <2>2. ASSUME NEW c \in Conns, NEW t \in HostIds \cup {0}, NEW k \in ConnIds,
               Signal(c, t, k)
        PROVE  \A i \in next_session_id' .. MaxSession : sessions'[i] = NONE
    <3>1. /\ next_session_id' = next_session_id
          /\ sessions' = sessions \/ \E s : sessions' = [sessions EXCEPT ![k] = s]
      BY <2>2 DEF Signal
    <3> QED BY <2>a, <2>b, <3>1
  <2>3. ASSUME NEW c \in Conns, Cleanup(c)
        PROVE  \A k \in next_session_id' .. MaxSession : sessions'[k] = NONE
    <3>1. /\ next_session_id' = next_session_id
          /\ \A k \in Keys : sessions'[k] \in {NONE, sessions[k]}
      BY <2>3 DEF Cleanup
    <3> QED BY <2>a, <2>b, <3>1
  <2>4. CASE UNCHANGED sessVars
    BY <2>4, <2>b DEF sessVars
  <2>5. \/ \E c \in Conns : AllocateSession(c) \/ Cleanup(c)
        \/ \E c \in Conns, t \in HostIds \cup {0}, k \in ConnIds : Signal(c, t, k)
        \/ UNCHANGED sessVars
    <3>1. ASSUME NEW c \in Conns, Handles(c)
          PROVE  \/ \E t \in HostIds \cup {0}, k \in ConnIds : Signal(c, t, k)
                 \/ UNCHANGED sessVars
      BY <3>1 DEF Handles, Ping, RegisterHost, UpdateHost, UnregisterHost,
         ListHosts, ConnectRequest, sessVars
    <3>2. ASSUME NEW c \in Conns,
                 Accept(c) \/ PeerCloses(c) \/ PeerVanishes(c) \/ Enter(c) \/ SendTo(c)
          PROVE  UNCHANGED sessVars
      BY <3>2 DEF Accept, PeerCloses, PeerVanishes, Enter, SendTo, sessVars
    <3>3. ASSUME NEW c \in Conns,
                 \/ ReadEnds(c) \/ ReadFails(c) \/ IdleTimeout(c) \/ WriterDead(c)
                 \/ WriterSends(c) \/ WriterFails(c) \/ WriterDrained(c)
          PROVE  UNCHANGED sessVars
      BY <3>3 DEF ReadEnds, ReadFails, IdleTimeout, WriterDead, Leave,
         WriterSends, WriterFails, WriterDrained, WriterStops, sessVars
    <3>4. CASE UNCHANGED vars
      BY <3>4 DEF vars, sessVars
    <3> QED BY <3>1, <3>2, <3>3, <3>4 DEF Next, Finished
  <2> QED BY <2>1, <2>2, <2>3, <2>4, <2>5
<1> QED BY <1>1, <1>2, TypeCorrect, PTL DEF Spec
=============================================================================
