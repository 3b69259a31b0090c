-------------------------- MODULE RendezvousProofs --------------------------
(***************************************************************************)
(* Proofs about a node and the server together, for any number of          *)
(* connections, failures, moves and worlds.                                *)
(***************************************************************************)
EXTENDS Rendezvous, MineshaftNodeProofs

-----------------------------------------------------------------------------
(* The composition and its parts.                                          *)

\* The node of the composition is MineshaftNode: what is proved of it holds
\* here, whatever the server and the network do.
THEOREM NodeOfRendezvous == RendezvousSpec => Spec
<1>1. RendezvousInit => Init
  BY DEF RendezvousInit
<1>2. [RendezvousNext]_rvars => [Next]_vars
  BY DEF RendezvousNext, NodeStep, Loses, Accepts, Receives, Drops, rvars
<1> QED BY <1>1, <1>2, PTL DEF RendezvousSpec, Spec

-----------------------------------------------------------------------------
(* What the steps do.                                                      *)

\* An UnregisterHost is the only Message without an advertisement.
LEMMA MessageTypes ==
    ASSUME NEW m \in Message
    PROVE  /\ m.type \in {"RegisterHost", "UpdateHost", "UnregisterHost"}
           /\ m.type # "UnregisterHost" => m.ad \in Ads
  BY DEF Message

\* What the loop writes about its registration.
LEMMA WrittenTypes ==
    ASSUME NodeTypeOK', NEW n \in Conns
    PROVE  /\ Written(n) \in Message
           /\ Written(n).type = "UnregisterHost" <=> remote'[n] = NONE
           /\ remote'[n] # NONE =>
                /\ Written(n).ad = remote'[n]
                /\ Written(n).type = "RegisterHost" <=> remote[n] = NONE
<1>1. remote'[n] \in Ads \cup {NONE}
  BY DEF NodeTypeOK, HostTypeOK
<1>2. CASE remote'[n] = NONE
  BY <1>2 DEF Written, Message
<1>3. CASE remote'[n] # NONE
  BY <1>1, <1>3 DEF Written, Message
<1> QED BY <1>2, <1>3

\* The node makes a new connection, or gives up the one it uses or not; it
\* changes its registration over that one only.
LEMMA NodeEffect ==
    ASSUME NodeTypeOK, Next
    PROVE  \/ Connect
           \/ /\ epoch' = epoch /\ server' \in {0, server}
              /\ \A n \in Conns : remote'[n] # remote[n] => n = server
              /\ \A n \in Conns : \/ link'[n] = link[n]
                                  \/ link[n] # "unused" /\ link'[n] \in {"silent", "closed"}
<1> DEFINE Effect ==
      /\ epoch' = epoch /\ server' \in {0, server}
      /\ \A n \in Conns : remote'[n] # remote[n] => n = server
      /\ \A n \in Conns : \/ link'[n] = link[n]
                          \/ link[n] # "unused" /\ link'[n] \in {"silent", "closed"}
<1>t. /\ remote \in [Conns -> Ads \cup {NONE}]
      /\ link \in [Conns -> {"unused", "up", "silent", "closed"}]
  BY DEF NodeTypeOK, HostTypeOK, ConnTypeOK
<1>1. ASSUME server' \in {0, server}, UNCHANGED <<epoch, link, hostVars>> PROVE Effect
  BY <1>1 DEF hostVars
<1>2. ASSUME NEW ok \in BOOLEAN, GameClosed(ok) \/ GameBrowsing(ok) PROVE Effect
  <2>1. UNCHANGED <<epoch, link>> /\ Unregister(ok)
    BY <1>2 DEF GameClosed, GameBrowsing
  <2>2. CASE hosting_registered
    <3>1. /\ server' \in {0, server}
          /\ remote' = remote \/ remote' = [remote EXCEPT ![server] = NONE]
      BY <2>1, <2>2 DEF Unregister
    <3> QED BY <1>t, <2>1, <3>1
  <2>3. CASE ~hosting_registered
    <3>1. UNCHANGED <<server, hostVars>>
      BY <2>1, <2>3 DEF Unregister
    <3> QED BY <1>1, <2>1, <3>1
  <2> QED BY <2>2, <2>3
<1>3. ASSUME NEW ok \in BOOLEAN, GameHosting(ok) PROVE Effect
  <2>1. /\ UNCHANGED <<epoch, link>> /\ server' \in {0, server}
        /\ remote' = remote \/ remote' = [remote EXCEPT ![server] = world.ad]
    BY <1>3 DEF GameHosting, hostVars
  <2> QED BY <1>t, <2>1
<1>4. ASSUME NEW n \in Conns, LinkCloses(n) \/ LinkDrops(n) PROVE Effect
  <2>1. /\ UNCHANGED <<epoch, server, hostVars>> /\ link[n] # "unused"
        /\ \E v \in {"silent", "closed"} : link' = [link EXCEPT ![n] = v]
    BY <1>4 DEF LinkCloses, LinkDrops
  <2> QED BY <1>t, <2>1 DEF hostVars
<1>5. ASSUME NEW ok \in BOOLEAN, FetchAsks(ok) \/ Beat(ok) PROVE Effect
  <2>1. server' \in {0, server} /\ UNCHANGED <<epoch, link, hostVars>>
    BY <1>5 DEF FetchAsks, Beat
  <2> QED BY <1>1, <2>1
<1>6. CASE DropReader \/ LoseServer \/ KeepServer \/ ConnectFails \/ PortFree \/ PortError
           \/ PortBound \/ ProbeAnswered \/ ProbeUnanswered \/ FetchSucceeds \/ FetchFails
  <2>1. server' \in {0, server} /\ UNCHANGED <<epoch, link, hostVars>>
    BY <1>6 DEF DropReader, LoseServer, KeepServer, ConnectFails, PortFree, PortError,
       PortBound, ProbeAnswered, ProbeUnanswered, Detected, FetchSucceeds, FetchFails, connVars
  <2>2. Effect
    BY <1>1, <2>1
  <2> QED BY <2>2
<1>7. Loop => Connect \/ Effect
  <2> HIDE DEF Effect
  <2>1. \/ DropReader \/ LoseServer \/ KeepServer \/ ConnectFails \/ PortFree \/ PortError
        \/ PortBound \/ ProbeAnswered \/ ProbeUnanswered \/ FetchSucceeds \/ FetchFails
        => Connect \/ Effect
    BY <1>6 DEF Effect
  <2> QED BY <1>2, <1>3, <1>5, <2>1 DEF Loop
<1>8. \/ Loop \/ \E n \in Conns : LinkCloses(n) \/ LinkDrops(n)
      \/ UNCHANGED <<server, epoch, link, hostVars>>
  BY DEF Next, ReaderHostList, ReaderSignal, ReaderOther, Refreshes, ReaderBreaks,
     ReaderStops, ReaderEnds, GameJoins, GameAnswers, TakeWriter, ForwardSignal,
     GameMoves, GameResponds, GoesStale, connVars
<1>9. Connect \/ Effect
  <2> HIDE DEF Effect
  <2> QED BY <1>1, <1>4, <1>7, <1>8
<1> QED BY <1>9

\* The handler of n answers the first message it has not read.
LEMMA ReceiveEffect ==
    ASSUME RendezvousTypeOK, NEW n \in Conns, Receives(n)
    PROVE  /\ presence[n] = "here" /\ UNCHANGED presence
           /\ stream[n] # <<>> /\ stream' = [stream EXCEPT ![n] = Tail(stream[n])]
           /\ Head(stream[n]) \in Message
           /\ owner' \in [{Me} -> Conns \cup {NONE}] /\ record' \in [{Me} -> Ads \cup {NONE}]
           /\ LET m == Head(stream[n])
              IN  \/ m.type = "RegisterHost" /\ owner'[Me] = n /\ record'[Me] = m.ad
                  \/ /\ m.type = "UpdateHost" /\ owner[Me] = n
                     /\ owner'[Me] = n /\ record'[Me] = m.ad
                  \/ /\ m.type = "UnregisterHost" /\ owner[Me] = n
                     /\ owner'[Me] = NONE /\ record'[Me] = NONE
                  \/ m.type # "RegisterHost" /\ owner[Me] # n /\ UNCHANGED <<owner, record>>
<1> DEFINE m == Head(stream[n])
<1>t. /\ stream[n] \in Seq(Message)
      /\ owner \in [{Me} -> Conns \cup {NONE}] /\ record \in [{Me} -> Ads \cup {NONE}]
  BY DEF RendezvousTypeOK
<1>1. stream[n] # <<>> /\ Handle(n, m) /\ stream' = [stream EXCEPT ![n] = Tail(stream[n])]
  BY DEF Receives
<1>2. m \in Message
  BY <1>t, <1>1
<1> HIDE DEF m
<1>3. presence[n] = "here" /\ UNCHANGED presence
  BY <1>1 DEF Handle, Directory!Publish, Directory!Revise, Directory!Withdraw,
     Directory!Pass, Directory!Answer
<1>4. CASE m.type = "RegisterHost" /\ Directory!Publish(n, Me, m.ad)
  <2>1. m.ad \in Ads
    BY <1>2, <1>4, MessageTypes
  <2>2. owner' = [owner EXCEPT ![Me] = n] /\ record' = [record EXCEPT ![Me] = m.ad]
    BY <1>4 DEF Directory!Publish
  <2>3. /\ owner' \in [{Me} -> Conns \cup {NONE}] /\ owner'[Me] = n
        /\ record' \in [{Me} -> Ads \cup {NONE}] /\ record'[Me] = m.ad
    BY <1>t, <2>1, <2>2
  <2> QED BY <1>1, <1>2, <1>3, <1>4, <2>3 DEF m
<1>5. CASE m.type = "UpdateHost" /\ Directory!Revise(n, Me, m.ad)
  <2>1. m.ad \in Ads
    BY <1>2, <1>5, MessageTypes
  <2>2. owner[Me] = n /\ owner' = owner /\ record' = [record EXCEPT ![Me] = m.ad]
    BY <1>5 DEF Directory!Revise
  <2>3. record' \in [{Me} -> Ads \cup {NONE}] /\ record'[Me] = m.ad
    BY <1>t, <2>1, <2>2
  <2> QED BY <1>t, <1>1, <1>2, <1>3, <1>5, <2>2, <2>3 DEF m
<1>6. CASE m.type = "UnregisterHost" /\ Directory!Withdraw(n, Me)
  <2>2. /\ owner[Me] = n /\ owner' = [owner EXCEPT ![Me] = NONE]
        /\ record' = [record EXCEPT ![Me] = NONE]
    BY <1>6 DEF Directory!Withdraw
  <2>3. /\ owner' \in [{Me} -> Conns \cup {NONE}] /\ owner'[Me] = NONE
        /\ record' \in [{Me} -> Ads \cup {NONE}] /\ record'[Me] = NONE
    BY <1>t, <2>2
  <2> QED BY <1>1, <1>2, <1>3, <1>6, <2>2, <2>3 DEF m
<1>7. CASE m.type # "RegisterHost" /\ owner[Me] # n /\ Directory!Pass(n)
  BY <1>t, <1>1, <1>2, <1>3, <1>7 DEF m, Directory!Pass, Directory!listing
<1> QED BY <1>1, <1>4, <1>5, <1>6, <1>7 DEF Handle

\* A handler that ends takes its listing with it.
LEMMA DropEffect ==
    ASSUME RendezvousTypeOK, NEW n \in Conns, Drops(n)
    PROVE  /\ presence[n] = "here" /\ presence' = [presence EXCEPT ![n] = "gone"]
           /\ owner' \in [{Me} -> Conns \cup {NONE}] /\ record' \in [{Me} -> Ads \cup {NONE}]
           /\ IF owner[Me] = n THEN owner'[Me] = NONE /\ record'[Me] = NONE
              ELSE owner'[Me] = owner[Me] /\ record'[Me] = record[Me]
<1>1. /\ presence[n] = "here" /\ presence' = [presence EXCEPT ![n] = "gone"]
      /\ owner' = [id \in {Me} |-> IF owner[id] = n THEN NONE ELSE owner[id]]
      /\ record' = [id \in {Me} |-> IF owner[id] = n THEN NONE ELSE record[id]]
  BY DEF Drops, Directory!Depart
<1> QED BY <1>1 DEF RendezvousTypeOK

\* The messages that break off with a connection are the last ones.
LEMMA LosesEffect ==
    ASSUME RendezvousTypeOK, NEW n \in Conns, Loses(n)
    PROVE  /\ stream' \in [Conns -> Seq(Message)]
           /\ \A c \in Conns : c # n => stream'[c] = stream[c]
           /\ stream[n] # <<>> /\ link[n] # "up" /\ UNCHANGED <<vars, serverVars>>
<1>1. stream \in [Conns -> Seq(Message)]
  BY DEF RendezvousTypeOK
<1>2. PICK k \in 0 .. (Len(stream[n]) - 1) :
        stream' = [stream EXCEPT ![n] = SubSeq(stream[n], 1, k)]
  BY DEF Loses
<1>3. stream[n] \in Seq(Message) /\ Len(stream[n]) \in Nat /\ Len(stream[n]) > 0
  BY <1>1, <1>2
<1>4. SubSeq(stream[n], 1, k) \in Seq(Message)
  BY <1>2, <1>3
<1>5. stream' \in [Conns -> Seq(Message)] /\ \A c \in Conns : c # n => stream'[c] = stream[c]
  BY <1>1, <1>2, <1>4
<1>6. stream[n] # <<>>
  BY <1>3
<1> QED BY <1>5, <1>6 DEF Loses

\* Each step keeps the types of the streams and of the directory.
LEMMA RendezvousTypeStep ==
    ASSUME RendezvousTypeOK, NodeTypeOK', [RendezvousNext]_rvars
    PROVE  RendezvousTypeOK'
<1>t. /\ stream \in [Conns -> Seq(Message)]
      /\ presence \in [Conns -> {"away", "here", "gone"}]
      /\ requests \in [Conns -> Nat]
      /\ owner \in [{Me} -> Conns \cup {NONE}]
      /\ record \in [{Me} -> Ads \cup {NONE}]
      /\ late \in BOOLEAN
  BY DEF RendezvousTypeOK
<1>1. CASE NodeStep
  <2>1. \A n \in Conns : stream[n] \in Seq(Message) /\ Written(n) \in Message
    BY <1>t, WrittenTypes
  <2>2. \A n \in Conns : Append(stream[n], Written(n)) \in Seq(Message)
    BY <2>1
  <2>3. stream' = [n \in Conns |->
                     IF remote'[n] # remote[n] /\ link[n] # "closed"
                       THEN Append(stream[n], Written(n)) ELSE stream[n]]
    BY <1>1 DEF NodeStep
  <2>4. stream' \in [Conns -> Seq(Message)]
    BY <2>1, <2>2, <2>3
  <2> QED BY <1>t, <1>1, <2>4 DEF NodeStep, serverVars, RendezvousTypeOK
<1>2. ASSUME NEW n \in Conns, Loses(n) PROVE RendezvousTypeOK'
  BY <1>t, <1>2, LosesEffect DEF serverVars, RendezvousTypeOK
<1>3. ASSUME NEW n \in Conns, Accepts(n) PROVE RendezvousTypeOK'
  <2>1. /\ presence' = [presence EXCEPT ![n] = "here"]
        /\ UNCHANGED <<stream, requests, owner, record, late>>
    BY <1>3 DEF Accepts, Directory!Arrive, Directory!listing
  <2> QED BY <1>t, <2>1 DEF RendezvousTypeOK
<1>4. ASSUME NEW n \in Conns, Receives(n) PROVE RendezvousTypeOK'
  <2>1. requests' = [requests EXCEPT ![n] = requests[n] + 1]
    BY <1>4 DEF Receives, Handle, Directory!Publish, Directory!Revise, Directory!Withdraw,
       Directory!Pass, Directory!Answer
  <2>2. requests' \in [Conns -> Nat]
    BY <1>t, <2>1
  <2>3. /\ stream[n] # <<>> /\ stream' = [stream EXCEPT ![n] = Tail(stream[n])]
        /\ UNCHANGED presence
        /\ owner' \in [{Me} -> Conns \cup {NONE}] /\ record' \in [{Me} -> Ads \cup {NONE}]
    BY <1>4, ReceiveEffect
  <2>4. Tail(stream[n]) \in Seq(Message)
    BY <1>t, <2>3
  <2>5. stream' \in [Conns -> Seq(Message)]
    BY <1>t, <2>3, <2>4
  <2>6. late' \in BOOLEAN
    BY <1>t, <1>4 DEF Receives
  <2> QED BY <1>t, <2>2, <2>3, <2>5, <2>6 DEF RendezvousTypeOK
<1>5. ASSUME NEW n \in Conns, Drops(n) PROVE RendezvousTypeOK'
  <2>1. UNCHANGED <<stream, requests, late>>
    BY <1>5 DEF Drops, Directory!Depart
  <2>2. /\ presence' = [presence EXCEPT ![n] = "gone"]
        /\ owner' \in [{Me} -> Conns \cup {NONE}] /\ record' \in [{Me} -> Ads \cup {NONE}]
    BY <1>5, DropEffect
  <2> QED BY <1>t, <2>1, <2>2 DEF RendezvousTypeOK
<1>6. CASE UNCHANGED rvars
  BY <1>t, <1>6 DEF rvars, serverVars, RendezvousTypeOK
<1> QED BY <1>1, <1>2, <1>3, <1>4, <1>5, <1>6 DEF RendezvousNext

\* Streams hold messages of the protocol and the directory holds advertisements
\* of connections that exist: RendezvousTypeOK always holds.
THEOREM RendezvousTypeCorrect == RendezvousSpec => []RendezvousTypeOK
<1>1. RendezvousInit /\ NodeTypeOK => RendezvousTypeOK
  <2> SUFFICES ASSUME RendezvousInit, NodeTypeOK PROVE RendezvousTypeOK
    OBVIOUS
  <2>1. <<>> \in Seq(Message)
    OBVIOUS
  <2>2. stream \in [Conns -> Seq(Message)]
    BY <2>1 DEF RendezvousInit
  <2> QED BY <2>2 DEF RendezvousInit, Directory!DirectoryInit, RendezvousTypeOK
<1> QED BY <1>1, RendezvousTypeStep, NodeOfRendezvous, NodeTypeCorrect, PTL DEF RendezvousSpec

-----------------------------------------------------------------------------
(* The listing.                                                            *)

\* What is left to read of connection n, when the server's listing has owner o
\* and advertisement rec, ends with the listing being what the loop wrote last
\* (r): RegisterHost is what comes when n does not own the listing, and only
\* UnregisterHost gives it up.
Replays(s, n, o, rec, r) ==
    IF s = <<>>
      THEN IF r = NONE THEN o # n ELSE o = n /\ rec = r
      ELSE /\ s[1].type = "RegisterHost" <=> o # n
           /\ \A i \in 1 .. (Len(s) - 1) :
                s[i + 1].type = "RegisterHost" <=> s[i].type = "UnregisterHost"
           /\ IF r = NONE THEN s[Len(s)].type = "UnregisterHost"
              ELSE s[Len(s)].type # "UnregisterHost" /\ s[Len(s)].ad = r

\* A listing belongs to a handler that is there, connections that were not
\* made yet have left no trace, and the connection in use will make the
\* listing what the loop wrote.
ListingInv ==
    /\ \A n \in Conns : n > epoch => link[n] = "unused" /\ stream[n] = <<>>
    /\ \A n \in Conns : presence[n] # "away" => link[n] # "unused"
    /\ owner[Me] # NONE => presence[owner[Me]] = "here"
    /\ owner[Me] = NONE => record[Me] = NONE
    /\ server # 0 /\ link[server] = "up" /\ ~late =>
         Replays(stream[server], server, owner[Me], record[Me], remote[server])

\* A listing that changes among other connections is nothing to connection n.
LEMMA OtherReplay ==
    ASSUME NEW s, NEW n, NEW o, NEW o2, NEW rec, NEW rec2, NEW r,
           Replays(s, n, o, rec, r),
           o = n <=> o2 = n, o = n => rec2 = rec
    PROVE  Replays(s, n, o2, rec2, r)
  BY DEF Replays

\* The loop writes what takes its registration from r to r2.
LEMMA AppendReplay ==
    ASSUME NEW s \in Seq(Message), NEW m \in Message, NEW n, NEW o, NEW rec, NEW r, NEW r2,
           Replays(s, n, o, rec, r), r2 # r,
           m.type = "UnregisterHost" <=> r2 = NONE,
           r2 # NONE => m.ad = r2,
           m.type = "RegisterHost" <=> r = NONE
    PROVE  Replays(Append(s, m), n, o, rec, r2)
<1> DEFINE a == Append(s, m)
<1>1. /\ a # <<>> /\ Len(a) = Len(s) + 1 /\ a[Len(s) + 1] = m
      /\ Len(s) \in Nat /\ \A i \in 1 .. Len(s) : a[i] = s[i]
  OBVIOUS
<1> HIDE DEF a
<1>2. IF r2 = NONE THEN a[Len(a)].type = "UnregisterHost"
      ELSE a[Len(a)].type # "UnregisterHost" /\ a[Len(a)].ad = r2
  BY <1>1
<1>3. CASE s = <<>>
  <2>1. Len(a) = 1 /\ a[1] = m
    BY <1>1, <1>3
  <2>2. m.type = "RegisterHost" <=> o # n
    BY <1>3 DEF Replays
  <2>4. 1 .. (Len(a) - 1) = {}
    BY <2>1
  <2>3. Replays(a, n, o, rec, r2)
    BY <1>1, <1>2, <2>1, <2>2, <2>4 DEF Replays
  <2> QED BY <2>3 DEF a
<1>4. CASE s # <<>>
  <2>1. /\ s[1].type = "RegisterHost" <=> o # n
        /\ \A i \in 1 .. (Len(s) - 1) :
             s[i + 1].type = "RegisterHost" <=> s[i].type = "UnregisterHost"
        /\ s[Len(s)].type = "UnregisterHost" <=> r = NONE
    BY <1>4 DEF Replays
  <2>2. Len(s) > 0
    BY <1>4
  <2>f. a[1] = s[1]
    BY <1>1, <2>2
  <2>3. a[1].type = "RegisterHost" <=> o # n
    BY <2>1, <2>f
  <2>4. ASSUME NEW i \in 1 .. (Len(a) - 1)
        PROVE  a[i + 1].type = "RegisterHost" <=> a[i].type = "UnregisterHost"
    <3>1. CASE i = Len(s)
      BY <1>1, <2>1, <2>2, <3>1
    <3>2. CASE i # Len(s)
      <4>1. i \in 1 .. (Len(s) - 1) /\ i \in 1 .. Len(s) /\ i + 1 \in 1 .. Len(s)
        BY <1>1, <3>2
      <4>2. a[i] = s[i] /\ a[i + 1] = s[i + 1]
        BY <1>1, <4>1
      <4> QED BY <2>1, <4>1, <4>2
    <3> QED BY <3>1, <3>2
  <2>5. Replays(a, n, o, rec, r2)
    BY <1>1, <1>2, <2>3, <2>4 DEF Replays
  <2> QED BY <2>5 DEF a
<1> QED BY <1>3, <1>4

\* The handler reads the first message of connection n and does as it says.
LEMMA TailReplay ==
    ASSUME NEW s \in Seq(Message), s # <<>>, NEW n \in Conns,
           NEW o, NEW o2, NEW rec, NEW rec2, NEW r,
           Replays(s, n, o, rec, r),
           LET m == Head(s)
           IN  \/ m.type = "RegisterHost" /\ o2 = n /\ rec2 = m.ad
               \/ m.type = "UpdateHost" /\ o = n /\ o2 = n /\ rec2 = m.ad
               \/ m.type = "UnregisterHost" /\ o = n /\ o2 = NONE /\ rec2 = NONE
               \/ m.type # "RegisterHost" /\ o # n /\ o2 = o /\ rec2 = rec
    PROVE  Replays(Tail(s), n, o2, rec2, r)
<1> DEFINE t == Tail(s)
           m == s[1]
<1>1. /\ Head(s) = m /\ Len(s) \in Nat /\ Len(s) > 0 /\ t \in Seq(Message)
      /\ Len(t) = Len(s) - 1 /\ \A i \in 1 .. Len(t) : t[i] = s[i + 1]
  OBVIOUS
<1>n. NONE # n
  BY OwnerAssumption
<1>2. /\ m.type = "RegisterHost" <=> o # n
      /\ \A i \in 1 .. (Len(s) - 1) :
           s[i + 1].type = "RegisterHost" <=> s[i].type = "UnregisterHost"
      /\ IF r = NONE THEN s[Len(s)].type = "UnregisterHost"
         ELSE s[Len(s)].type # "UnregisterHost" /\ s[Len(s)].ad = r
  BY DEF Replays
<1>3. /\ m.type = "UnregisterHost" <=> o2 # n
      /\ m.type # "UnregisterHost" => rec2 = m.ad
  <2> HIDE DEF m
  <2>1. m.type = "RegisterHost" => m.type # "UnregisterHost"
    OBVIOUS
  <2> QED BY <1>1, <1>2, <1>n, <2>1
<1> HIDE DEF t
<1>4. CASE t = <<>>
  <2>1. Len(s) = 1
    BY <1>1, <1>4
  <2>2. IF r = NONE THEN o2 # n ELSE o2 = n /\ rec2 = r
    BY <1>2, <1>3, <2>1
  <2>3. Replays(t, n, o2, rec2, r)
    BY <1>4, <2>2 DEF Replays
  <2> QED BY <2>3 DEF t
<1>5. CASE t # <<>>
  <2>1. Len(t) > 0 /\ Len(t) \in Nat
    BY <1>1, <1>5
  <2>2. t[1] = s[2] /\ t[Len(t)] = s[Len(s)] /\ 1 \in 1 .. (Len(s) - 1)
    BY <1>1, <2>1
  <2>a. s[2].type = "RegisterHost" <=> m.type = "UnregisterHost"
    BY <1>2, <2>2
  <2>3. t[1].type = "RegisterHost" <=> o2 # n
    BY <1>3, <2>2, <2>a
  <2>4. ASSUME NEW i \in 1 .. (Len(t) - 1)
        PROVE  t[i + 1].type = "RegisterHost" <=> t[i].type = "UnregisterHost"
    <3>1. i \in 1 .. Len(t) /\ i + 1 \in 1 .. Len(t) /\ i + 1 \in 1 .. (Len(s) - 1)
      BY <1>1, <2>1
    <3>2. t[i] = s[i + 1] /\ t[i + 1] = s[i + 1 + 1]
      BY <1>1, <3>1
    <3> QED BY <1>2, <3>1, <3>2
  <2>l. IF r = NONE THEN t[Len(t)].type = "UnregisterHost"
        ELSE t[Len(t)].type # "UnregisterHost" /\ t[Len(t)].ad = r
    BY <1>2, <2>2
  <2>5. Replays(t, n, o2, rec2, r)
    BY <1>5, <2>3, <2>4, <2>l DEF Replays
  <2> QED BY <2>5 DEF t
<1> QED BY <1>4, <1>5

\* A step of the node: a new connection starts with a clean listing, and what
\* is written over the one in use keeps up with the registration.
LEMMA ListingOfNode ==
    ASSUME RendezvousTypeOK, NodeTypeOK', RegistrationInv, ListingInv, NodeStep
    PROVE  ListingInv'
<1>t. /\ stream \in [Conns -> Seq(Message)] /\ epoch \in Nat /\ server \in {0, epoch}
      /\ link \in [Conns -> {"unused", "up", "silent", "closed"}]
      /\ owner \in [{Me} -> Conns \cup {NONE}] /\ (server # 0 => server \in Conns)
  BY DEF RendezvousTypeOK, NodeTypeOK, ConnTypeOK, RegistrationInv
<1>c. \A n \in Conns : n \in Nat
  BY DEF Conns
<1>1. /\ Next /\ UNCHANGED <<presence, owner, record, late>>
      /\ stream' = [n \in Conns |->
                      IF remote'[n] # remote[n] /\ link[n] # "closed"
                        THEN Append(stream[n], Written(n)) ELSE stream[n]]
  BY DEF NodeStep, serverVars
<1>2. \A n \in Conns : remote'[n] = remote[n] => stream'[n] = stream[n]
  BY <1>1
<1>3. CASE Connect
  <2>1. /\ epoch' = epoch + 1 /\ server' = epoch + 1 /\ remote' = remote
        /\ link' = [link EXCEPT ![epoch + 1] = "up"] /\ epoch + 1 \in Conns
    BY <1>t, <1>3, NodeAssumption DEF Connect, Conns
  <2>2. stream' = stream
    BY <1>t, <1>1, <2>1
  <2>3. /\ remote[epoch + 1] = NONE /\ link[epoch + 1] = "unused"
        /\ stream[epoch + 1] = <<>> /\ presence[epoch + 1] = "away"
    <3>1. epoch + 1 > epoch
      BY <1>t
    <3>2. link[epoch + 1] = "unused" /\ stream[epoch + 1] = <<>>
      BY <2>1, <3>1 DEF ListingInv
    <3>3. remote[epoch + 1] = NONE
      BY <2>1, <3>1 DEF RegistrationInv
    <3> QED BY <2>1, <3>2, <3>3 DEF ListingInv
  <2>4. owner[Me] # epoch + 1
    BY <2>1, <2>3, OwnerAssumption DEF ListingInv
  <2>5. Replays(stream'[server'], server', owner'[Me], record'[Me], remote'[server'])
    BY <1>1, <2>1, <2>2, <2>3, <2>4 DEF Replays
  <2>6. ASSUME NEW n \in Conns
        PROVE  /\ n > epoch' => link'[n] = "unused" /\ stream'[n] = <<>>
               /\ presence'[n] # "away" => link'[n] # "unused"
    <3>1. CASE n = epoch + 1
      <4>1. link'[n] = "up" /\ ~(n > epoch')
        BY <1>t, <2>1, <3>1
      <4> QED BY <4>1
    <3>2. CASE n # epoch + 1
      <4>1. link'[n] = link[n] /\ stream'[n] = stream[n] /\ presence'[n] = presence[n]
        BY <1>t, <1>1, <2>1, <2>2, <3>2
      <4>2. n > epoch' => n > epoch
        BY <1>t, <1>c, <2>1
      <4> QED BY <4>1, <4>2 DEF ListingInv
    <3> QED BY <3>1, <3>2
  <2> QED BY <1>1, <2>5, <2>6 DEF ListingInv
<1>4. ASSUME epoch' = epoch, server' \in {0, server},
             \A n \in Conns : remote'[n] # remote[n] => n = server,
             \A n \in Conns : \/ link'[n] = link[n]
                              \/ link[n] # "unused" /\ link'[n] \in {"silent", "closed"}
      PROVE  ListingInv'
  <2>1. ASSUME NEW n \in Conns, n > epoch PROVE remote'[n] = remote[n]
    <3>1. n # server
      BY <1>t, <1>c, <2>1
    <3> QED BY <1>4, <3>1
  <2>2. \A n \in Conns : n > epoch' => link'[n] = "unused" /\ stream'[n] = <<>>
    BY <1>2, <1>4, <2>1 DEF ListingInv
  <2>3. \A n \in Conns : presence'[n] # "away" => link'[n] # "unused"
    BY <1>1, <1>4 DEF ListingInv
  <2>4. ASSUME server' # 0, link'[server'] = "up", ~late'
        PROVE  Replays(stream'[server'], server', owner'[Me], record'[Me], remote'[server'])
    <3>1. server' = server /\ server \in Conns /\ link[server] = "up" /\ ~late
      BY <1>t, <1>1, <1>4, <2>4
    <3>2. Replays(stream[server], server, owner[Me], record[Me], remote[server])
      BY <1>t, <3>1, <2>4 DEF ListingInv
    <3>3. CASE remote'[server] = remote[server]
      BY <1>1, <1>2, <3>1, <3>2, <3>3
    <3>4. CASE remote'[server] # remote[server]
      <4>1. stream'[server] = Append(stream[server], Written(server))
        BY <1>1, <3>1, <3>4
      <4>2. /\ Written(server) \in Message
            /\ Written(server).type = "UnregisterHost" <=> remote'[server] = NONE
            /\ remote'[server] # NONE =>
                 /\ Written(server).ad = remote'[server]
                 /\ Written(server).type = "RegisterHost" <=> remote[server] = NONE
        BY <3>1, WrittenTypes
      <4>3. Written(server).type = "RegisterHost" <=> remote[server] = NONE
        BY <3>4, <4>2
      <4>4. stream[server] \in Seq(Message)
        BY <1>t, <3>1
      <4>5. Replays(Append(stream[server], Written(server)), server, owner[Me], record[Me],
                    remote'[server])
        BY <3>2, <3>4, <4>2, <4>3, <4>4, AppendReplay
      <4> QED BY <1>1, <3>1, <4>1, <4>5
    <3> QED BY <3>3, <3>4
  <2> QED BY <1>1, <2>2, <2>3, <2>4 DEF ListingInv
<1> QED BY <1>1, <1>3, <1>4, NodeEffect DEF RendezvousTypeOK

\* A step of the server or of the network: the connection in use is read in
\* the order in which it was written, and an old one that takes the listing
\* from it is late.
LEMMA ListingOfServer ==
    ASSUME RendezvousTypeOK, ListingInv, NEW n \in Conns,
           Loses(n) \/ Accepts(n) \/ Receives(n) \/ Drops(n)
    PROVE  ListingInv'
<1>t. /\ stream \in [Conns -> Seq(Message)] /\ epoch \in 0 .. MaxConns /\ server \in {0, epoch}
      /\ link \in [Conns -> {"unused", "up", "silent", "closed"}]
      /\ presence \in [Conns -> {"away", "here", "gone"}]
      /\ owner \in [{Me} -> Conns \cup {NONE}] /\ late \in BOOLEAN
  BY DEF RendezvousTypeOK, NodeTypeOK, ConnTypeOK
<1>c. n \in Nat /\ n # NONE /\ (server # 0 => server \in Conns /\ server \in Nat /\ server # NONE)
      /\ MaxConns \in Nat
  BY <1>t, OwnerAssumption, NodeAssumption DEF Conns
<1>v. UNCHANGED <<epoch, server, link, remote>>
  BY DEF Loses, Accepts, Receives, Drops, vars, connVars, hostVars
<1>1. CASE Loses(n)
  <2>1. /\ stream' \in [Conns -> Seq(Message)] /\ stream[n] # <<>> /\ link[n] # "up"
        /\ \A c \in Conns : c # n => stream'[c] = stream[c]
        /\ UNCHANGED <<presence, owner, record, late>>
    BY <1>1, LosesEffect DEF serverVars
  <2>2. \A c \in Conns : c > epoch => stream'[c] = <<>>
    BY <2>1 DEF ListingInv
  <2> QED BY <1>c, <1>v, <2>1, <2>2 DEF ListingInv
<1>2. CASE Accepts(n)
  <2>1. /\ presence' = [presence EXCEPT ![n] = "here"] /\ link[n] # "unused"
        /\ UNCHANGED <<stream, owner, record, late>>
    BY <1>2 DEF Accepts, Directory!Arrive, Directory!listing
  <2>2. /\ \A c \in Conns : presence'[c] # "away" => link[c] # "unused"
        /\ owner[Me] # NONE => presence'[owner[Me]] = "here"
    BY <1>t, <2>1 DEF ListingInv
  <2> QED BY <1>v, <2>1, <2>2 DEF ListingInv
<1>3. CASE Receives(n)
  <2>1. /\ presence[n] = "here" /\ UNCHANGED presence
        /\ stream[n] # <<>> /\ stream' = [stream EXCEPT ![n] = Tail(stream[n])]
        /\ LET m == Head(stream[n])
           IN  \/ m.type = "RegisterHost" /\ owner'[Me] = n /\ record'[Me] = m.ad
               \/ /\ m.type = "UpdateHost" /\ owner[Me] = n
                  /\ owner'[Me] = n /\ record'[Me] = m.ad
               \/ /\ m.type = "UnregisterHost" /\ owner[Me] = n
                  /\ owner'[Me] = NONE /\ record'[Me] = NONE
               \/ m.type # "RegisterHost" /\ owner[Me] # n /\ UNCHANGED <<owner, record>>
    BY <1>3, ReceiveEffect
  <2>2. /\ owner'[Me] \in {n, NONE, owner[Me]}
        /\ owner'[Me] = NONE => record'[Me] = NONE
        /\ owner'[Me] # n => owner[Me] = n \/ UNCHANGED <<owner, record>>
    BY <1>c, <2>1 DEF ListingInv
  <2>3. \A c \in Conns : c > epoch => stream'[c] = <<>>
    BY <1>t, <2>1 DEF ListingInv
  <2>4. owner'[Me] # NONE => presence'[owner'[Me]] = "here"
    BY <2>1, <2>2 DEF ListingInv
  <2>5. ASSUME server # 0, link[server] = "up", ~late'
        PROVE  Replays(stream'[server], server, owner'[Me], record'[Me], remote[server])
    <3>1. /\ late' = (late \/ (owner'[Me] = n /\ owner[Me] \in (n + 1) .. MaxConns))
          /\ ~late
      BY <1>3, <2>5 DEF Receives
    <3>2. Replays(stream[server], server, owner[Me], record[Me], remote[server])
      BY <2>5, <3>1 DEF ListingInv
    <3>3. CASE n = server
      <4>1. stream'[server] = Tail(stream[server]) /\ stream[server] \in Seq(Message)
        BY <1>t, <2>1, <3>3
      <4>2. Replays(Tail(stream[server]), server, owner'[Me], record'[Me], remote[server])
        BY <2>1, <3>2, <3>3, <4>1, TailReplay
      <4> QED BY <4>1, <4>2
    <3>4. CASE n # server
      <4>1. stream'[server] = stream[server]
        BY <1>t, <1>c, <2>1, <2>5, <3>4
      <4>2. n < server /\ server <= MaxConns
        <5>1. ~(n > epoch)
          BY <2>1 DEF ListingInv
        <5>2. server = epoch
          BY <1>t, <2>5
        <5> QED BY <1>t, <1>c, <3>4, <5>1, <5>2
      <4>i. server \in (n + 1) .. MaxConns
        BY <1>c, <2>5, <4>2
      <4>3. owner'[Me] = n => owner[Me] # server
        <5> SUFFICES ASSUME owner'[Me] = n, owner[Me] = server PROVE FALSE
          OBVIOUS
        <5>1. late'
          BY <3>1, <4>i
        <5> QED BY <2>5, <5>1
      <4>4. owner[Me] = server <=> owner'[Me] = server
        BY <1>c, <2>2, <2>5, <3>4, <4>3
      <4>5. owner[Me] = server => record'[Me] = record[Me]
        BY <2>2, <3>4, <4>4
      <4> QED BY <3>2, <4>1, <4>4, <4>5, OtherReplay
    <3> QED BY <3>3, <3>4
  <2> QED BY <1>v, <2>1, <2>2, <2>3, <2>4, <2>5 DEF ListingInv
<1>4. CASE Drops(n)
  <2>1. /\ presence[n] = "here" /\ presence' = [presence EXCEPT ![n] = "gone"]
        /\ IF owner[Me] = n THEN owner'[Me] = NONE /\ record'[Me] = NONE
           ELSE owner'[Me] = owner[Me] /\ record'[Me] = record[Me]
    BY <1>4, DropEffect
  <2>2. UNCHANGED <<stream, late>> /\ (link[n] = "up" => n # server)
    BY <1>4 DEF Drops, HandlerStops, ClosedByNode
  <2>3. /\ \A c \in Conns : presence'[c] # "away" => link[c] # "unused"
        /\ owner'[Me] # NONE => presence'[owner'[Me]] = "here"
        /\ owner'[Me] = NONE => record'[Me] = NONE
    BY <1>t, <2>1 DEF ListingInv
  <2>4. ASSUME server # 0, link[server] = "up", ~late
        PROVE  Replays(stream[server], server, owner'[Me], record'[Me], remote[server])
    <3>1. Replays(stream[server], server, owner[Me], record[Me], remote[server])
      BY <2>4 DEF ListingInv
    <3>2. n # server
      BY <2>2, <2>4
    <3>3. /\ owner[Me] = server <=> owner'[Me] = server
          /\ owner[Me] = server => record'[Me] = record[Me]
      BY <1>c, <2>1, <2>4, <3>2
    <3> QED BY <3>1, <3>3, OtherReplay
  <2> QED BY <1>v, <2>2, <2>3, <2>4 DEF ListingInv
<1> QED BY <1>1, <1>2, <1>3, <1>4

\* Each step of the node, the network and the server keeps ListingInv.
LEMMA ListingStep ==
    ASSUME RendezvousTypeOK, NodeTypeOK', RegistrationInv, ListingInv, [RendezvousNext]_rvars
    PROVE  ListingInv'
<1>1. CASE UNCHANGED rvars
  <2>1. UNCHANGED <<epoch, server, link, remote, stream, presence, owner, record, late>>
    BY <1>1 DEF rvars, serverVars, vars, connVars, hostVars
  <2> QED BY <2>1 DEF ListingInv
<1> QED BY <1>1, ListingOfNode, ListingOfServer DEF RendezvousNext

\* Once the connection in use works, everything written is read and the old
\* connections are gone, the server lists what the loop believes it does,
\* unless an old connection's RegisterHost was read after a newer one's:
\* RegistrationsAreListed holds for any number of connections and faults.
THEOREM RegistrationsListed == RendezvousSpec => []RegistrationsAreListed
<1>1. RendezvousInit => ListingInv
  BY DEF RendezvousInit, Init, Directory!DirectoryInit, ListingInv
<1>2. RendezvousSpec => []ListingInv
  BY <1>1, ListingStep, RendezvousTypeCorrect, NodeOfRendezvous, NodeTypeCorrect,
     RegistrationInvariant, PTL DEF RendezvousSpec
<1>3. RendezvousTypeOK /\ RegistrationInv /\ ListingInv => RegistrationsAreListed
  <2> SUFFICES ASSUME RendezvousTypeOK, RegistrationInv, ListingInv, Settled, ~late
               PROVE  record[Me] = registered_advertisement
    BY DEF RegistrationsAreListed
  <2>1. /\ owner[Me] \in Conns \cup {NONE} /\ server # 0 /\ server \in Conns
        /\ remote[server] = registered_advertisement
    BY DEF RendezvousTypeOK, RegistrationInv, RegistrationIsKnown, Settled
  <2>2. /\ stream[server] = <<>>
        /\ Replays(stream[server], server, owner[Me], record[Me], remote[server])
    BY <2>1 DEF Settled, ListingInv
  <2>3. IF remote[server] = NONE THEN owner[Me] # server
        ELSE owner[Me] = server /\ record[Me] = remote[server]
    BY <2>2 DEF Replays
  <2>4. owner[Me] # NONE => presence[owner[Me]] = "here" /\ owner[Me] \in Conns
    BY <2>1 DEF ListingInv
  <2>5. owner[Me] \in {NONE, server}
    BY <2>4 DEF Settled, ListingInv
  <2> QED BY <2>1, <2>3, <2>5 DEF ListingInv
<1> QED BY <1>2, <1>3, RendezvousTypeCorrect, NodeOfRendezvous, RegistrationInvariant, PTL

-----------------------------------------------------------------------------
(* The server's side is a host directory.                                  *)

\* Whatever the node and the network do, the server's side of the composition
\* is HostDirectory, the specification that RendezvousServer implements: the
\* composition asks of the server nothing that the server does not do.
THEOREM ServerIsDirectory == RendezvousSpec => Directory!DirectorySpec
<1>1. RendezvousInit => Directory!DirectoryInit
  BY DEF RendezvousInit
<1>2. RendezvousTypeOK /\ [RendezvousNext]_rvars
        => [Directory!DirectoryNext]_(Directory!directoryVars)
  <2> SUFFICES ASSUME RendezvousTypeOK, [RendezvousNext]_rvars
               PROVE  [Directory!DirectoryNext]_(Directory!directoryVars)
    OBVIOUS
  <2>1. ASSUME NEW n \in Conns, Receives(n) PROVE Directory!DirectoryNext
    <3> DEFINE m == Head(stream[n])
    <3>1. m \in Message /\ Handle(n, m)
      BY <2>1, ReceiveEffect DEF Receives
    <3> HIDE DEF m
    <3>2. m.type # "UnregisterHost" => m.ad \in Ads
      BY <3>1, MessageTypes
    <3> QED BY <3>1, <3>2 DEF Handle, Directory!DirectoryNext
  <2>2. ASSUME NEW n \in Conns, Accepts(n) \/ Drops(n) PROVE Directory!DirectoryNext
    BY <2>2 DEF Accepts, Drops, Directory!DirectoryNext
  <2>3. CASE NodeStep \/ UNCHANGED rvars \/ \E n \in Conns : Loses(n)
    BY <2>3 DEF NodeStep, Loses, rvars, serverVars, Directory!directoryVars
  <2> QED BY <2>1, <2>2, <2>3 DEF RendezvousNext
<1> QED BY <1>1, <1>2, RendezvousTypeCorrect, PTL DEF RendezvousSpec, Directory!DirectorySpec
=============================================================================
