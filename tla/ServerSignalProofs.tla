------------------------- MODULE ServerSignalProofs -------------------------
(***************************************************************************)
(* Proofs about the signals that the rendezvous server relays: they are    *)
(* kept in order and wait at the peer they are for.                        *)
(***************************************************************************)
EXTENDS RendezvousServerProofs

-----------------------------------------------------------------------------
(* Sequences of messages.                                                  *)

Elems(s) == {s[i] : i \in 1 .. Len(s)}

\* What SignalsInOrder says of one channel.
Ordered(s) ==
    \A i, j \in 1 .. Len(s) :
      (/\ i < j
       /\ s[i].type = "Signal" /\ s[j].type = "Signal"
       /\ s[i].data.from = s[j].data.from)
      => s[i].data.frame < s[j].data.frame

\* A Signal of ServerMessage has a connection id and a payload.
LEMMA SignalTypes ==
    ASSUME NEW m \in ServerMessage, m.type = "Signal"
    PROVE  /\ m.connection_id \in Keys
           /\ m.data \in Payload
           /\ m.data.from \in Conns /\ m.data.frame \in Nat
           /\ m.data.target \in HostIds \cup {0}
<1>1. m \in [type : {"Signal"}, connection_id : Keys, data : Payload]
  BY DEF ServerMessage
<1> QED BY <1>1 DEF Payload

\* Nothing waits in an empty channel.
LEMMA EmptyElems == Elems(<<>>) = {} /\ Ordered(<<>>)
  BY DEF Elems, Ordered

\* What one message to send looks like as a sequence.
LEMMA SingletonElems ==
    ASSUME NEW x
    PROVE  Elems(<<x>>) = {x} /\ Len(<<x>>) = 1
  BY DEF Elems

\* The writer takes the first message of its channel: what is left was there
\* and is still in order.
LEMMA TailElems ==
    ASSUME NEW S, NEW s \in Seq(S), s # <<>>
    PROVE  /\ Elems(Tail(s)) \subseteq Elems(s)
           /\ Len(s) = 1 => Elems(Tail(s)) = {}
           /\ Head(s) \in Elems(s)
           /\ Ordered(s) => Ordered(Tail(s))
<1>1. /\ Len(Tail(s)) = Len(s) - 1 /\ Len(s) \in Nat /\ Len(s) > 0
      /\ \A i \in 1 .. Len(Tail(s)) : Tail(s)[i] = s[i + 1] /\ i + 1 \in 1 .. Len(s)
  OBVIOUS
<1>2. Elems(Tail(s)) \subseteq Elems(s)
  BY <1>1 DEF Elems
<1>3. Len(s) = 1 => Elems(Tail(s)) = {}
  BY <1>1 DEF Elems
<1>4. Head(s) = s[1] /\ 1 \in 1 .. Len(s)
  BY <1>1
<1>5. ASSUME Ordered(s) PROVE Ordered(Tail(s))
  <2> SUFFICES ASSUME NEW i \in 1 .. Len(Tail(s)), NEW j \in 1 .. Len(Tail(s)), i < j,
                      Tail(s)[i].type = "Signal", Tail(s)[j].type = "Signal",
                      Tail(s)[i].data.from = Tail(s)[j].data.from
               PROVE  Tail(s)[i].data.frame < Tail(s)[j].data.frame
    BY DEF Ordered
  <2>1. Tail(s)[i] = s[i + 1] /\ Tail(s)[j] = s[j + 1]
    BY <1>1
  <2>2. i + 1 \in 1 .. Len(s) /\ j + 1 \in 1 .. Len(s) /\ i + 1 < j + 1
    BY <1>1
  <2> QED BY <1>5, <2>1, <2>2 DEF Ordered
<1> QED BY <1>2, <1>3, <1>4, <1>5 DEF Elems

\* send_to adds a message that is newer than those that wait from its sender.
LEMMA AppendElems ==
    ASSUME NEW S, NEW s \in Seq(S), NEW m \in S
    PROVE  /\ Elems(Append(s, m)) = Elems(s) \cup {m}
           /\ (/\ Ordered(s)
               /\ \A x \in Elems(s) :
                    x.type = "Signal" /\ m.type = "Signal" /\ x.data.from = m.data.from
                      => x.data.frame < m.data.frame)
              => Ordered(Append(s, m))
<1> DEFINE t == Append(s, m)
<1>1. /\ Len(t) = Len(s) + 1 /\ Len(s) \in Nat
      /\ \A i \in 1 .. Len(s) : t[i] = s[i]
      /\ t[Len(s) + 1] = m
  OBVIOUS
<1> HIDE DEF t
<1>2. 1 .. Len(t) = (1 .. Len(s)) \cup {Len(s) + 1}
  BY <1>1
<1>3. Elems(t) = Elems(s) \cup {m}
  BY <1>1, <1>2 DEF Elems
<1>4. ASSUME Ordered(s),
             \A x \in Elems(s) :
               x.type = "Signal" /\ m.type = "Signal" /\ x.data.from = m.data.from
                 => x.data.frame < m.data.frame
      PROVE  Ordered(t)
  <2> SUFFICES ASSUME NEW i \in 1 .. Len(t), NEW j \in 1 .. Len(t), i < j,
                      t[i].type = "Signal", t[j].type = "Signal",
                      t[i].data.from = t[j].data.from
               PROVE  t[i].data.frame < t[j].data.frame
    BY DEF Ordered
  <2>1. i \in 1 .. Len(s) /\ t[i] = s[i]
    BY <1>1
  <2>2. CASE j \in 1 .. Len(s)
    BY <1>1, <1>4, <2>1, <2>2 DEF Ordered
  <2>3. CASE j = Len(s) + 1
    BY <1>1, <1>4, <2>1, <2>3 DEF Elems
  <2> QED BY <1>2, <2>2, <2>3
<1> QED BY <1>3, <1>4 DEF t

-----------------------------------------------------------------------------
(* What a step does to the messages.                                       *)

\* The handler of c reads a message that is no Signal, and answers it or not.
Answers(c) ==
    /\ todo[c] = <<>>
    /\ frames' = [frames EXCEPT ![c] = @ + 1]
    /\ \/ todo' = todo
       \/ \E x : x.msg.type # "Signal" /\ todo' = [todo EXCEPT ![c] = <<x>>]
    /\ UNCHANGED chan

\* The writer of c takes a message, or stops and drops them all.
Shrinks(c) ==
    /\ \/ chan' = [chan EXCEPT ![c] = <<>>]
       \/ chan[c] # <<>> /\ chan' = [chan EXCEPT ![c] = Tail(@)]
    /\ UNCHANGED <<todo, frames>>

\* Each step reads a message, relays a signal, opens a session, hands a message
\* to a writer, takes messages away from one, or does none of this.
LEMMA MessageSteps ==
    ASSUME [Next]_vars
    PROVE  \/ \E c \in Conns : Answers(c) \/ AllocateSession(c) \/ SendTo(c) \/ Shrinks(c)
           \/ \E c \in Conns, t \in HostIds \cup {0}, k \in ConnIds : Signal(c, t, k)
           \/ UNCHANGED <<todo, chan, frames>>
<1>1. ASSUME NEW c \in Conns, NEW a, NEW m, m.type # "Signal",
             todo' = [todo EXCEPT ![c] = <<To(a, m)>>]
      PROVE  \E x : x.msg.type # "Signal" /\ todo' = [todo EXCEPT ![c] = <<x>>]
  <2>1. To(a, m).msg = m
    BY DEF To
  <2> QED BY <1>1, <2>1
<1>2. ASSUME NEW c \in Conns, Ping(c) PROVE Answers(c)
  <2>1. /\ todo[c] = <<>> /\ frames' = [frames EXCEPT ![c] = @ + 1] /\ chan' = chan
        /\ todo' = [todo EXCEPT ![c] = <<To(AddrOf[c], [type |-> "Pong"])>>]
    BY <1>2 DEF Ping, Reads, Selecting, outVars
  <2>2. [type |-> "Pong"].type # "Signal"
    OBVIOUS
  <2> QED BY <1>1, <2>1, <2>2 DEF Answers
<1>3. ASSUME NEW c \in Conns, ListHosts(c) PROVE Answers(c)
  <2> DEFINE m == [type |-> "HostList", hosts |-> host_records]
  <2>1. /\ todo[c] = <<>> /\ frames' = [frames EXCEPT ![c] = @ + 1] /\ chan' = chan
        /\ todo' = [todo EXCEPT ![c] = <<To(AddrOf[c], m)>>]
    BY <1>3 DEF ListHosts, Reads, Selecting, outVars
  <2>2. m.type # "Signal"
    OBVIOUS
  <2> HIDE DEF m
  <2> QED BY <1>1, <2>1, <2>2 DEF Answers
<1>4. ASSUME NEW c \in Conns, NEW id \in HostIds, NEW ad \in Ads,
             RegisterHost(c, id, ad)
      PROVE  Answers(c)
  <2> DEFINE m == [type |-> "Registered", sender_id |-> id]
  <2>1. /\ todo[c] = <<>> /\ frames' = [frames EXCEPT ![c] = @ + 1] /\ chan' = chan
        /\ todo' = [todo EXCEPT ![c] = <<To(AddrOf[c], m)>>]
    BY <1>4 DEF RegisterHost, Reads, Selecting, outVars
  <2>2. m.type # "Signal"
    OBVIOUS
  <2> HIDE DEF m
  <2> QED BY <1>1, <2>1, <2>2 DEF Answers
<1>5. ASSUME NEW c \in Conns, NEW id \in HostIds,
             UnregisterHost(c, id) \/ \E ad \in Ads : UpdateHost(c, id, ad)
      PROVE  Answers(c)
  BY <1>5 DEF UnregisterHost, UpdateHost, Reads, Selecting, Answers, outVars
<1>6. ASSUME NEW c \in Conns, NEW id \in HostIds, ConnectRequest(c, id)
      PROVE  Answers(c)
  <2>1. /\ todo[c] = <<>> /\ frames' = [frames EXCEPT ![c] = @ + 1] /\ chan' = chan
        /\ \/ todo' = todo
           \/ todo' = [todo EXCEPT ![c] = <<To(AddrOf[c], [type |-> "Error"])>>]
    BY <1>6 DEF ConnectRequest, Reads, Selecting, outVars
  <2>2. [type |-> "Error"].type # "Signal"
    OBVIOUS
  <2> QED BY <1>1, <2>1, <2>2 DEF Answers
<1>7. ASSUME NEW c \in Conns, Leave(c) \/ WriterSends(c) \/ WriterStops(c)
      PROVE  Shrinks(c)
  BY <1>7 DEF Leave, WriterSends, WriterStops, Shrinks
<1>8. ASSUME NEW c \in Conns,
             \/ Accept(c) \/ PeerCloses(c) \/ PeerVanishes(c) \/ Enter(c) \/ Cleanup(c)
      PROVE  UNCHANGED <<todo, chan, frames>>
  BY <1>8 DEF Accept, PeerCloses, PeerVanishes, Enter, Cleanup, outVars
<1>9. ASSUME NEW c \in Conns, Handles(c)
      PROVE  Answers(c) \/ \E t \in HostIds \cup {0}, k \in ConnIds : Signal(c, t, k)
  BY <1>2, <1>3, <1>4, <1>5, <1>6, <1>9 DEF Handles
<1>10. CASE UNCHANGED vars
  BY <1>10 DEF vars
<1> QED BY <1>7, <1>8, <1>9, <1>10
           DEF Next, ReadEnds, ReadFails, IdleTimeout, WriterDead, WriterFails,
               WriterDrained, Finished

-----------------------------------------------------------------------------
(* Signals stay in order.                                                  *)

\* The signals of c that wait somewhere are older than the message that its
\* handler read last.
SentBefore(c) ==
    \A d \in Conns : \A m \in Elems(chan[d]) :
      m.type = "Signal" /\ m.data.from = c => m.data.frame < frames[c]

\* A handler has at most one signal to send, the message it read last, and
\* nothing that waits is newer than that.
OrderInv ==
    /\ \A d \in Conns : \A m \in Elems(chan[d]) :
         m.type = "Signal" => m.data.frame <= frames[m.data.from]
    /\ \A c \in Conns : \A x \in Elems(todo[c]) :
         x.msg.type = "Signal" =>
           /\ Len(todo[c]) = 1
           /\ x.msg.data.from = c /\ x.msg.data.frame = frames[c]
           /\ SentBefore(c)
    /\ \A d \in Conns : Ordered(chan[d])

\* What waits in a channel is a message of the server.
LEMMA WaitingTypes ==
    ASSUME TypeOK, NEW d \in Conns, NEW m \in Elems(chan[d]), m.type = "Signal"
    PROVE  m \in ServerMessage /\ m.data.from \in Conns /\ m.data.frame \in Nat
<1>1. m \in ServerMessage
  BY DEF TypeOK, Elems
<1> QED BY <1>1, SignalTypes

\* A message that was read makes everything that waits older.
LEMMA ReadingAges ==
    ASSUME TypeOK, OrderInv, NEW c \in Conns, UNCHANGED chan,
           frames' = [frames EXCEPT ![c] = @ + 1]
    PROVE  /\ \A d \in Conns : \A m \in Elems(chan'[d]) :
                m.type = "Signal" => m.data.frame <= frames'[m.data.from]
           /\ SentBefore(c)'
           /\ \A b \in Conns : b # c => SentBefore(b)' = SentBefore(b)
           /\ \A d \in Conns : Ordered(chan'[d])
<1>1. /\ frames \in [Conns -> Nat] /\ frames' \in [Conns -> Nat]
      /\ frames'[c] = frames[c] + 1
      /\ \A b \in Conns : b # c => frames'[b] = frames[b]
  BY DEF TypeOK
<1>2. ASSUME NEW d \in Conns, NEW m \in Elems(chan[d]), m.type = "Signal"
      PROVE  /\ m.data.frame <= frames'[m.data.from]
             /\ m.data.from = c => m.data.frame < frames'[c]
  <2>1. m.data.from \in Conns /\ m.data.frame \in Nat
    BY <1>2, WaitingTypes
  <2>2. m.data.frame <= frames[m.data.from]
    BY <1>2 DEF OrderInv
  <2> QED BY <1>1, <2>1, <2>2
<1>3. SentBefore(c)'
  BY <1>2 DEF SentBefore
<1>4. \A b \in Conns : b # c => SentBefore(b)' = SentBefore(b)
  BY <1>1 DEF SentBefore
<1> QED BY <1>2, <1>3, <1>4 DEF OrderInv

\* Each step of the server keeps OrderInv.
LEMMA OrderStep ==
    ASSUME TypeOK, OrderInv, [Next]_vars
    PROVE  OrderInv'
<1>t. /\ todo \in [Conns -> Seq(Send)] /\ chan \in [Conns -> Seq(ServerMessage)]
      /\ frames \in [Conns -> Nat] /\ clients \in [Addrs -> Conns \cup {NONE}]
  BY DEF TypeOK
<1>1. ASSUME NEW c \in Conns, Answers(c) PROVE OrderInv'
  <2>1. /\ \A d \in Conns : \A m \in Elems(chan'[d]) :
             m.type = "Signal" => m.data.frame <= frames'[m.data.from]
        /\ \A b \in Conns : b # c => SentBefore(b)' = SentBefore(b)
        /\ \A d \in Conns : Ordered(chan'[d])
    BY <1>1, ReadingAges DEF Answers
  <2>2. ASSUME NEW b \in Conns, NEW x \in Elems(todo'[b]), x.msg.type = "Signal"
        PROVE  b # c /\ todo'[b] = todo[b] /\ frames'[b] = frames[b]
    <3>1. CASE todo' = todo
      <4>1. b # c
        BY <1>1, <2>2, <3>1, EmptyElems DEF Answers
      <4> QED BY <1>1, <1>t, <3>1, <4>1 DEF Answers
    <3>2. ASSUME NEW y, y.msg.type # "Signal", todo' = [todo EXCEPT ![c] = <<y>>]
          PROVE  b # c /\ todo'[b] = todo[b] /\ frames'[b] = frames[b]
      <4>1. ASSUME b = c PROVE FALSE
        <5>1. todo'[c] = <<y>>
          BY <1>t, <3>2
        <5>2. x = y
          BY <2>2, <4>1, <5>1, SingletonElems
        <5> QED BY <2>2, <3>2, <5>2
      <4> QED BY <1>1, <1>t, <3>2, <4>1 DEF Answers
    <3> QED BY <1>1, <3>1, <3>2 DEF Answers
  <2>3. \A b \in Conns : \A x \in Elems(todo'[b]) : x.msg.type = "Signal" =>
          /\ Len(todo'[b]) = 1
          /\ x.msg.data.from = b /\ x.msg.data.frame = frames'[b]
          /\ SentBefore(b)'
    BY <2>1, <2>2 DEF OrderInv
  <2> QED BY <2>1, <2>3 DEF OrderInv
<1>2. ASSUME NEW c \in Conns, NEW t \in HostIds \cup {0}, NEW k \in ConnIds,
             Signal(c, t, k)
      PROVE  OrderInv'
  <2> DEFINE line == [from |-> c, frame |-> frames[c] + 1, target |-> t]
             send == To(Route(t, k), [type |-> "Signal", connection_id |-> k,
                                      data |-> line])
  <2>0. send.msg.data.from = c /\ send.msg.data.frame = frames[c] + 1
    BY DEF To
  <2>a. /\ todo[c] = <<>> /\ UNCHANGED chan
        /\ frames' = [frames EXCEPT ![c] = @ + 1]
        /\ todo' = todo \/ todo' = [todo EXCEPT ![c] = <<send>>]
    BY <1>2 DEF Signal, Reads, Selecting, outVars
  <2> HIDE DEF send
  <2>1. /\ \A d \in Conns : \A m \in Elems(chan'[d]) :
             m.type = "Signal" => m.data.frame <= frames'[m.data.from]
        /\ SentBefore(c)'
        /\ \A b \in Conns : b # c => SentBefore(b)' = SentBefore(b)
        /\ \A d \in Conns : Ordered(chan'[d])
    BY <2>a, ReadingAges
  <2>2. ASSUME NEW b \in Conns, NEW x \in Elems(todo'[b]), x.msg.type = "Signal"
        PROVE  /\ Len(todo'[b]) = 1
               /\ x.msg.data.from = b /\ x.msg.data.frame = frames'[b]
               /\ SentBefore(b)'
    <3>1. CASE b # c
      <4>1. todo'[b] = todo[b] /\ frames'[b] = frames[b]
        BY <1>t, <2>a, <3>1
      <4> QED BY <2>1, <2>2, <3>1, <4>1 DEF OrderInv
    <3>2. CASE b = c
      <4>1. todo'[c] = <<send>>
        BY <1>t, <2>a, <2>2, <3>2, EmptyElems
      <4>2. x = send /\ Len(todo'[c]) = 1
        BY <2>2, <3>2, <4>1, SingletonElems
      <4>3. frames'[c] = frames[c] + 1
        BY <1>t, <2>a
      <4> QED BY <2>0, <2>1, <3>2, <4>2, <4>3
    <3> QED BY <3>1, <3>2
  <2> QED BY <2>1, <2>2 DEF OrderInv
<1>3. ASSUME NEW c \in Conns, AllocateSession(c) PROVE OrderInv'
  <2> DEFINE x1 == To(joining[c], [type |-> "IncomingJoin", session_id |-> next_session_id])
             x2 == To(AddrOf[c], [type |-> "JoinAccepted", session_id |-> next_session_id])
  <2>1. x1.msg.type # "Signal" /\ x2.msg.type # "Signal"
    BY DEF To
  <2>2. todo' = [todo EXCEPT ![c] = <<x1, x2>>] /\ UNCHANGED <<chan, frames>>
    BY <1>3 DEF AllocateSession, outVars
  <2> HIDE DEF x1, x2
  <2>3. Elems(<<x1, x2>>) = {x1, x2}
    BY DEF Elems
  <2>4. ASSUME NEW b \in Conns, NEW x \in Elems(todo'[b]), x.msg.type = "Signal"
        PROVE  todo'[b] = todo[b]
    BY <1>t, <2>1, <2>2, <2>3, <2>4
  <2>5. \A b \in Conns : SentBefore(b)' = SentBefore(b)
    BY <2>2 DEF SentBefore
  <2> QED BY <2>2, <2>4, <2>5 DEF OrderInv
<1>4. ASSUME NEW c \in Conns, Shrinks(c) PROVE OrderInv'
  <2>1. ASSUME NEW d \in Conns PROVE Elems(chan'[d]) \subseteq Elems(chan[d]) /\ Ordered(chan'[d])
    <3>1. Ordered(chan[d]) /\ chan[c] \in Seq(ServerMessage)
      BY <1>t DEF OrderInv
    <3>2. CASE chan'[d] = chan[d]
      BY <3>1, <3>2
    <3>3. CASE d = c /\ chan'[c] = <<>>
      BY <3>3, EmptyElems
    <3>4. CASE d = c /\ chan[c] # <<>> /\ chan'[c] = Tail(chan[c])
      BY <3>1, <3>4, TailElems
    <3> QED BY <1>4, <1>t, <3>2, <3>3, <3>4 DEF Shrinks
  <2>2. UNCHANGED <<todo, frames>>
    BY <1>4 DEF Shrinks
  <2>3. \A b \in Conns : SentBefore(b) => SentBefore(b)'
    BY <2>1, <2>2 DEF SentBefore
  <2> QED BY <2>1, <2>2, <2>3 DEF OrderInv
<1>5. ASSUME NEW c \in Conns, SendTo(c) PROVE OrderInv'
  <2> DEFINE x == Head(todo[c])
             e == clients[x.to]
  <2>1. /\ todo[c] \in Seq(Send) /\ todo[c] # <<>> /\ frames' = frames
        /\ todo' = [todo EXCEPT ![c] = Tail(todo[c])]
    BY <1>5, <1>t DEF SendTo
  <2>2. x \in Send /\ x \in Elems(todo[c]) /\ x.msg \in ServerMessage
    <3>1. x \in Send
      BY <2>1
    <3>2. x \in Elems(todo[c])
      BY <2>1, TailElems
    <3> QED BY <3>1, <3>2 DEF Send
  <2>3. chan' = chan \/ (e \in Conns /\ chan' = [chan EXCEPT ![e] = Append(chan[e], x.msg)])
    <3>1. e \in Conns \cup {NONE}
      BY <1>t, <2>2 DEF Send
    <3> QED BY <1>5, <3>1 DEF SendTo, Deliver
  <2> HIDE DEF x, e
  <2>4. x.msg.type = "Signal" =>
          /\ Len(todo[c]) = 1 /\ Elems(Tail(todo[c])) = {}
          /\ x.msg.data.from = c /\ x.msg.data.frame = frames[c]
          /\ SentBefore(c)
    BY <2>1, <2>2, TailElems DEF OrderInv
  <2>5. ASSUME NEW d \in Conns
        PROVE  /\ Elems(chan'[d]) \subseteq Elems(chan[d]) \cup {x.msg}
               /\ Ordered(chan'[d])
    <3>1. chan[d] \in Seq(ServerMessage) /\ Ordered(chan[d])
      BY <1>t DEF OrderInv
    <3>2. CASE chan'[d] = chan[d]
      BY <3>1, <3>2
    <3>3. CASE chan'[d] = Append(chan[d], x.msg)
      <4>1. \A y \in Elems(chan[d]) :
              y.type = "Signal" /\ x.msg.type = "Signal" /\ y.data.from = x.msg.data.from
                => y.data.frame < x.msg.data.frame
        BY <2>4 DEF SentBefore
      <4> QED BY <2>2, <3>1, <3>3, <4>1, AppendElems
    <3> QED BY <1>t, <2>3, <3>2, <3>3
  <2>6. ASSUME NEW d \in Conns, NEW m \in Elems(chan'[d]), m.type = "Signal"
        PROVE  m.data.frame <= frames'[m.data.from]
    <3>1. CASE m \in Elems(chan[d])
      BY <2>1, <2>6, <3>1 DEF OrderInv
    <3>2. CASE m = x.msg
      BY <1>t, <2>1, <2>4, <2>6, <3>2
    <3> QED BY <2>5, <3>1, <3>2
  <2>7. ASSUME NEW b \in Conns, NEW y \in Elems(todo'[b]), y.msg.type = "Signal"
        PROVE  /\ Len(todo'[b]) = 1
               /\ y.msg.data.from = b /\ y.msg.data.frame = frames'[b]
               /\ SentBefore(b)'
    <3>1. b # c
      <4>1. ASSUME b = c PROVE FALSE
        <5>1. y \in Elems(Tail(todo[c])) /\ y \in Elems(todo[c])
          BY <1>t, <2>1, <2>7, <4>1, TailElems
        <5>2. Len(todo[c]) = 1
          BY <2>7, <5>1 DEF OrderInv
        <5>3. Elems(Tail(todo[c])) = {}
          BY <2>1, <5>2, TailElems
        <5> QED BY <5>1, <5>3
      <4> QED BY <4>1
    <3>2. todo'[b] = todo[b] /\ frames'[b] = frames[b]
      BY <1>t, <2>1, <3>1
    <3>3. /\ Len(todo'[b]) = 1
          /\ y.msg.data.from = b /\ y.msg.data.frame = frames'[b]
          /\ SentBefore(b)
      BY <2>7, <3>2 DEF OrderInv
    <3>4. SentBefore(b)'
      <4> SUFFICES ASSUME NEW d \in Conns, NEW m \in Elems(chan'[d]),
                          m.type = "Signal", m.data.from = b
                   PROVE  m.data.frame < frames'[b]
        BY DEF SentBefore
      <4>1. m # x.msg
        BY <2>4, <3>1
      <4>2. m \in Elems(chan[d])
        BY <2>5, <4>1
      <4> QED BY <3>2, <3>3, <4>2 DEF SentBefore
    <3> QED BY <3>3, <3>4
  <2> QED BY <2>5, <2>6, <2>7 DEF OrderInv
<1>6. CASE UNCHANGED <<todo, chan, frames>>
  BY <1>6 DEF OrderInv, SentBefore
<1> QED BY <1>1, <1>2, <1>3, <1>4, <1>5, <1>6, MessageSteps

\* Two signals of one connection that wait for one peer are in the order in
\* which they were read, for any number of connections and messages, although
\* each crosses two critical sections and a channel.
THEOREM SignalsOrdered == Spec => []SignalsInOrder
<1>1. Init => OrderInv
  BY EmptyElems DEF Init, OrderInv
<1>2. OrderInv => SignalsInOrder
  BY DEF OrderInv, Ordered, SignalsInOrder
<1> QED BY <1>1, <1>2, OrderStep, TypeCorrect, PTL DEF Spec

-----------------------------------------------------------------------------
(* Signals reach their peer.                                               *)

\* Message m may wait at the peer with address a.
Fits(a, m) ==
    m.type = "Signal" =>
      IF m.data.target # 0 THEN m.data.target \in Registers[a]
                           ELSE m.connection_id \in Offers[a]

\* The routes that Signal follows lead to the right peer, now and while the
\* message is on its way.
ReachInv ==
    /\ \A id \in HostIds : hosts[id] # NONE => id \in Registers[hosts[id]]
    /\ \A k \in ConnIds : sessions[k] # NONE => k \in Offers[sessions[k].joiner]
    /\ \A c \in Conns : \A x \in Elems(todo[c]) : Fits(x.to, x.msg)
    /\ \A d \in Conns : \A m \in Elems(chan[d]) : Fits(AddrOf[d], m)

\* Each step keeps the routes right: a peer registers its own hosts and opens
\* its own connections, and ConnectRequest takes no WebRTC connection id.
LEMMA RoutesStep ==
    ASSUME ConnIds \cap (1 .. MaxSession) = {}, TypeOK, ReachInv, [Next]_vars
    PROVE  /\ \A id \in HostIds : hosts'[id] # NONE => id \in Registers[hosts'[id]]
           /\ \A k \in ConnIds : sessions'[k] # NONE => k \in Offers[sessions'[k].joiner]
<1> DEFINE HostsOK == \A id \in HostIds : hosts[id] # NONE => id \in Registers[hosts[id]]
           SessionsOK == \A k \in ConnIds :
                           sessions[k] # NONE => k \in Offers[sessions[k].joiner]
<1>t. /\ hosts \in [HostIds -> Addrs \cup {NONE}] /\ HostsOK
      /\ sessions \in [Keys -> Session \cup {NONE}] /\ ConnIds \subseteq Keys /\ SessionsOK
  BY DEF TypeOK, ReachInv, Keys
<1>1. UNCHANGED hosts => HostsOK'
  BY <1>t
<1>2. UNCHANGED sessions => SessionsOK'
  BY <1>t
<1>3. ASSUME NEW c \in Conns, NEW id \in HostIds, NEW ad \in Ads,
             RegisterHost(c, id, ad)
      PROVE  HostsOK' /\ UNCHANGED sessions
  <2>1. /\ id \in Registers[AddrOf[c]] /\ hosts' = [hosts EXCEPT ![id] = AddrOf[c]]
        /\ UNCHANGED sessions
    BY <1>3 DEF RegisterHost, sessVars
  <2> QED BY <1>t, <2>1
<1>4. ASSUME NEW c \in Conns, NEW id \in HostIds, UnregisterHost(c, id)
      PROVE  HostsOK' /\ UNCHANGED sessions
  <2>1. /\ hosts' = hosts \/ hosts' = [hosts EXCEPT ![id] = NONE]
        /\ UNCHANGED sessions
    BY <1>4 DEF UnregisterHost, hostVars, sessVars
  <2> QED BY <1>t, <2>1
<1>5. ASSUME NEW c \in Conns, AllocateSession(c)
      PROVE  UNCHANGED hosts /\ SessionsOK'
  <2>1. /\ next_session_id \notin ConnIds /\ UNCHANGED hosts
        /\ \E v : sessions' = [sessions EXCEPT ![next_session_id] = v]
    <3>1. next_session_id \in 1 .. MaxSession
      <4>1. next_session_id \in 1 .. (MaxSession + 1) /\ next_session_id <= MaxSession
        BY <1>5 DEF AllocateSession, TypeOK
      <4> QED BY <4>1, ConstantsAssumption
    <3> QED BY <1>5, <3>1 DEF AllocateSession, hostVars
  <2>2. \A k \in ConnIds : sessions'[k] = sessions[k]
    BY <1>t, <2>1
  <2> QED BY <1>t, <2>1, <2>2
<1>6. ASSUME NEW c \in Conns, NEW t \in HostIds \cup {0}, NEW k \in ConnIds,
             Signal(c, t, k)
      PROVE  UNCHANGED hosts /\ SessionsOK'
  <2>1. /\ UNCHANGED hosts
        /\ \/ sessions' = sessions
           \/ /\ k \in Offers[AddrOf[c]]
              /\ sessions' = [sessions EXCEPT
                                ![k] = [joiner |-> AddrOf[c], host |-> Route(t, k)]]
    BY <1>6 DEF Signal, hostVars
  <2> QED BY <1>t, <2>1
<1>7. ASSUME NEW c \in Conns, Cleanup(c) PROVE HostsOK' /\ SessionsOK'
  <2>1. /\ \A id \in HostIds : hosts'[id] \in {NONE, hosts[id]}
        /\ \A k \in Keys : sessions'[k] \in {NONE, sessions[k]}
    BY <1>7 DEF Cleanup
  <2> QED BY <1>t, <2>1
<1>8. ASSUME NEW c \in Conns, Handles(c)
      PROVE  \/ \E id \in HostIds, ad \in Ads : RegisterHost(c, id, ad)
             \/ \E id \in HostIds : UnregisterHost(c, id)
             \/ \E t \in HostIds \cup {0}, k \in ConnIds : Signal(c, t, k)
             \/ UNCHANGED <<hosts, sessions>>
  BY <1>8 DEF Handles, Ping, UpdateHost, ListHosts, ConnectRequest, hostVars, sessVars
<1>9. ASSUME NEW c \in Conns,
             \/ Accept(c) \/ PeerCloses(c) \/ PeerVanishes(c) \/ Enter(c) \/ SendTo(c)
             \/ Leave(c) \/ WriterSends(c) \/ WriterStops(c)
      PROVE  UNCHANGED <<hosts, sessions>>
  BY <1>9 DEF Accept, PeerCloses, PeerVanishes, Enter, SendTo, Leave, WriterSends,
     WriterStops, hostVars, sessVars
<1>10. UNCHANGED vars => UNCHANGED <<hosts, sessions>>
  BY DEF vars
<1> HIDE DEF HostsOK, SessionsOK
<1>h. ASSUME NEW c \in Conns, Handles(c) PROVE HostsOK' /\ SessionsOK'
  BY <1>1, <1>2, <1>3, <1>4, <1>6, <1>8, <1>h
<1>11. HostsOK' /\ SessionsOK'
  <2>1. ASSUME NEW c \in Conns, AllocateSession(c) PROVE HostsOK' /\ SessionsOK'
    BY <1>1, <1>5, <2>1
  <2>2. UNCHANGED <<hosts, sessions>> => HostsOK' /\ SessionsOK'
    BY <1>1, <1>2
  <2> QED BY <1>7, <1>9, <1>10, <1>h, <2>1, <2>2
     DEF Next, ReadEnds, ReadFails, IdleTimeout, WriterDead, WriterFails,
         WriterDrained, Finished
<1> QED BY <1>11 DEF HostsOK, SessionsOK

\* Each step of the server keeps ReachInv.
LEMMA ReachStep ==
    ASSUME ConnIds \cap (1 .. MaxSession) = {}, TypeOK, ChannelsAreServed,
           ReachInv, [Next]_vars
    PROVE  ReachInv'
<1>t. /\ todo \in [Conns -> Seq(Send)] /\ chan \in [Conns -> Seq(ServerMessage)]
      /\ clients \in [Addrs -> Conns \cup {NONE}]
      /\ hosts \in [HostIds -> Addrs \cup {NONE}]
      /\ sessions \in [Keys -> Session \cup {NONE}] /\ ConnIds \subseteq Keys
  BY DEF TypeOK, Keys
<1> DEFINE TodoOK == \A c \in Conns : \A x \in Elems(todo[c]) : Fits(x.to, x.msg)
           ChanOK == \A d \in Conns : \A m \in Elems(chan[d]) : Fits(AddrOf[d], m)
<1>a. TodoOK /\ ChanOK
  BY DEF ReachInv
<1>b. ASSUME TodoOK', ChanOK' PROVE ReachInv'
  BY <1>b, RoutesStep DEF ReachInv
<1>1. ASSUME NEW c \in Conns, Answers(c) PROVE ReachInv'
  <2>1. CASE todo' = todo
    BY <1>1, <1>a, <1>b, <2>1 DEF Answers
  <2>2. ASSUME NEW y, y.msg.type # "Signal", todo' = [todo EXCEPT ![c] = <<y>>]
        PROVE  ReachInv'
    <3>1. Fits(y.to, y.msg) /\ Elems(<<y>>) = {y}
      BY <2>2, SingletonElems DEF Fits
    <3> QED BY <1>1, <1>t, <1>a, <1>b, <2>2, <3>1 DEF Answers
  <2> QED BY <1>1, <2>1, <2>2 DEF Answers
<1>2. ASSUME NEW c \in Conns, NEW t \in HostIds \cup {0}, NEW k \in ConnIds,
             Signal(c, t, k)
      PROVE  ReachInv'
  <2> DEFINE line == [from |-> c, frame |-> frames[c] + 1, target |-> t]
             msg == [type |-> "Signal", connection_id |-> k, data |-> line]
             send == To(Route(t, k), msg)
  <2>1. send.to = Route(t, k) /\ send.msg = msg
    BY DEF To
  <2>2. msg.data.target = t /\ msg.connection_id = k
    OBVIOUS
  <2>3. /\ UNCHANGED chan
        /\ todo' = todo \/ (Route(t, k) # NONE /\ todo' = [todo EXCEPT ![c] = <<send>>])
    BY <1>2 DEF Signal, outVars
  <2> HIDE DEF send, msg
  <2>4. CASE todo' = todo
    BY <1>a, <1>b, <2>3, <2>4
  <2>5. CASE Route(t, k) # NONE /\ todo' = [todo EXCEPT ![c] = <<send>>]
    <3>0. ASSUME Fits(Route(t, k), msg) PROVE ReachInv'
      <4>1. Fits(send.to, send.msg) /\ Elems(<<send>>) = {send}
        BY <2>1, <3>0, SingletonElems
      <4>2. \A b \in Conns : b # c => todo'[b] = todo[b]
        BY <1>t, <2>5
      <4>3. todo'[c] = <<send>>
        BY <1>t, <2>5
      <4>4. TodoOK'
        BY <1>a, <4>1, <4>2, <4>3
      <4> QED BY <1>a, <1>b, <2>3, <4>4
    <3>1. CASE t # 0
      <4>1. t \in HostIds /\ Route(t, k) = hosts[t]
        BY <3>1 DEF Route
      <4>2. t \in Registers[Route(t, k)]
        BY <2>5, <4>1 DEF ReachInv
      <4> QED BY <2>2, <3>0, <3>1, <4>2 DEF Fits
    <3>2. CASE t = 0
      <4>1. sessions[k] # NONE /\ Route(t, k) = sessions[k].joiner
        BY <2>5, <3>2 DEF Route
      <4>2. k \in Offers[Route(t, k)]
        BY <4>1 DEF ReachInv
      <4> QED BY <2>2, <3>0, <3>2, <4>2 DEF Fits
    <3> QED BY <3>1, <3>2
  <2> QED BY <2>3, <2>4, <2>5
<1>3. ASSUME NEW c \in Conns, AllocateSession(c) PROVE ReachInv'
  <2> DEFINE x1 == To(joining[c], [type |-> "IncomingJoin", session_id |-> next_session_id])
             x2 == To(AddrOf[c], [type |-> "JoinAccepted", session_id |-> next_session_id])
  <2>1. Fits(x1.to, x1.msg) /\ Fits(x2.to, x2.msg)
    BY DEF To, Fits
  <2>2. todo' = [todo EXCEPT ![c] = <<x1, x2>>] /\ UNCHANGED chan
    BY <1>3 DEF AllocateSession, outVars
  <2> HIDE DEF x1, x2
  <2>3. Elems(<<x1, x2>>) = {x1, x2}
    BY DEF Elems
  <2> QED BY <1>t, <1>a, <1>b, <2>1, <2>2, <2>3
<1>4. ASSUME NEW c \in Conns, Shrinks(c) PROVE ReachInv'
  <2>1. ASSUME NEW d \in Conns PROVE Elems(chan'[d]) \subseteq Elems(chan[d])
    <3>1. CASE chan'[d] = chan[d]
      BY <3>1
    <3>2. CASE d = c /\ chan'[c] = <<>>
      BY <3>2, EmptyElems
    <3>3. CASE d = c /\ chan[c] # <<>> /\ chan'[c] = Tail(chan[c])
      BY <1>t, <3>3, TailElems
    <3> QED BY <1>4, <1>t, <3>1, <3>2, <3>3 DEF Shrinks
  <2> QED BY <1>4, <1>a, <1>b, <2>1 DEF Shrinks
<1>5. ASSUME NEW c \in Conns, SendTo(c) PROVE ReachInv'
  <2> DEFINE x == Head(todo[c])
             e == clients[x.to]
  <2>1. /\ todo[c] \in Seq(Send) /\ todo[c] # <<>>
        /\ todo' = [todo EXCEPT ![c] = Tail(todo[c])]
    BY <1>5, <1>t DEF SendTo
  <2>2. x \in Send /\ x \in Elems(todo[c]) /\ x.to \in Addrs /\ x.msg \in ServerMessage
    <3>1. x \in Send
      BY <2>1
    <3>2. x \in Elems(todo[c])
      BY <2>1, TailElems
    <3> QED BY <3>1, <3>2 DEF Send
  <2>3. \/ chan' = chan
        \/ e \in Conns /\ AddrOf[e] = x.to /\ chan' = [chan EXCEPT ![e] = Append(chan[e], x.msg)]
    <3>1. e \in Conns \cup {NONE} /\ (e # NONE => AddrOf[e] = x.to)
      BY <1>t, <2>2 DEF ChannelsAreServed
    <3> QED BY <1>5, <3>1 DEF SendTo, Deliver
  <2> HIDE DEF x, e
  <2>4. TodoOK'
    <3>1. Elems(Tail(todo[c])) \subseteq Elems(todo[c])
      BY <2>1, TailElems
    <3> QED BY <1>t, <1>a, <2>1, <3>1
  <2>5. ChanOK'
    <3>1. Fits(x.to, x.msg)
      BY <1>a, <2>2
    <3>2. ASSUME NEW d \in Conns, NEW m \in Elems(chan'[d]) PROVE Fits(AddrOf[d], m)
      <4>1. CASE chan'[d] = chan[d]
        BY <1>a, <3>2, <4>1
      <4>2. CASE AddrOf[d] = x.to /\ chan'[d] = Append(chan[d], x.msg)
        <5>1. Elems(chan'[d]) = Elems(chan[d]) \cup {x.msg}
          BY <1>t, <2>2, <4>2, AppendElems
        <5> QED BY <1>a, <3>1, <3>2, <4>2, <5>1
      <4> QED BY <1>t, <2>3, <4>1, <4>2
    <3> QED BY <3>2
  <2> QED BY <1>b, <2>4, <2>5
<1>6. CASE UNCHANGED <<todo, chan, frames>>
  BY <1>a, <1>b, <1>6
<1> QED BY <1>1, <1>2, <1>3, <1>4, <1>5, <1>6, MessageSteps

\* A signal for a host only waits at a peer that registers this host, and an
\* answer only at a peer that opened this WebRTC connection, for any peers and
\* with addresses reused or not, as long as the WebRTC connection ids stay
\* clear of the counter of ConnectRequest, which shares the map of sessions.
THEOREM SignalsReach ==
    ASSUME ConnIds \cap (1 .. MaxSession) = {}
    PROVE  Spec => []SignalsReachTheirPeer
<1>1. Init => ReachInv
  BY EmptyElems DEF Init, ReachInv, Keys
<1>2. TypeOK /\ ChannelsAreServed /\ ReachInv /\ [Next]_vars => ReachInv'
  BY ReachStep
<1>3. ReachInv => SignalsReachTheirPeer
  BY DEF ReachInv, Fits, Elems, SignalsReachTheirPeer
<1> QED BY <1>1, <1>2, <1>3, TypeCorrect, ChannelsServed, PTL DEF Spec
=============================================================================
