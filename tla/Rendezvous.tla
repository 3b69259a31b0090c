----------------------------- MODULE Rendezvous -----------------------------
(***************************************************************************)
(* A node and the rendezvous server, joined by TCP.  The node is all of    *)
(* MineshaftNode.  The server is its directory of hosts (HostDirectory,    *)
(* which RendezvousServer implements) behind one stream per connection:    *)
(* what the node wrote and the handler has not read.  The streams of two   *)
(* connections are read in any order, so that what is left of an old       *)
(* connection, delayed by a retransmission or by a stalled server, can be  *)
(* handled after the messages of the new one.                              *)
(***************************************************************************)
EXTENDS MineshaftNode

ASSUME OwnerAssumption == NONE \notin Conns

VARIABLES
    stream,     \* messages on their way to the handler of each connection
    presence, requests, owner, record,  \* the server's directory
    late        \* an old connection took the listing over from a newer one

serverVars == <<presence, requests, owner, record, late>>

rvars == <<vars, stream, serverVars>>

\* Each connection of the node comes from a port of its own.
Directory == INSTANCE HostDirectory WITH
    Clients <- Conns, AddrOf <- [n \in Conns |-> n], HostIds <- {Me}

RendezvousInit ==
    /\ Init
    /\ stream = [n \in Conns |-> <<>>]
    /\ Directory!DirectoryInit
    /\ late = FALSE

Message == [type : {"RegisterHost", "UpdateHost"}, ad : Ads] \cup [type : {"UnregisterHost"}]

RendezvousTypeOK ==
    /\ NodeTypeOK
    /\ stream \in [Conns -> Seq(Message)]
    /\ presence \in [Conns -> {"away", "here", "gone"}]
    /\ requests \in [Conns -> Nat]
    /\ owner \in [{Me} -> Conns \cup {NONE}]
    /\ record \in [{Me} -> Ads \cup {NONE}]
    /\ late \in BOOLEAN

-----------------------------------------------------------------------------
(* The node's side.                                                        *)

\* Mutant: an end of hosting is sent as an update.
AlwaysUpdates(n) == [type |-> "UpdateHost", ad |-> remote'[n]]

\* The message by which the loop changes what the server lists for it.
Written(n) ==
    IF remote'[n] = NONE THEN [type |-> "UnregisterHost"]
    ELSE [type |-> IF remote[n] = NONE THEN "RegisterHost" ELSE "UpdateHost",
          ad |-> remote'[n]]

\* What is written on a connection that the other end closed goes nowhere; on
\* one that is silent it may still arrive, late, or be lost.
NodeStep ==
    /\ Next
    /\ stream' = [n \in Conns |->
                    IF remote'[n] # remote[n] /\ link[n] # "closed"
                      THEN Append(stream[n], Written(n)) ELSE stream[n]]
    /\ UNCHANGED serverVars

\* Nobody holds the socket any more: it is closed, after what was written.
ClosedByNode(n) ==
    /\ link[n] # "unused"
    /\ n \notin {server, server_writer}
    /\ pending # NONE => pending.via # n
    /\ ~Polled(n)

\* A connection that broke can lose the end of what is on its way.
Loses(n) ==
    /\ link[n] \in {"silent", "closed"}
    /\ \E k \in 0 .. (Len(stream[n]) - 1) :
         stream' = [stream EXCEPT ![n] = SubSeq(@, 1, k)]
    /\ UNCHANGED <<vars, serverVars>>

-----------------------------------------------------------------------------
(* The server's side.                                                      *)

Accepts(n) ==
    /\ link[n] # "unused"
    /\ Directory!Arrive(n)
    /\ UNCHANGED <<vars, stream, late>>

\* UpdateHost and UnregisterHost of a connection that does not own the
\* listing change nothing.
Handle(n, m) ==
    \/ m.type = "RegisterHost" /\ Directory!Publish(n, Me, m.ad)
    \/ m.type = "UpdateHost" /\ Directory!Revise(n, Me, m.ad)
    \/ m.type = "UnregisterHost" /\ Directory!Withdraw(n, Me)
    \/ m.type # "RegisterHost" /\ owner[Me] # n /\ Directory!Pass(n)

Receives(n) ==
    /\ stream[n] # <<>>
    /\ Handle(n, Head(stream[n]))
    /\ stream' = [stream EXCEPT ![n] = Tail(@)]
    /\ late' = (late \/ (owner'[Me] = n /\ owner[Me] \in (n + 1) .. MaxConns))
    /\ UNCHANGED vars

\* Mutant: the server waits for ever on a silent connection.
NoTimeout(n) == link[n] = "closed" \/ (link[n] = "up" /\ ClosedByNode(n))

\* The read ends, fails or times out.  On a link that is up the pings of the
\* node keep the timer from firing.
HandlerStops(n) == link[n] \in {"silent", "closed"} \/ ClosedByNode(n)

Drops(n) ==
    /\ stream[n] = <<>>
    /\ HandlerStops(n)
    /\ Directory!Depart(n)
    /\ UNCHANGED <<vars, stream, late>>

-----------------------------------------------------------------------------

RendezvousNext ==
    \/ NodeStep
    \/ \E n \in Conns : Loses(n) \/ Accepts(n) \/ Receives(n) \/ Drops(n)

RendezvousSpec == RendezvousInit /\ [][RendezvousNext]_rvars

(* As for the node; the runtime polls the server's tasks, and what is on   *)
(* its way either arrives or is lost.                                      *)
RendezvousFairSpec ==
    /\ RendezvousSpec
    /\ Fairness
    /\ \A n \in Conns :
         /\ WF_rvars(Accepts(n)) /\ WF_rvars(Drops(n))
         /\ WF_rvars(Receives(n) \/ Loses(n))

-----------------------------------------------------------------------------
(* Properties.                                                             *)

\* The node has a connection that works, and nothing of an earlier one is left.
Settled ==
    /\ server # 0 /\ link[server] = "up" /\ presence[server] = "here"
    /\ \A n \in Conns :
         /\ stream[n] = <<>>
         /\ n # server => link[n] = "unused" \/ presence[n] = "gone"

\* What the comment in Connect says: "The server drops our host registration
\* when the old connection dies, so register again": once nothing of the old
\* connections is left, the server lists what the loop believes it does.
KnownWorldsAreListed ==
    Settled => record[Me] = registered_advertisement

\* It does so unless an old connection's RegisterHost was read after that of a
\* newer one: no other order of reads, losses and handler ends, and no failed
\* write, separates the loop's registration from the server's directory.
RegistrationsAreListed ==
    Settled /\ ~late => record[Me] = registered_advertisement

\* A world that is not hosted any more leaves the directory for good, however
\* the connection ended on which it was registered and in whatever order the
\* handlers read their backlogs.
GhostsLeave ==
    <>[](game.state # "hosting") => <>[](record[Me] = NONE)

\* The world that the game ends up hosting is listed with its advertisement,
\* unless an old connection took the listing over.
WorldsGetListed ==
    []~late => <>[](record[Me] = IF game.state = "hosting" THEN game.ad ELSE NONE)
=============================================================================
