------------------------- MODULE MCRendezvousServer -------------------------
(***************************************************************************)
(* Instances of the rendezvous server for TLC: three connections.          *)
(***************************************************************************)
EXTENDS RendezvousServer, TLC

CONSTANTS c1, c2, c3, a1, a2, a3, w1, w2

\* Every connection has an address of its own.
ApartAddrOf == c1 :> a1 @@ c2 :> a2 @@ c3 :> a3

\* Two connections, one after the other, from one address.
SameAddrOf == c1 :> a1 @@ c3 :> a1

\* Two connections, a host and a joiner.
PairAddrOf == c1 :> a1 @@ c2 :> a2

\* Signalling: a1 hosts, and each of the other two opens a WebRTC connection.
SignalKinds == {"RegisterHost", "UnregisterHost", "Signal"}
FirstRegisters == [a \in Addrs |-> IF a = a1 THEN HostIds ELSE {}]
SignalOffers == a1 :> {} @@ a2 :> {8} @@ a3 :> {9}
SignalFrames == c1 :> 3 @@ c2 :> 2 @@ c3 :> 1

\* The registry: two peers register the same sender id, and either joins it
\* through ConnectRequest, beside a signalled connection.
RegistryKinds == {"RegisterHost", "UpdateHost", "UnregisterHost",
                  "ConnectRequest", "Signal"}
AllRegister == [a \in Addrs |-> HostIds]
JoinOffers == a1 :> {} @@ a2 :> {8}
RegistryFrames == c1 :> 2 @@ c2 :> 3

\* Advertisements are only stored and handed out, and no property of the
\* registry names one.
AdSymmetry == Permutations(Ads)

\* A host, and a joiner that uses both ways to join.
JoinKinds == {"RegisterHost", "UnregisterHost", "ConnectRequest", "Signal"}

\* What keeps a connection alive, and what ends it.
LivenessKinds == {"RegisterHost", "Ping", "ListHosts"}
NoOffers == [a \in Addrs |-> {}]
LivenessFrames == c1 :> 2 @@ c3 :> 2
=============================================================================
