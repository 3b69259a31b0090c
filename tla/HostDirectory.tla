---------------------------- MODULE HostDirectory ----------------------------
(***************************************************************************)
(* What the rendezvous server promises about the hosts it lists, whatever  *)
(* its tasks, channels and critical sections: every request of a client is *)
(* answered in one step, a listing belongs to the address that published   *)
(* it last, only requests from that address revise or withdraw it, and     *)
(* when a client departs nothing of its address stays listed.              *)
(***************************************************************************)
EXTENDS Naturals

CONSTANTS Clients, AddrOf, HostIds, Ads, NONE

VARIABLES
    presence,  \* each client: "away", "here", "gone"
    requests,  \* how many requests of each client were answered
    owner,     \* the address that each listed host belongs to
    record     \* its advertisement

listing == <<owner, record>>

directoryVars == <<presence, requests, owner, record>>

DirectoryInit ==
    /\ presence = [c \in Clients |-> "away"]
    /\ requests = [c \in Clients |-> 0]
    /\ owner = [id \in HostIds |-> NONE]
    /\ record = [id \in HostIds |-> NONE]

Arrive(c) ==
    /\ presence[c] = "away"
    /\ presence' = [presence EXCEPT ![c] = "here"]
    /\ UNCHANGED <<requests, listing>>

Answer(c) ==
    /\ presence[c] = "here"
    /\ requests' = [requests EXCEPT ![c] = @ + 1]
    /\ UNCHANGED presence

\* Whoever asks for a sender id gets it.
Publish(c, id, ad) ==
    /\ Answer(c)
    /\ owner' = [owner EXCEPT ![id] = AddrOf[c]]
    /\ record' = [record EXCEPT ![id] = ad]

Revise(c, id, ad) ==
    /\ Answer(c)
    /\ owner[id] = AddrOf[c]
    /\ record' = [record EXCEPT ![id] = ad]
    /\ UNCHANGED owner

Withdraw(c, id) ==
    /\ Answer(c)
    /\ owner[id] = AddrOf[c]
    /\ owner' = [owner EXCEPT ![id] = NONE]
    /\ record' = [record EXCEPT ![id] = NONE]

\* A request that is refused, or is about something else.
Pass(c) == Answer(c) /\ UNCHANGED listing

Depart(c) ==
    /\ presence[c] = "here"
    /\ presence' = [presence EXCEPT ![c] = "gone"]
    /\ owner' = [id \in HostIds |->
                   IF owner[id] = AddrOf[c] THEN NONE ELSE owner[id]]
    /\ record' = [id \in HostIds |->
                    IF owner[id] = AddrOf[c] THEN NONE ELSE record[id]]
    /\ UNCHANGED requests

DirectoryNext ==
    \E c \in Clients :
      \/ Arrive(c) \/ Pass(c) \/ Depart(c)
      \/ \E id \in HostIds, ad \in Ads : Publish(c, id, ad) \/ Revise(c, id, ad)
      \/ \E id \in HostIds : Withdraw(c, id)

DirectorySpec == DirectoryInit /\ [][DirectoryNext]_directoryVars
=============================================================================
