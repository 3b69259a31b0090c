--------------------------- MODULE MCCoreServices ---------------------------
(***************************************************************************)
(* Instances of the components of the core and platform crates for TLC.    *)
(* They share no state; part says which of them a behaviour is of, so that *)
(* their states add up instead of multiplying.                             *)
(***************************************************************************)
EXTENDS Discovery, Framing, Relay, SessionRegistry, ProtectSocket, PortProbe,
        ProcessProbe

CONSTANTS m1, m2, r1, r2, k1, k2, s1, s2, p1, p2, t1, t2, c1, c2, d1, d2, d3

VARIABLE part

idleDiscovery == UNCHANGED vars
idleFraming == UNCHANGED framingVars
idleRelay == UNCHANGED relayVars
idleSessions == UNCHANGED sessionVars
idleProtect == UNCHANGED protectVars
idlePort == UNCHANGED portVars
idleProcess == UNCHANGED processVars

services == <<part, vars, framingVars, relayVars, sessionVars, protectVars, portVars,
              processVars>>

\* Where a component starts that is not the part is of no interest.
CoreInit ==
    /\ part \in {"discovery", "framing", "relay", "sessions", "protect", "port", "process"}
    /\ Init /\ FramingInit /\ RelayInit /\ SessionInit /\ ProtectInit /\ PortInit /\ ProcessInit
    /\ part # "relay" => max_advertised_hosts = 0
    /\ part # "port" => /\ os = "linux" /\ bound = {} /\ rows = 0
                        /\ table = [f \in Families |-> "ok"]
    /\ part # "process" => system = "linux" /\ listing = "ok" /\ games = {}

CoreNext ==
    /\ UNCHANGED part
    /\ IF part = "discovery" THEN Next ELSE idleDiscovery
    /\ IF part = "framing" THEN FramingNext ELSE idleFraming
    /\ IF part = "relay" THEN RelayNext ELSE idleRelay
    /\ IF part = "sessions" THEN SessionNext ELSE idleSessions
    /\ IF part = "protect" THEN ProtectNext ELSE idleProtect
    /\ IF part = "port" THEN PortNext ELSE idlePort
    /\ IF part = "process" THEN ProcessNext ELSE idleProcess

\* The reader of a connection is polled, and the heartbeat and the calls of stop
\* go on; nothing is assumed of the writers.
CoreSpec ==
    /\ CoreInit /\ [][CoreNext]_services
    /\ Fairness
    /\ WF_services(part = "framing" /\ ReadStep /\ UNCHANGED
          <<part, vars, relayVars, sessionVars, protectVars, portVars, processVars>>)
=============================================================================
