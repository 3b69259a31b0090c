--------------------------- MODULE SessionRegistry ---------------------------
(***************************************************************************)
(* The registry of NetherNet sessions (crates/core/src/session.rs).  Its   *)
(* lock is not held while snapshot awaits the addresses of the sessions,   *)
(* so that upsert and remove go on in between.                             *)
(***************************************************************************)
EXTENDS Options

CONSTANTS
    SessionKeys,   \* network id and connection id
    Handles,       \* Arc<Session>s
    Snapshots      \* callers of snapshot

VARIABLES
    tracked,   \* sessions: the Arc<Session> of each key
    entries,   \* what a snapshot copied and has not summarised
    summary,   \* what it has
    moments    \* the registries there were since it was called; {} between calls

sessionVars == <<tracked, entries, summary, moments>>

EmptyMap == [k \in SessionKeys |-> NONE]

SessionInit ==
    /\ tracked = EmptyMap
    /\ entries = [p \in Snapshots |-> EmptyMap]
    /\ summary = [p \in Snapshots |-> EmptyMap]
    /\ moments = [p \in Snapshots |-> {}]

Becomes(reg) ==
    /\ tracked' = reg
    /\ moments' = [p \in Snapshots |->
                     IF moments[p] = {} THEN {} ELSE moments[p] \cup {reg}]
    /\ UNCHANGED <<entries, summary>>

upsert(k, s) == Becomes([tracked EXCEPT ![k] = s])

remove(k) == Becomes([tracked EXCEPT ![k] = NONE])

\* The copy is made under the read lock.
SnapshotCopies(p) ==
    /\ moments[p] = {}
    /\ moments' = [moments EXCEPT ![p] = {tracked}]
    /\ entries' = [entries EXCEPT ![p] = tracked]
    /\ summary' = [summary EXCEPT ![p] = EmptyMap]
    /\ UNCHANGED tracked

\* Mutant: the session is looked up again by its key.
LookedUp(p, k) == tracked[k]

\* The Arc in the copy keeps the session, removed or replaced though it may be.
Copied(p, k) == entries[p][k]

\* local_addr and remote_addr of one entry were awaited; the map has no order.
SnapshotAdds(p) ==
    \E k \in SessionKeys :
      /\ entries[p][k] # NONE
      /\ summary' = [summary EXCEPT ![p][k] = Copied(p, k)]
      /\ entries' = [entries EXCEPT ![p][k] = NONE]
      /\ UNCHANGED <<tracked, moments>>

Complete(p) == moments[p] # {} /\ entries[p] = EmptyMap

SnapshotReturns(p) ==
    /\ Complete(p)
    /\ moments' = [moments EXCEPT ![p] = {}]
    /\ UNCHANGED <<tracked, entries, summary>>

SessionNext ==
    \/ \E k \in SessionKeys : remove(k) \/ \E s \in Handles : upsert(k, s)
    \/ \E p \in Snapshots : SnapshotCopies(p) \/ SnapshotAdds(p) \/ SnapshotReturns(p)

SessionSpec == SessionInit /\ [][SessionNext]_sessionVars

\* A snapshot is what the registry was at one moment of the call, although the
\* addresses are awaited one by one without the lock: no session is reported
\* twice, missed, or mixed with one that replaced another later.
SnapshotsAreOneMoment ==
    \A p \in Snapshots : Complete(p) => summary[p] \in moments[p]
=============================================================================
