---------------------------- MODULE ProtectSocket ----------------------------
(***************************************************************************)
(* The slot for the callback that protects sockets from the VPN tunnel, in *)
(* the Android crate.  A std::sync::Mutex guards it, also while the        *)
(* callback runs, and is poisoned if the callback panics.                  *)
(***************************************************************************)
EXTENDS Options

CONSTANTS
    Threads, Callbacks

VARIABLES
    slot,      \* PROTECT_SOCKET
    running,   \* the callback that each thread is in
    poisoned

protectVars == <<slot, running, poisoned>>

ProtectInit ==
    /\ slot = NONE
    /\ running = [t \in Threads |-> NONE]
    /\ poisoned = FALSE

\* Mutant: the guard is dropped before the callback is called.
SlotUnlocked == TRUE

SlotFree == \A t \in Threads : running[t] = NONE

\* Every function locks the slot first; a poisoned lock ends it in a panic.
Locks(t) == running[t] = NONE /\ SlotFree /\ ~poisoned

set_protect_socket_callback(t, cb) ==
    /\ Locks(t)
    /\ slot' = cb
    /\ UNCHANGED <<running, poisoned>>

clear_protect_socket_callback(t) ==
    /\ Locks(t)
    /\ slot' = NONE
    /\ UNCHANGED <<running, poisoned>>

\* With an empty slot it returns true at once.
protect_socket(t) ==
    /\ Locks(t)
    /\ running' = [running EXCEPT ![t] = slot]
    /\ UNCHANGED <<slot, poisoned>>

CallbackReturns(t) ==
    /\ running[t] # NONE
    /\ running' = [running EXCEPT ![t] = NONE]
    /\ UNCHANGED <<slot, poisoned>>

CallbackPanics(t) ==
    /\ running[t] # NONE
    /\ running' = [running EXCEPT ![t] = NONE]
    /\ poisoned' = TRUE
    /\ UNCHANGED slot

ProtectNext ==
    \E t \in Threads :
      \/ \E cb \in Callbacks : set_protect_socket_callback(t, cb)
      \/ clear_protect_socket_callback(t) \/ protect_socket(t)
      \/ CallbackReturns(t) \/ CallbackPanics(t)

ProtectSpec == ProtectInit /\ [][ProtectNext]_protectVars

\* Once clear_protect_socket_callback or set_protect_socket_callback returned,
\* the callback that was registered before is not running in any thread and
\* will not be called again, so that what it refers to can be freed.
RetiredCallbacksRest ==
    \A t \in Threads : running[t] # NONE => running[t] = slot
=============================================================================
