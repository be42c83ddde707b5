------------------------------- MODULE SlotAbs -------------------------------
(***************************************************************************)
(* What a core promises to the clients that share it: their instances wait *)
(* for the slot, have it one at a time and keep it while they work, run    *)
(* only in it, and leave for good when they are told to and not before.    *)
(***************************************************************************)
CONSTANTS Umi, NoUmi

VARIABLES
    place,      \* where each instance is
    running,    \* the instance whose guest executes
    working,    \* the instances that may not be preempted
    asked       \* the instances somebody asked to halt

vars == <<place, running, working, asked>>

Place == {"new", "waiting", "slot", "done"}

Init ==
    /\ place = [u \in Umi |-> "new"]
    /\ running = NoUmi
    /\ working = Umi
    /\ asked = {}

-----------------------------------------------------------------------------
(* One step of the core may move several instances: what a move needs       *)

Submitted(u) == place[u] = "new" /\ place'[u] \in {"waiting", "slot"}

SwappedIn(u) == place[u] = "waiting" /\ place'[u] = "slot" /\ u \in working'

SwappedOut(u) ==
    /\ place[u] = "slot"
    /\ place'[u] = "waiting"
    /\ u \notin working
    /\ running # u

\* An instance that waited has the slot for as long as it takes to halt it.
Halted(u) == place[u] \in {"waiting", "slot"} /\ place'[u] = "done" /\ u \in asked'

Moves(u) ==
    \/ place'[u] = place[u]
    \/ Submitted(u)
    \/ SwappedIn(u)
    \/ SwappedOut(u)
    \/ Halted(u)

\* A guest that is asked to halt is not entered again.
Enters(u) == place'[u] = "slot" /\ u \notin asked

Executes ==
    \/ running' = running /\ (running # NoUmi => place'[running] = "slot")
    \/ running' = NoUmi
    \/ running = NoUmi /\ running' \in Umi /\ Enters(running')

-----------------------------------------------------------------------------
Next ==
    /\ place' \in [Umi -> Place]
    /\ working' \in SUBSET Umi
    /\ asked \subseteq asked'
    /\ \A u \in Umi : Moves(u)
    /\ \A u, v \in Umi : place'[u] = "slot" /\ place'[v] = "slot" => u = v
    /\ Executes

Spec == Init /\ [][Next]_vars

=============================================================================
