------------------------------ MODULE UmSlotInv ------------------------------
(***************************************************************************)
(* The inductive invariant of UmSlot: why no assertion of the manager      *)
(* fails when clients and guests keep to the protocol.                     *)
(***************************************************************************)
EXTENDS UmSlot, EventQueue

\* Clients halt only started instances, only while one is loaded, and call Run only
\* on an empty slot; a guest makes no hypercall after its halt.
Protocol ==
    Liberties \cap {"HaltUnstarted", "HaltEmptySlot", "RunBusy", "CallsAfterHalt"} = {}

InService == {"started", "ran"}

\* What an instance's phase says of where it is and what it may be doing.
PhaseInv ==
    /\ status \in {"empty", "loaded", "active", "idle", "halting"}
    /\ \A u \in Umi :
          phase[u] \in {"new", "done"} <=> u \notin inactive_umi_map /\ active_umi # u
    /\ \A u \in Umi :
          u \in activation_promise_map <=> u \in inactive_umi_map /\ phase[u] = "loaded"
    /\ active_umi # NoUmi => (status = "loaded" <=> phase[active_umi] = "loaded")
    /\ \A u \in Umi : blocked[u] => phase[u] \in InService \cup {"done"}
    /\ \A u \in Umi : timer_set[u] => blocked[u]
    /\ cpu # NoUmi => ~blocked[cpu] /\ phase[cpu] \in InService

\* What each pending event may rely on, when the events pending are ts.
StartInv(ts) ==
    /\ \A u \in Umi : Has(ts, StartTask(u))
                        <=> active_umi = u /\ status = "loaded"
    /\ \A u \in Umi : AtMostOnce(ts, StartTask(u))
ResumeInv(ts) ==
    /\ \A u \in Umi : Has(ts, ResumeTask(u))
                        <=> phase[u] \in InService /\ ~blocked[u] /\ cpu # u
    /\ \A u \in Umi : AtMostOnce(ts, ResumeTask(u))
EventInv(ts) ==
    /\ Has(ts, HaltTask) => status = "halting"
    /\ \A u \in Umi : Has(ts, OutgoingTask(u)) => umi_id # NoUmi
    /\ Has(ts, YieldTask) /\ status = "empty" => inactive_umi_map # {}
TaskInv(ts) == StartInv(ts) /\ ResumeInv(ts) /\ EventInv(ts)

\* The inductive invariant: each conjunct that is a property by itself needs the
\* phases and the pending events to be preserved, and NoFault needs them all.
SlotInv ==
    /\ TypeOK
    /\ NoFault
    /\ QueueMatchesMap
    /\ SlotMatchesCpu
    /\ ProxyFollowsSlot
    /\ PhaseInv
    /\ TaskInv(tasks)

(***************************************************************************)
(* Halt requests.  With the next three conditions SlotInv is inductive for *)
(* them too, if nobody asks for the halt of an instance a second time.     *)
(***************************************************************************)
OneHalt == Protocol /\ "HaltTwice" \notin Liberties

\* A flag is a request, and a request is flagged, under way or done.
FlagInv ==
    /\ inactive_umi_halt_map \subseteq inactive_umi_map
    /\ \A u \in inactive_umi_halt_map : halts[u] > 0
    /\ \A u \in Umi : halts[u] > 0 =>
          /\ phase[u] \in InService \cup {"done"}
          /\ \/ phase[u] = "done"
             \/ active_umi = u /\ status = "halting"
             \/ u \in inactive_umi_halt_map

\* While the slot halts its instance, one Halt is pending.
HaltingInv ==
    status = "halting" =>
        /\ halts[active_umi] > 0
        /\ Has(tasks, HaltTask)
        /\ AtMostOnce(tasks, HaltTask)

HaltInv == FlagInv /\ HaltingInv

=============================================================================
