------------------------------ MODULE UmCoreInv ------------------------------
(***************************************************************************)
(* The inductive invariant of UmCore: how the manager's view of instances  *)
(* and that of the memory system agree, if an instance booted from the     *)
(* image has the core to itself.                                           *)
(***************************************************************************)
EXTENDS UmCore, UmSlotInv

\* What is submitted has been made, and only what has halted may be destroyed.
LifeAgrees ==
    \A u \in Umi :
        /\ phase[u] = "done" <=> life[u] = "halted"
        /\ phase[u] \notin {"new", "done"} => life[u] = "live"

\* An instance that has executed has fetched its code, and keeps it: it can be unloaded.
CodeFetched ==
    \A u \in Umi : phase[u] \in InService /\ cpu # u => Memory!exists(table[u][Code])

\* A booted instance, whose table only the slot has, is alone, and nothing will ask it
\* to yield.
BootedIsAlone ==
    \A u \in OnCore : Booted(u) =>
        /\ active_umi = u
        /\ inactive_umi_map = {}
        /\ ~Has(tasks, YieldTask)

CoreInv ==
    /\ SlotInv
    /\ Memory!MemInv
    /\ LifeAgrees
    /\ CodeFetched
    /\ BootedIsAlone

=============================================================================
