-------------------------------- MODULE UmCore --------------------------------
(***************************************************************************)
(* A core as a whole: the slot (UmSlot) and the memory of the instances    *)
(* that take turns in it (UmMemory).  The manager's events load and unload *)
(* page tables as they move instances (slot_load_instance and              *)
(* slot_unload_instance in UmManager.cc); guests access memory while they  *)
(* execute; clients make instances before they submit them, and destroy    *)
(* what they get back.                                                     *)
(*                                                                         *)
(* The instance whose table hangs off the PML4 slot entry is the loaded    *)
(* one: both change together in slot_load_instance and                     *)
(* slot_unload_instance, and nowhere else.                                 *)
(***************************************************************************)
EXTENDS UmSlot

CONSTANTS
    Snap,       \* snapshots
    Page, Writable, Frame, NoFrame, Val, Image,     \* see UmMemory
    Code,       \* the page a guest executes when it makes a hypercall
    BootAlone   \* TRUE: an instance booted from the image has the core to itself

ASSUME CoreAssumption ==
    /\ Code \in Page \ Writable
    /\ BootAlone \in BOOLEAN
    /\ Umi \cap Snap = {}
    /\ Writable \subseteq Page
    /\ Frame \cap Page = {}
    /\ NoFrame \notin Frame \cup Page
    /\ Image \in [Page -> Val]

VARIABLES life, root, table, snap_addr, tlb, mem, allocated, lost

Memory == INSTANCE UmMemoryInv WITH
    Core <- {"core"},
    Inst <- Umi,
    NoInst <- NoUmi,
    SwapBooted <- ~BootAlone,
    slot <- [c \in {"core"} |-> active_umi]

memory == <<life, root, table, snap_addr, tlb, mem, allocated, lost>>
coreVars == <<vars, memory>>

CoreInit == Init /\ Memory!Init

-----------------------------------------------------------------------------
(* What an event does to memory                                             *)

\* The instances that leave the slot in this step: the occupant, and one that was loaded
\* only to be halted (Yield).
Leavers ==
    LET halted == {u \in Umi : phase'[u] = "done" /\ phase[u] # "done"}
    IN  ({active_umi} \cup halted) \ {active_umi', NoUmi}

\* Faulty variant of Rootless: every table is lost with the slot's entry.
RootlessAll == Leavers

\* Those whose page table only the slot's PML4 entry points to.
Rootless == {u \in Leavers : ~root[u]}

\* slot_unload_instance for each of them, and slot_load_instance for the next.  Start and
\* Run hand an instance that halted back to the client.
Unload ==
    /\ table' = [o \in DOMAIN table |-> IF o \in Rootless THEN Memory!Empty ELSE table[o]]
    /\ lost' = lost \cup UNION {Memory!freePageTable(table[u]) : u \in Rootless}
    /\ tlb' = IF Leavers = {} THEN tlb ELSE Memory!FlushedAll("core")
    /\ life' = [o \in DOMAIN life |->
                   IF o \in Leavers /\ phase'[o] = "done" THEN "halted" ELSE life[o]]
    /\ UNCHANGED <<root, snap_addr, mem, allocated>>

-----------------------------------------------------------------------------
(* Clients                                                                  *)

OnCore == {u \in Umi : u = active_umi \/ u \in inactive_umi_map}
Booted(u) == life[u] = "live" /\ ~root[u]

\* Faulty variant of MaySubmit: an instance is submitted beside one that was booted.
MaySubmitBeside(u) ==
    /\ life[u] = "live"
    /\ BootAlone /\ Booted(u) => OnCore = {}

\* As the tests do (generateBaseEnvtSnapshot): an instance booted from the image is
\* submitted to a core without any other, and nothing else is while it is there.
MaySubmit(u) ==
    /\ life[u] = "live"
    /\ BootAlone => (Booted(u) => OnCore = {}) /\ \A v \in OnCore : ~Booted(v)
MaySwap(u) == BootAlone => ~Booted(u)

Submission(u) ==
    /\ fault = "none"
    /\ cpu = NoUmi
    /\ \/ MaySubmit(u) /\ (Load(u) \/ Run(u))
       \/ SignalHalt(u)
       \/ MaySwap(u) /\ SignalYield(u)

\* Instances are made before they are submitted, from the image or from a snapshot.
Make(u) ==
    /\ phase[u] = "new"
    /\ UNCHANGED vars
    /\ \/ Memory!Boot(u)
       \/ \E s \in Snap : Memory!Deploy(u, s)
       \/ Memory!SetCheckpoint(u)

\* An instance that halted is destroyed, and its timer stopped (~UmInstance); u then
\* stands for another one.
Destroy(u) ==
    /\ phase[u] = "done"
    /\ phase' = [phase EXCEPT ![u] = "new"]
    /\ is_active' = [is_active EXCEPT ![u] = TRUE]
    /\ blocked' = [blocked EXCEPT ![u] = FALSE]
    /\ timer_set' = [timer_set EXCEPT ![u] = FALSE]
    /\ umi_recv_queue' = [umi_recv_queue EXCEPT ![u] = 0]
    /\ halts' = [halts EXCEPT ![u] = 0]
    /\ UNCHANGED <<slotVars, tasks, cpu, fault>>
    /\ Memory!Destroy(u)

Making ==
    /\ cpu = NoUmi
    /\ \/ \E u \in Umi : Make(u) \/ Destroy(u)
       \/ \E s \in Snap : UNCHANGED vars /\ Memory!Destroy(s)

-----------------------------------------------------------------------------
(* Guests                                                                   *)

\* A hypercall is made by code that has been fetched.
Hypercall(u) == Memory!exists(table[u][Code]) /\ Guest(u)

\* What the executing guest does to memory, and what the handlers of its exceptions do.
\* (Only stores fill the TLB here: what else may is in UmMemory.)
Accesses ==
    /\ fault = "none"
    /\ cpu # NoUmi
    /\ UNCHANGED vars
    /\ \/ \E p \in Page, v \in Val : Memory!Store("core", p, v)
       \/ \E p \in Page, write \in BOOLEAN : Memory!PageFault("core", p, write)
       \/ status = "active" /\ \E s \in Snap : Memory!Checkpoint("core", s)

-----------------------------------------------------------------------------
Handlers ==
    \/ RunTask
    \/ \E u \in Umi : Interrupt(u) \/ Submission(u) \/ Hypercall(u)

CoreNext == (Handlers /\ Unload) \/ Making \/ Accesses

CoreSpec == CoreInit /\ [][CoreNext]_coreVars

-----------------------------------------------------------------------------
(* Properties *)

\* The kassert(UmPgTblMgmt::exists(slotPML4Ent)) of slot_unload_instance, for instances
\* that leave the slot by yielding, by halting, or as soon as they enter it.
UnloadFindsRoot == \A u \in Leavers : \E p \in Page : Memory!exists(table[u][p])

\* The memory of an instance changes only while its own guest executes.
OnlyItsGuestWrites ==
    \A u \in Umi :
        life[u] = "live" /\ life'[u] = "live" /\ Memory!View(u)' # Memory!View(u) => cpu = u

\* Page tables follow the slot: whichever timer, packet, yield or halt brings an instance
\* in or out of it, its table goes with it, and a guest whose context is activated late
\* never executes on another's memory.
MemoryFollowsSlot == [][UnloadFindsRoot /\ OnlyItsGuestWrites]_coreVars

\* Under the manager's scheduling the memory keeps the promise of AddressSpaces, if
\* clients keep other instances away from a core on which one is booted from the image.
GuestsKeepMemory == Memory!PrivateMemories

\* "Signal the core to restore a yielded instance" (UmManager.h): an instance that yields
\* the slot keeps its memory.
YieldKeepsMemory ==
    [][\A u \in Umi : active_umi = u /\ active_umi' # u /\ life'[u] = "live" =>
          Memory!View(u)' = Memory!View(u)]_coreVars

=============================================================================
