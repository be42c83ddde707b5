---------------------------- MODULE UmCoreProofs ----------------------------
(***************************************************************************)
(* Proofs about a core: page tables follow the slot, and guests keep their *)
(* memory under the manager's scheduling, for every set of instances,      *)
(* snapshots, pages and frames, if clients keep to the protocol and leave  *)
(* a core alone while an instance is booted on it.                         *)
(***************************************************************************)
EXTENDS UmCoreInv, UmSlotProofs

M == INSTANCE UmMemoryProofs WITH
    Core <- {"core"},
    Inst <- Umi,
    NoInst <- NoUmi,
    SwapBooted <- ~BootAlone,
    slot <- [c \in {"core"} |-> active_umi]

-----------------------------------------------------------------------------
(* What the handlers do to the slot, as far as memory is concerned          *)

NoneBooted == \A u \in OnCore : ~Booted(u)

\* Instance u enters phase p, and no other changes its own.
Enters(u, p) == phase'[u] = p /\ \A w \in Umi \ {u} : phase'[w] = phase[w]

\* The occupant leaves only if it is in service.
LeavesInService ==
    \/ active_umi' = active_umi
    \/ active_umi = NoUmi
    \/ phase[active_umi] \in InService

\* Nobody enters or leaves.
Stays ==
    /\ UNCHANGED <<active_umi, inactive_umi_map>>
    /\ phase' = phase \/ \E u \in Umi : phase[u] = "loaded" /\ cpu' = u /\ Enters(u, "started")
    /\ Has(tasks', YieldTask) => Has(tasks, YieldTask) \/ MaySwap(active_umi)

\* The occupant is halted, or is going to be.
Halts ==
    /\ active_umi \in Umi
    /\ phase[active_umi] \in InService
    /\ inactive_umi_map' = inactive_umi_map
    /\ \/ active_umi' = active_umi /\ phase' = phase
       \/ active_umi' = NoUmi /\ Enters(active_umi, "done")
    /\ Has(tasks', YieldTask) => Has(tasks, YieldTask) \/ inactive_umi_map # {}

\* The occupant makes room for a waiting instance, or for none; the one that is loaded
\* may be halted at once.
Yields ==
    /\ NoneBooted
    /\ inactive_umi_map' \cup {active_umi'} \subseteq inactive_umi_map \cup {active_umi, NoUmi}
    /\ LeavesInService
    /\ phase' = phase
       \/ \E v \in inactive_umi_map : phase[v] \in InService /\ Enters(v, "done")

\* A client submits u.
Submits(u) ==
    /\ MaySubmit(u)
    /\ phase[u] = "new"
    /\ Enters(u, "loaded") \/ (Enters(u, "ran") /\ cpu' = u)
    /\ inactive_umi_map' \cup {active_umi'} \subseteq inactive_umi_map \cup {active_umi, u}
    /\ LeavesInService
    /\ OnCore = {} => active_umi' = u /\ inactive_umi_map' = {} /\ ~Has(tasks', YieldTask)

SlotMoves == Stays \/ Halts \/ Yields \/ \E u \in Umi : Submits(u)

\* A guest leaves the processor in a hypercall.
CpuMoves == cpu' = cpu \/ cpu = NoUmi \/ Memory!exists(table[cpu][Code])

LEMMA HaltMoves ==
    ASSUME SlotInv, active_umi \in Umi, phase[active_umi] \in InService,
           NEW ts \in Seq(Task), Has(ts, YieldTask) => Has(tasks, YieldTask),
           Halt(active_umi, idle_umi_queue, is_active, ts, umi_id),
           inactive_umi_map' = inactive_umi_map
    PROVE  Halts
<1>1. TypeOK /\ is_active \in [Umi -> BOOLEAN] /\ Range(idle_umi_queue) = inactive_umi_map
  BY DEF SlotInv, TypeOK, QueueMatchesMap
<1>2. CASE ts # <<>>
  <2>1. active_umi' = active_umi /\ phase' = phase /\ tasks' = Append(ts, HaltTask)
    BY <1>2 DEF Halt
  <2>2. Has(tasks', YieldTask) => Has(tasks, YieldTask)
    BY <2>1, HasAppend, TasksDiffer
  <2>. QED
    BY <2>1, <2>2 DEF Halts
<1>3. CASE ts = <<>>
  <2>1. active_umi' = NoUmi /\ Enters(active_umi, "done")
    BY <1>1, <1>3, HaltEffect DEF Enters
  <2>2. tasks' = <<>> \/ inactive_umi_map # {}
    <3>1. ASSUME idle_umi_queue # <<>> PROVE inactive_umi_map # {}
      <4>1. idle_umi_queue \in Seq(Umi)
        BY DEF SlotInv, TypeOK
      <4>2. 1 \in DOMAIN idle_umi_queue
        BY <3>1, <4>1
      <4>. QED
        BY <1>1, <4>2 DEF Range
    <3>. QED
      BY <1>3, <3>1 DEF Halt, ReturnFromSlot
  <2>3. ~Has(<<>>, YieldTask)
    BY DEF Has
  <2>. QED
    BY <2>1, <2>2, <2>3 DEF Halts
<1>. QED
  BY <1>2, <1>3

LEMMA YieldMoves ==
    ASSUME SlotInv, NoneBooted,
           NEW q \in Seq(Umi), NEW hm \in SUBSET Umi, NEW act \in [Umi -> BOOLEAN],
           NEW ts \in Seq(Task), Range(q) = inactive_umi_map,
           Yield(q, hm, act, ts)
    PROVE  Yields
<1>1. /\ TypeOK
      /\ inactive_umi_map \subseteq Umi
      /\ status = "empty" <=> active_umi = NoUmi
      /\ \A u \in Umi : phase[u] \in {"new", "done"} <=> u \notin inactive_umi_map /\ active_umi # u
      /\ \A u \in Umi : u \in activation_promise_map <=> u \in inactive_umi_map /\ phase[u] = "loaded"
  BY DEF SlotInv, TypeOK, SlotMatchesCpu, PhaseInv
<1>2. CASE YieldRefused(q, hm, act, ts)
  BY <1>2 DEF YieldRefused, Yields, LeavesInService
<1>3. ASSUME MayYield(act) PROVE active_umi = NoUmi \/ phase[active_umi] \in InService
  BY <1>3, OccupantInService DEF MayYield
<1>4. CASE YieldUnload(q, hm, act, ts)
  <2>1. /\ MayYield(act)
        /\ active_umi' = NoUmi
        /\ inactive_umi_map' = inactive_umi_map \cup {active_umi}
        /\ phase' = phase
    BY <1>4 DEF YieldUnload
  <2>. QED
    BY <1>3, <2>1 DEF Yields, LeavesInService
<1>5. ASSUME MayYield(act), NEW k \in Eligible(q, act), YieldTo(q[k], q, hm, act, ts)
      PROVE  Yields
  <2>1. PICK v \in Umi : v = q[k] /\ v \in inactive_umi_map
    BY <1>1 DEF Eligible, Range
  <2>2. YieldTo(v, q, hm, act, ts)
    BY <1>5, <2>1
  <2>3. inactive_umi_map' \subseteq inactive_umi_map \cup {active_umi}
    BY <2>2 DEF YieldTo, MapAfterSwap
  <2>4. CASE v \notin activation_promise_map /\ v \in hm
    <3>1. Halt(v, QueueAfterSwap(q, v), act, ts, v)
      BY <2>2, <2>4 DEF YieldTo
    <3>2. phase[v] \in InService
      <4>1. phase[v] \notin {"new", "done", "loaded"} /\ phase[v] \in Phase
        BY <1>1, <2>1, <2>4 DEF TypeOK
      <4>. QED
        BY <4>1 DEF Phase, InService
    <3>3. \/ active_umi' = v /\ phase' = phase
          \/ active_umi' = NoUmi /\ Enters(v, "done")
      BY <1>1, <3>1, HaltEffect DEF Enters
    <3>. QED
      BY <1>3, <1>5, <2>1, <2>3, <3>2, <3>3 DEF Yields, LeavesInService
  <2>5. CASE ~(v \notin activation_promise_map /\ v \in hm)
    <3>1. active_umi' = v /\ phase' = phase
      BY <2>2, <2>5 DEF YieldTo
    <3>. QED
      BY <1>3, <1>5, <2>1, <2>3, <3>1 DEF Yields, LeavesInService
  <2>. QED
    BY <2>4, <2>5
<1>. QED
  BY <1>2, <1>4, <1>5 DEF Yield

LEMMA TaskMoves ==
    ASSUME SlotInv, BootedIsAlone, cpu = NoUmi, NEW i \in DOMAIN tasks,
           RunStart(i) \/ RunHalt(i) \/ RunYield(i) \/ RunResume(i) \/ RunOutgoing(i)
    PROVE  SlotMoves
<1>. DEFINE ts == RemoveAt(tasks, i)
<1>1. /\ ts \in Seq(Task)
      /\ Has(ts, YieldTask) => Has(tasks, YieldTask)
  BY TakenEvent, HasRemove DEF SlotInv, TypeOK
<1>. HIDE DEF ts
<1>2. CASE RunStart(i)
  <2>1. tasks[i].umi \in Umi /\ tasks[i] = StartTask(tasks[i].umi) /\ Has(tasks, tasks[i])
    BY <1>2, TakenEvent, TaskShape DEF RunStart
  <2>2. active_umi \in Umi /\ status = "loaded" /\ active_umi = tasks[i].umi
    BY <2>1 DEF SlotInv, TaskInv, StartInv
  <2>3. phase[active_umi] = "loaded"
    BY <2>2, SlotAssumption DEF SlotInv, PhaseInv
  <2>4. /\ cpu' = active_umi
        /\ Enters(active_umi, "started")
        /\ tasks' = ts
        /\ UNCHANGED <<active_umi, inactive_umi_map>>
    BY <1>2, <2>2 DEF RunStart, Enters, SlotInv, TypeOK, ts
  <2>. QED
    BY <1>1, <2>2, <2>3, <2>4 DEF SlotMoves, Stays
<1>3. CASE RunHalt(i)
  <2>1. Has(tasks, HaltTask)
    BY <1>3, TakenEvent, TaskShape DEF RunHalt
  <2>2. status = "halting" /\ active_umi # NoUmi
    BY <2>1 DEF SlotInv, TaskInv, EventInv, SlotMatchesCpu
  <2>3. active_umi \in Umi /\ phase[active_umi] \in InService
    BY <2>2, OccupantInService
  <2>4. /\ Halt(active_umi, idle_umi_queue, is_active, ts, umi_id)
        /\ inactive_umi_map' = inactive_umi_map
    BY <1>3, <2>2 DEF RunHalt, ts
  <2>. QED
    BY <1>1, <2>3, <2>4, HaltMoves DEF SlotMoves
<1>4. CASE RunYield(i)
  <2>1. Has(tasks, YieldTask)
    BY <1>4, TakenEvent, TaskShape DEF RunYield
  <2>2. NoneBooted
    BY <2>1 DEF BootedIsAlone, NoneBooted
  <2>3. /\ idle_umi_queue \in Seq(Umi)
        /\ Range(idle_umi_queue) = inactive_umi_map
        /\ inactive_umi_halt_map \in SUBSET Umi
        /\ is_active \in [Umi -> BOOLEAN]
    BY DEF SlotInv, TypeOK, QueueMatchesMap
  <2>4. YieldFault(idle_umi_queue, is_active) = "none"
    BY <2>1, <2>3, YieldHasWork DEF SlotInv, SlotMatchesCpu, TaskInv, EventInv
  <2>5. Yield(idle_umi_queue, inactive_umi_halt_map, is_active, ts)
    BY <1>4, <2>4 DEF RunYield, ts
  <2>. QED
    BY <1>1, <2>2, <2>3, <2>5, YieldMoves DEF SlotMoves
<1>5. CASE RunResume(i)
  <2>1. UNCHANGED <<active_umi, inactive_umi_map, phase>> /\ tasks' = ts
    BY <1>5 DEF RunResume, ts
  <2>. QED
    BY <1>1, <2>1 DEF SlotMoves, Stays
<1>6. CASE RunOutgoing(i)
  <2>1. Has(tasks, OutgoingTask(tasks[i].umi)) /\ tasks[i].umi \in Umi
    BY <1>6, TakenEvent, TaskShape DEF RunOutgoing
  <2>2. GetInstance(umi_id)
    BY <2>1 DEF GetInstance, SlotInv, TaskInv, EventInv, ProxyFollowsSlot
  <2>3. UNCHANGED <<active_umi, inactive_umi_map, phase>> /\ tasks' = ts
    BY <1>6, <2>2 DEF RunOutgoing, slotVars, ts
  <2>. QED
    BY <1>1, <2>3 DEF SlotMoves, Stays
<1>. QED
  BY <1>2, <1>3, <1>4, <1>5, <1>6

LEMMA InterruptMoves ==
    ASSUME SlotInv, BootedIsAlone, NEW u \in Umi, Interrupt(u)
    PROVE  SlotMoves
<1>1. tasks \in Seq(Task)
  BY DEF SlotInv, TypeOK
<1>2. ASSUME UNCHANGED <<slotVars, phase>>, tasks' = Append(tasks, ResumeTask(u)) \/ tasks' = tasks
      PROVE  SlotMoves
  <2>1. Has(tasks', YieldTask) => Has(tasks, YieldTask)
    <3>1. CASE tasks' = tasks
      BY <3>1
    <3>2. CASE tasks' = Append(tasks, ResumeTask(u))
      BY <1>1, <3>2, HasAppend, TasksDiffer
    <3>. QED
      BY <1>2, <3>1, <3>2
  <2>2. UNCHANGED <<active_umi, inactive_umi_map, phase>>
    BY <1>2 DEF slotVars
  <2>. QED
    BY <2>1, <2>2 DEF SlotMoves, Stays
<1>3. CASE Fire(u) \/ FireEarly(u)
  BY <1>2, <1>3 DEF Fire, FireEarly
<1>4. ASSUME NEW payload \in BOOLEAN, PacketIn(u, payload) PROVE SlotMoves
  <2>. DEFINE act == IF payload THEN [is_active EXCEPT ![u] = TRUE] ELSE is_active
              q   == slot_queue_move_to_front(idle_umi_queue, u)
  <2>1. CASE active_umi = u
    BY <1>2, <1>4, <2>1 DEF PacketIn, Kick
  <2>2. CASE active_umi # u
    <3>1. u \in inactive_umi_map
      BY <1>4, <2>2 DEF PacketIn, GetInstance
    <3>2. NoneBooted
      BY <3>1 DEF BootedIsAlone, NoneBooted
    <3>3. /\ q \in Seq(Umi)
          /\ Range(q) = inactive_umi_map
          /\ inactive_umi_halt_map \in SUBSET Umi
          /\ act \in [Umi -> BOOLEAN]
      BY QueueToFront, QueueType DEF SlotInv, TypeOK, QueueMatchesMap
    <3>4. YieldFault(q, act) = "none"
      BY <3>1, <3>3, YieldHasWork
    <3>. HIDE DEF act, q
    <3>5. Yield(q, inactive_umi_halt_map, act, tasks)
      BY <1>4, <2>2, <3>4 DEF PacketIn, act, q
    <3>. QED
      BY <1>1, <3>2, <3>3, <3>5, YieldMoves DEF SlotMoves
  <2>. QED
    BY <2>1, <2>2
<1>. QED
  BY <1>3, <1>4 DEF Interrupt

\* On an empty core nothing is pending that would make the next instance yield.
LEMMA EmptyCore ==
    ASSUME SlotInv, OnCore = {}
    PROVE  /\ active_umi = NoUmi
           /\ status = "empty"
           /\ inactive_umi_map = {}
           /\ ~Has(tasks, YieldTask)
<1>1. active_umi \in Umi \cup {NoUmi} /\ inactive_umi_map \subseteq Umi
  BY DEF SlotInv, TypeOK
<1>2. active_umi = NoUmi /\ inactive_umi_map = {}
  BY <1>1 DEF OnCore
<1>. QED
  BY <1>2 DEF SlotInv, SlotMatchesCpu, TaskInv, EventInv

LEMMA SubmitMoves ==
    ASSUME SlotInv, Protocol, NEW u \in Umi, MaySubmit(u), Load(u) \/ Run(u)
    PROVE  Submits(u)
<1>1. /\ tasks \in Seq(Task)
      /\ status = "empty" <=> active_umi = NoUmi
      /\ phase[u] = "new"
      /\ phase \in [Umi -> Phase]
  BY DEF SlotInv, TypeOK, SlotMatchesCpu, Load, Run
<1>2. CASE Load(u)
  <2>1. Enters(u, "loaded")
    BY <1>1, <1>2 DEF Load, Enters
  <2>2. CASE status = "empty" \/ (status = "idle" /\ ~is_active[active_umi])
    <3>1. /\ active_umi' = u
          /\ inactive_umi_map' = IF active_umi = NoUmi THEN inactive_umi_map
                                 ELSE inactive_umi_map \cup {active_umi}
          /\ tasks' = Append(tasks, StartTask(u))
      BY <1>2, <2>2 DEF Load
    <3>2. Has(tasks', YieldTask) => Has(tasks, YieldTask)
      BY <1>1, <3>1, HasAppend, TasksDiffer
    <3>3. LeavesInService
      BY <1>1, <2>2, OccupantInService DEF LeavesInService
    <3>. QED
      BY <1>1, <2>1, <3>1, <3>2, <3>3, EmptyCore DEF Submits
  <2>3. CASE ~(status = "empty" \/ (status = "idle" /\ ~is_active[active_umi]))
    <3>1. /\ status # "empty"
          /\ active_umi' = active_umi
          /\ inactive_umi_map' = inactive_umi_map \cup {u}
      BY <1>2, <2>3 DEF Load
    <3>. QED
      BY <1>1, <2>1, <3>1, EmptyCore DEF Submits, LeavesInService
  <2>. QED
    BY <2>2, <2>3
<1>3. CASE Run(u)
  <2>1. status = "empty"
    BY <1>3 DEF Run, Protocol
  <2>2. /\ active_umi' = u
        /\ cpu' = u
        /\ phase' = [phase EXCEPT ![u] = "ran"]
        /\ UNCHANGED <<inactive_umi_map, tasks>>
    BY <1>3, <2>1 DEF Run
  <2>3. Enters(u, "ran")
    BY <1>1, <2>2 DEF Enters
  <2>. QED
    BY <1>1, <2>1, <2>2, <2>3, EmptyCore DEF Submits, LeavesInService
<1>. QED
  BY <1>2, <1>3

LEMMA SubmissionMoves ==
    ASSUME SlotInv, BootedIsAlone, Protocol, NEW u \in Umi, Submission(u)
    PROVE  SlotMoves
<1>1. tasks \in Seq(Task)
  BY DEF SlotInv, TypeOK
<1>2. CASE MaySubmit(u) /\ (Load(u) \/ Run(u))
  BY <1>2, SubmitMoves DEF SlotMoves
<1>3. CASE SignalHalt(u)
  <2>1. active_umi # NoUmi /\ phase[u] \in InService
    BY <1>3 DEF SignalHalt, MayRequestHalt, Protocol, InService
  <2>2. CASE u = active_umi
    <3>1. /\ Halt(active_umi, idle_umi_queue, is_active, tasks, umi_id)
          /\ inactive_umi_map' = inactive_umi_map
      BY <1>3, <2>1, <2>2 DEF SignalHalt
    <3>. QED
      BY <1>1, <2>1, <2>2, <3>1, HaltMoves DEF SlotMoves
  <2>3. CASE u # active_umi
    <3>. DEFINE q == slot_queue_move_to_front(idle_umi_queue, u)
                hm == inactive_umi_halt_map \cup {u}
    <3>1. u \in inactive_umi_map
      BY <2>1, <2>3 DEF SlotInv, PhaseInv, InService
    <3>2. NoneBooted
      BY <3>1 DEF BootedIsAlone, NoneBooted
    <3>3. /\ q \in Seq(Umi)
          /\ Range(q) = inactive_umi_map
          /\ hm \in SUBSET Umi
          /\ is_active \in [Umi -> BOOLEAN]
      BY QueueToFront, QueueType DEF SlotInv, TypeOK, QueueMatchesMap
    <3>4. Yield(q, hm, is_active, tasks)
      BY <1>3, <2>1, <2>3 DEF SignalHalt
    <3>. HIDE DEF q, hm
    <3>. QED
      BY <1>1, <3>2, <3>3, <3>4, YieldMoves DEF SlotMoves
  <2>. QED
    BY <2>2, <2>3
<1>4. CASE MaySwap(u) /\ SignalYield(u)
  <2>1. /\ active_umi = u
        /\ UNCHANGED <<active_umi, inactive_umi_map, phase>>
    BY <1>4 DEF SignalYield, slotVars
  <2>. QED
    BY <1>4, <2>1 DEF SlotMoves, Stays
<1>. QED
  BY <1>2, <1>3, <1>4 DEF Submission

LEMMA HypercallMoves ==
    ASSUME SlotInv, NEW u \in Umi, Hypercall(u)
    PROVE  SlotMoves /\ Memory!exists(table[cpu][Code])
<1>1. cpu = u /\ Memory!exists(table[cpu][Code]) /\ tasks \in Seq(Task)
  BY DEF Hypercall, Guest, SlotInv, TypeOK
<1>2. active_umi = u /\ phase[u] \in InService
  BY <1>1, SlotAssumption DEF SlotInv, SlotMatchesCpu, PhaseInv
<1>3. CASE GuestPoll(u) \/ GuestRead(u)
  <2>1. UNCHANGED <<active_umi, inactive_umi_map, phase, tasks>>
    BY <1>3 DEF GuestPoll, GuestRead, Abort, slotVars
  <2>. QED
    BY <1>1, <2>1 DEF SlotMoves, Stays
<1>4. CASE GuestWrite(u)
  <2>1. /\ UNCHANGED <<active_umi, inactive_umi_map, phase>>
        /\ tasks' = Append(tasks, OutgoingTask(u))
    BY <1>4 DEF GuestWrite, slotVars
  <2>2. Has(tasks', YieldTask) => Has(tasks, YieldTask)
    BY <1>1, <2>1, HasAppend, TasksDiffer
  <2>. QED
    BY <1>1, <2>1, <2>2 DEF SlotMoves, Stays
<1>5. CASE GuestHalt(u)
  <2>1. /\ Halt(active_umi, idle_umi_queue, is_active, tasks, umi_id)
        /\ inactive_umi_map' = inactive_umi_map
    BY <1>2, <1>5 DEF GuestHalt
  <2>. QED
    BY <1>1, <1>2, <2>1, HaltMoves DEF SlotMoves
<1>. QED
  BY <1>1, <1>3, <1>4, <1>5 DEF Hypercall, Guest

LEMMA HandlersMove ==
    ASSUME SlotInv, BootedIsAlone, Protocol, Handlers
    PROVE  SlotMoves /\ CpuMoves
<1>1. CASE RunTask
  <2>1. cpu = NoUmi
    BY <1>1 DEF RunTask
  <2>. QED
    BY <1>1, <2>1, TaskMoves DEF RunTask, Runnable, CpuMoves
<1>2. ASSUME NEW u \in Umi, Interrupt(u) PROVE SlotMoves /\ CpuMoves
  BY <1>2, InterruptMoves DEF Interrupt, CpuMoves
<1>3. ASSUME NEW u \in Umi, Submission(u) PROVE SlotMoves /\ CpuMoves
  BY <1>3, SubmissionMoves DEF Submission, CpuMoves
<1>4. ASSUME NEW u \in Umi, Hypercall(u) PROVE SlotMoves /\ CpuMoves
  BY <1>4, HypercallMoves DEF CpuMoves
<1>. QED
  BY <1>1, <1>2, <1>3, <1>4 DEF Handlers

-----------------------------------------------------------------------------
(* Who leaves the slot                                                      *)

\* UmMemoryProofs speaks of the same memory.
LEMMA SameAssumption == M!MemoryAssumption
  BY SlotAssumption, CoreAssumption

LEMMA SameMemory ==
    /\ M!Owner = Memory!Owner
    /\ M!Empty = Memory!Empty
    /\ \A pte : M!exists(pte) <=> Memory!exists(pte)
    /\ \A t : M!freePageTable(t) = Memory!freePageTable(t)
    /\ M!MemInv <=> Memory!MemInv
  BY DEF M!MemInv, Memory!MemInv, M!TypeOK, Memory!TypeOK, M!LifeInv, Memory!LifeInv,
         M!EntryInv, Memory!EntryInv, M!EntryOK, Memory!EntryOK,
         M!CleanIsImage, Memory!CleanIsImage, M!OneWriter, Memory!OneWriter,
         M!SharedHasOwner, Memory!SharedHasOwner,
         M!FramesAccounted, Memory!FramesAccounted, M!Mapped, Memory!Mapped,
         M!TlbCoherent, Memory!TlbCoherent, M!Running, Memory!Running,
         M!Loaded, Memory!Loaded, M!freePageTable, Memory!freePageTable,
         M!Leaves, Memory!Leaves, M!exists, Memory!exists, M!Pte, Memory!Pte,
         M!Owner, Memory!Owner, M!Elf, Memory!Elf,
         M!Empty, Memory!Empty, M!Absent, Memory!Absent, M!Entry, Memory!Entry

LEMMA SameMemoryNext == M!MemInv' <=> Memory!MemInv'
  BY SameMemory, PTL

LEMMA SameParts ==
    /\ M!TypeOK <=> Memory!TypeOK
    /\ M!LifeInv <=> Memory!LifeInv
    /\ M!TlbCoherent <=> Memory!TlbCoherent
  BY DEF M!TypeOK, Memory!TypeOK, M!LifeInv, Memory!LifeInv,
         M!TlbCoherent, Memory!TlbCoherent, M!Running, Memory!Running,
         M!Loaded, Memory!Loaded, M!exists, Memory!exists, M!Pte, Memory!Pte,
         M!Owner, Memory!Owner, M!Elf, Memory!Elf,
         M!Empty, Memory!Empty, M!Absent, Memory!Absent, M!Entry, Memory!Entry

LEMMA SamePartsNext ==
    /\ M!TypeOK' <=> Memory!TypeOK'
    /\ M!LifeInv' <=> Memory!LifeInv'
    /\ M!TlbCoherent' <=> Memory!TlbCoherent'
  BY SameParts, PTL

\* Owners and their tables, life and roots.
LEMMA Owners ==
    ASSUME Memory!MemInv
    PROVE  /\ Memory!Owner = Umi \cup Snap
           /\ Umi \cap Snap = {}
           /\ DOMAIN life = Umi \cup Snap
           /\ DOMAIN table = Umi \cup Snap
           /\ life \in [Umi \cup Snap -> {"none", "live", "halted"}]
           /\ root \in [Umi \cup Snap -> BOOLEAN]
           /\ table \in [Umi \cup Snap -> [Page -> Memory!Pte]]
  BY CoreAssumption DEF Memory!MemInv, Memory!TypeOK, Memory!Owner

LEMMA Served ==
    ASSUME CoreInv, SlotInv', SlotMoves, CpuMoves, NEW u \in Leavers
    PROVE  /\ u \in Umi
           /\ u \in OnCore
           /\ phase[u] \in InService
           /\ life[u] = "live"
           /\ Memory!exists(table[u][Code])
<1>1. /\ active_umi \in Umi \cup {NoUmi}
      /\ inactive_umi_map \subseteq Umi
      /\ u # NoUmi
      /\ u # active_umi'
      /\ u = active_umi \/ (u \in Umi /\ phase'[u] = "done" /\ phase[u] # "done")
  BY DEF Leavers, CoreInv, SlotInv, TypeOK
<1>2. u \in Umi
  BY <1>1
<1>3. phase[u] \in InService
  <2>1. CASE Stays
    BY <1>1, <1>2, <2>1 DEF Stays, Enters
  <2>2. CASE Halts
    BY <1>1, <1>2, <2>2 DEF Halts, Enters
  <2>3. CASE Yields
    BY <1>1, <1>2, <2>3 DEF Yields, LeavesInService, Enters
  <2>4. ASSUME NEW w \in Umi, Submits(w) PROVE phase[u] \in InService
    BY <1>1, <1>2, <2>4 DEF Submits, LeavesInService, Enters
  <2>. QED
    BY <2>1, <2>2, <2>3, <2>4 DEF SlotMoves
<1>4. u \in OnCore
  BY <1>2, <1>3 DEF OnCore, InService, CoreInv, SlotInv, PhaseInv
<1>5. life[u] = "live"
  BY <1>2, <1>3 DEF InService, CoreInv, LifeAgrees
<1>6. Memory!exists(table[u][Code])
  <2>1. CASE cpu # u
    BY <1>2, <1>3, <2>1 DEF CoreInv, CodeFetched
  <2>2. CASE cpu = u
    <3>1. cpu' # u
      BY <1>1 DEF SlotInv, SlotMatchesCpu
    <3>. QED
      BY <1>1, <2>2, <3>1 DEF CpuMoves
  <2>. QED
    BY <2>1, <2>2
<1>. QED
  BY <1>2, <1>3, <1>4, <1>5, <1>6

\* One instance at most halts in a step, and it leaves the slot.
LEMMA Finishers ==
    ASSUME CoreInv, SlotInv', SlotMoves,
           NEW u \in Umi, phase'[u] = "done", phase[u] # "done"
    PROVE  /\ u \in Leavers
           /\ Enters(u, "done")
<1>1. active_umi' # u /\ u # NoUmi
  BY SlotAssumption DEF SlotInv, PhaseInv
<1>2. Enters(u, "done")
  <2>1. CASE Stays
    BY <2>1 DEF Stays, Enters
  <2>2. CASE Halts
    BY <2>2 DEF Halts, Enters
  <2>3. CASE Yields
    BY <2>3 DEF Yields, Enters
  <2>4. ASSUME NEW w \in Umi, Submits(w) PROVE Enters(u, "done")
    BY <2>4 DEF Submits, Enters
  <2>. QED
    BY <2>1, <2>2, <2>3, <2>4 DEF SlotMoves
<1>. QED
  BY <1>1, <1>2 DEF Leavers

\* A table is lost only when its instance halts.
LEMMA OnlyTheHaltedLose ==
    ASSUME CoreInv, BootAlone, SlotInv', SlotMoves, CpuMoves, Rootless # {}
    PROVE  /\ Rootless = {active_umi}
           /\ active_umi \in Umi
           /\ phase'[active_umi] = "done"
<1>1. PICK u \in Leavers : ~root[u]
  BY DEF Rootless
<1>2. u \in Umi /\ u \in OnCore /\ Booted(u)
  BY <1>1, Served DEF Booted
<1>3. ~Stays
  BY DEF Rootless, Leavers, Stays, Enters
<1>4. ~Yields
  BY <1>2 DEF Yields, NoneBooted
<1>5. \A w \in Umi : ~Submits(w)
  BY <1>2 DEF Submits, MaySubmit
<1>6. Halts
  BY <1>3, <1>4, <1>5 DEF SlotMoves
<1>7. \A v \in Leavers : v = active_umi /\ active_umi' # active_umi
  BY <1>6 DEF Halts, Enters, Leavers
<1>. QED
  BY <1>1, <1>6, <1>7 DEF Rootless, Halts, Enters

-----------------------------------------------------------------------------
(* An event and what it unloads preserve the invariant                      *)

LEMMA UnloadEffect ==
    ASSUME CoreInv, BootAlone, SlotInv', SlotMoves, CpuMoves, Unload
    PROVE  /\ \A o \in Umi \cup Snap :
                 life'[o] = IF o \in Leavers /\ phase'[o] = "done" THEN "halted" ELSE life[o]
           /\ \/ Rootless = {} /\ table' = table /\ lost' = lost
              \/ /\ Rootless = {active_umi}
                 /\ active_umi \in Umi
                 /\ ~root[active_umi]
                 /\ life'[active_umi] = "halted"
                 /\ table' = [table EXCEPT ![active_umi] = Memory!Empty]
                 /\ lost' = lost \cup Memory!freePageTable(table[active_umi])
           /\ UNCHANGED <<root, snap_addr, mem, allocated>>
<1>1. /\ DOMAIN life = Umi \cup Snap
      /\ DOMAIN table = Umi \cup Snap
      /\ table \in [Umi \cup Snap -> [Page -> Memory!Pte]]
      /\ lost \subseteq Frame
  BY Owners DEF CoreInv, Memory!MemInv, Memory!TypeOK
<1>2. \A o \in Umi \cup Snap :
         life'[o] = IF o \in Leavers /\ phase'[o] = "done" THEN "halted" ELSE life[o]
  BY <1>1 DEF Unload
<1>3. CASE Rootless = {}
  <2>1. table' = [o \in DOMAIN table |-> table[o]]
    BY <1>3 DEF Unload
  <2>2. table' = table
    BY <1>1, <2>1
  <2>3. lost' = lost
    BY <1>3 DEF Unload
  <2>. QED
    BY <1>2, <1>3, <2>2, <2>3 DEF Unload
<1>4. CASE Rootless # {}
  <2>1. Rootless = {active_umi} /\ active_umi \in Umi /\ phase'[active_umi] = "done"
    BY <1>4, OnlyTheHaltedLose
  <2>2. active_umi \in Leavers /\ ~root[active_umi]
    BY <2>1 DEF Rootless
  <2>3. table' = [table EXCEPT ![active_umi] = Memory!Empty]
    BY <1>1, <2>1 DEF Unload
  <2>4. lost' = lost \cup Memory!freePageTable(table[active_umi])
    BY <2>1 DEF Unload
  <2>. QED
    BY <1>2, <2>1, <2>2, <2>3, <2>4 DEF Unload
<1>. QED
  BY <1>3, <1>4

LEMMA LifeFollows ==
    ASSUME CoreInv, BootAlone, SlotInv', SlotMoves, CpuMoves, Unload
    PROVE  LifeAgrees'
<1>. SUFFICES ASSUME NEW u \in Umi
              PROVE  /\ phase'[u] = "done" <=> life'[u] = "halted"
                     /\ phase'[u] \notin {"new", "done"} => life'[u] = "live"
  BY DEF LifeAgrees
<1>1. life'[u] = IF u \in Leavers /\ phase'[u] = "done" THEN "halted" ELSE life[u]
  BY UnloadEffect
<1>2. phase'[u] = "done" /\ phase[u] # "done" => u \in Leavers
  BY Finishers
<1>3. u \in Leavers => phase[u] \in InService
  BY Served
<1>4. phase[u] = "done" => phase'[u] = "done"
  BY DEF SlotMoves, Stays, Halts, Yields, Submits, Enters, InService
<1>5. phase[u] = "new" /\ phase'[u] # "new" => life[u] = "live"
  BY DEF SlotMoves, Stays, Halts, Yields, Submits, Enters, InService, MaySubmit
<1>6. phase'[u] = "new" => phase[u] = "new"
  BY DEF SlotMoves, Stays, Halts, Yields, Submits, Enters, InService
<1>7. /\ phase[u] = "done" <=> life[u] = "halted"
      /\ phase[u] \notin {"new", "done"} => life[u] = "live"
  BY DEF CoreInv, LifeAgrees
<1>. QED
  BY <1>1, <1>2, <1>3, <1>4, <1>5, <1>6, <1>7 DEF InService

LEMMA CodeFollows ==
    ASSUME CoreInv, BootAlone, SlotInv', SlotMoves, CpuMoves, Unload
    PROVE  CodeFetched'
<1>. SUFFICES ASSUME NEW u \in Umi, phase'[u] \in InService, cpu' # u
              PROVE  Memory!exists(table'[u][Code])
  BY DEF CodeFetched, Memory!exists, InService
<1>1. phase[u] \in InService
  <2>1. phase[u] = phase'[u] \/ phase'[u] = "done" \/ phase'[u] = "loaded" \/ cpu' = u
    BY DEF SlotMoves, Stays, Halts, Yields, Submits, Enters, InService
  <2>. QED
    BY <2>1 DEF InService
<1>2. Memory!exists(table[u][Code])
  BY <1>1, SlotAssumption DEF CoreInv, CodeFetched, CpuMoves
<1>3. table'[u] = table[u]
  <2>1. life'[u] # "halted"
    BY LifeFollows DEF LifeAgrees, InService
  <2>. QED
    BY <2>1, UnloadEffect, Owners DEF CoreInv
<1>. QED
  BY <1>2, <1>3

LEMMA BootedFollows ==
    ASSUME CoreInv, BootAlone, SlotInv', SlotMoves, CpuMoves, Unload
    PROVE  BootedIsAlone'
<1>. SUFFICES ASSUME NEW u \in OnCore', Booted(u)'
              PROVE  /\ active_umi' = u
                     /\ inactive_umi_map' = {}
                     /\ ~Has(tasks', YieldTask)
  BY DEF BootedIsAlone
<1>1. u \in Umi /\ (u = active_umi' \/ u \in inactive_umi_map')
  BY DEF OnCore
<1>2. Booted(u)
  BY <1>1, UnloadEffect DEF Booted
<1>3. /\ active_umi \in Umi \cup {NoUmi}
      /\ inactive_umi_map \subseteq Umi
      /\ u # NoUmi
  BY <1>1, SlotAssumption DEF CoreInv, SlotInv, TypeOK
<1>4. u \in OnCore => /\ active_umi = u
                      /\ inactive_umi_map = {}
                      /\ ~Has(tasks, YieldTask)
  BY <1>2 DEF CoreInv, BootedIsAlone
<1>5. CASE Stays
  BY <1>1, <1>2, <1>4, <1>5 DEF Stays, OnCore, MaySwap
<1>6. CASE Halts
  BY <1>1, <1>2, <1>3, <1>4, <1>6 DEF Halts, OnCore
<1>7. CASE Yields
  BY <1>1, <1>2, <1>3, <1>7 DEF Yields, NoneBooted, OnCore
<1>8. ASSUME NEW w \in Umi, Submits(w)
      PROVE  /\ active_umi' = u
             /\ inactive_umi_map' = {}
             /\ ~Has(tasks', YieldTask)
  <2>1. u \notin OnCore
    BY <1>2, <1>8 DEF Submits, MaySubmit
  <2>2. u = w
    BY <1>1, <1>3, <1>8, <2>1 DEF Submits, OnCore
  <2>3. OnCore = {}
    BY <1>2, <1>8, <2>2 DEF Submits, MaySubmit
  <2>. QED
    BY <1>8, <2>2, <2>3 DEF Submits
<1>. QED
  BY <1>5, <1>6, <1>7, <1>8 DEF SlotMoves

LEMMA MemoryFollows ==
    ASSUME CoreInv, BootAlone, SlotInv', SlotMoves, CpuMoves, Unload
    PROVE  Memory!MemInv'
<1>1. /\ Memory!MemInv
      /\ Memory!Owner = Umi \cup Snap
      /\ Umi \cap Snap = {}
      /\ life \in [Umi \cup Snap -> {"none", "live", "halted"}]
      /\ table \in [Umi \cup Snap -> [Page -> Memory!Pte]]
  BY Owners DEF CoreInv
<1>2. /\ active_umi \in Umi \cup {NoUmi}
      /\ active_umi' \in Umi \cup {NoUmi}
      /\ NoUmi \notin Umi
  BY SlotAssumption DEF CoreInv, SlotInv, TypeOK
<1>3. /\ Memory!Empty \in [Page -> Memory!Pte]
      /\ \A p \in Page : ~Memory!exists(Memory!Empty[p])
  BY DEF Memory!Empty, Memory!Absent, Memory!Entry, Memory!Pte, Memory!exists
<1>4. \A u \in Umi : u # active_umi => table'[u] = table[u]
  BY <1>1, <1>2, UnloadEffect
<1>5. \A s \in Snap : table'[s] = table[s] /\ life'[s] = life[s]
  <2>. TAKE s \in Snap
  <2>1. s \notin Leavers
    BY <1>1, Served
  <2>. QED
    BY <1>1, <2>1, UnloadEffect
<1>6. /\ tlb' \in [{"core"} -> [Page -> Memory!Pte]]
      /\ tlb' = tlb \/ \A p \in Page : ~Memory!exists(tlb'["core"][p])
      /\ Leavers = {} => tlb' = tlb
  <2>1. tlb \in [{"core"} -> [Page -> Memory!Pte]]
    BY <1>1 DEF Memory!MemInv, Memory!TypeOK
  <2>. QED
    BY <1>3, <2>1 DEF Unload, Memory!FlushedAll
<1>7. Memory!TypeOK'
  <2>1. life' \in [Umi \cup Snap -> {"none", "live", "halted"}]
    BY <1>1 DEF Unload
  <2>2. table' \in [Umi \cup Snap -> [Page -> Memory!Pte]]
    BY <1>1, <1>3, UnloadEffect
  <2>3. lost' \subseteq Frame
    <3>1. ASSUME NEW u \in Umi PROVE Memory!freePageTable(table[u]) \subseteq Frame
      BY <1>1, SameMemory, SameAssumption, M!WritableEntry, M!Freed
         DEF M!MemInv
    <3>. QED
      BY <1>1, <3>1, UnloadEffect DEF Memory!MemInv, Memory!TypeOK
  <2>4. [c \in {"core"} |-> active_umi]' \in [{"core"} -> Umi \cup {NoUmi}]
    BY <1>2
  <2>. QED
    BY <1>1, <1>6, <2>1, <2>2, <2>3, <2>4, UnloadEffect DEF Memory!MemInv, Memory!TypeOK
<1>8. Memory!LifeInv'
  <2>1. \A o \in Memory!Owner : life'[o] = "none" => ~root'[o] /\ table'[o] = Memory!Empty
    BY <1>1, UnloadEffect DEF Memory!MemInv, Memory!LifeInv
  <2>2. \A s \in Snap : life'[s] # "halted" /\ (life'[s] = "live" => root'[s])
    BY <1>1, <1>5, UnloadEffect DEF Memory!MemInv, Memory!LifeInv
  <2>3. active_umi' # NoUmi => life'[active_umi'] = "live"
    <3>1. active_umi' # NoUmi => active_umi' \in Umi /\ phase'[active_umi'] \notin {"new", "done"}
      BY <1>2 DEF SlotInv, PhaseInv
    <3>. QED
      BY <3>1, LifeFollows DEF LifeAgrees
  <2>4. \A u \in Umi : ~root'[u] /\ active_umi' # u => table'[u] = Memory!Empty
    <3>. SUFFICES ASSUME NEW u \in Umi, ~root'[u], active_umi' # u
                  PROVE  table'[u] = Memory!Empty
      OBVIOUS
    <3>1. ~root[u]
      BY UnloadEffect
    <3>2. CASE u = active_umi
      <4>1. u \in Rootless
        BY <1>2, <3>1, <3>2 DEF Rootless, Leavers
      <4>. QED
        BY <1>1, <3>2, <4>1, UnloadEffect
    <3>3. CASE u # active_umi
      <4>1. table[u] = Memory!Empty
        BY <1>1, <3>1, <3>3 DEF Memory!MemInv, Memory!LifeInv, Memory!Loaded
      <4>. QED
        BY <1>4, <3>3, <4>1
    <3>. QED
      BY <3>2, <3>3
  <2>. QED
    BY <1>2, <2>1, <2>2, <2>3, <2>4 DEF Memory!LifeInv, Memory!Running, Memory!Loaded
<1>9. Memory!TlbCoherent'
  <2>. SUFFICES ASSUME NEW p \in Page, Memory!exists(tlb'["core"][p])
                PROVE  /\ active_umi' # NoUmi
                       /\ tlb'["core"][p].frame = table'[active_umi'][p].frame
                       /\ tlb'["core"][p].rw = table'[active_umi'][p].rw
    BY DEF Memory!TlbCoherent, Memory!Running, Memory!exists
  <2>1. tlb' = tlb
    BY <1>6
  <2>2. /\ active_umi # NoUmi
        /\ tlb["core"][p].frame = table[active_umi][p].frame
        /\ tlb["core"][p].rw = table[active_umi][p].rw
    BY <1>1, <2>1 DEF Memory!MemInv, Memory!TlbCoherent, Memory!Running
  <2>3. Leavers = {}
    <3>1. Leavers # {} => tlb' = Memory!FlushedAll("core")
      BY DEF Unload
    <3>2. tlb \in [{"core"} -> [Page -> Memory!Pte]]
      BY <1>1 DEF Memory!MemInv, Memory!TypeOK
    <3>. QED
      BY <1>3, <3>1, <3>2 DEF Memory!FlushedAll
  <2>4. active_umi' = active_umi
    BY <1>2, <2>2, <2>3 DEF Leavers
  <2>5. table' = table
    BY <2>3, UnloadEffect DEF Rootless
  <2>. QED
    BY <2>1, <2>2, <2>4, <2>5
<1>10. M!MemInv /\ M!TypeOK' /\ M!LifeInv' /\ M!TlbCoherent'
  BY <1>1, <1>7, <1>8, <1>9, SameMemory, SamePartsNext
<1>11. /\ \A s \in Snap : life[s] = "live" => life'[s] = "live"
       /\ UNCHANGED <<mem, allocated>>
  BY <1>5, UnloadEffect
<1>12. CASE Rootless = {}
  <2>1. table' = table /\ lost' = lost
    BY <1>12, UnloadEffect
  <2>2. M!MemInv'
    BY <1>10, <1>11, <2>1, SameAssumption, M!TablesUnchanged
  <2>. QED
    BY <2>2, SameMemoryNext
<1>13. CASE Rootless # {}
  <2>1. /\ active_umi \in Umi
        /\ table' = [table EXCEPT ![active_umi] = M!Empty]
        /\ lost' = lost \cup M!freePageTable(table[active_umi])
    BY <1>13, UnloadEffect, SameMemory
  <2>2. M!MemInv'
    BY <1>10, <1>11, <2>1, SameAssumption, M!TableDropped
  <2>. QED
    BY <2>2, SameMemoryNext
<1>. QED
  BY <1>12, <1>13

-----------------------------------------------------------------------------
(* Instances and snapshots come and go, and guests access memory            *)

LEMMA SameActions ==
    /\ \A u \in Umi : Memory!Boot(u) => M!Boot(u)
    /\ \A u \in Umi, s \in Snap : Memory!Deploy(u, s) => M!Deploy(u, s)
    /\ \A u \in Umi : Memory!SetCheckpoint(u) => M!SetCheckpoint(u)
    /\ \A o : Memory!Destroy(o) => M!Destroy(o)
    /\ \A p, v : Memory!Store("core", p, v) => M!Store("core", p, v)
    /\ \A p, write : Memory!PageFault("core", p, write) => M!PageFault("core", p, write)
    /\ \A s : Memory!Checkpoint("core", s) => M!Checkpoint("core", s)
<1>1. /\ \A u \in Umi : Memory!Boot(u) => M!Boot(u)
      /\ \A u \in Umi : Memory!SetCheckpoint(u) => M!SetCheckpoint(u)
  BY DEF Memory!Boot, M!Boot, Memory!SetCheckpoint, M!SetCheckpoint, Memory!Loaded, M!Loaded
<1>2. \A u \in Umi, s \in Snap : Memory!Deploy(u, s) => M!Deploy(u, s)
  BY DEF Memory!Deploy, M!Deploy, Memory!walkPgTblCOW, M!walkPgTblCOW,
         Memory!findAndSetPTECOW, M!findAndSetPTECOW,
         Memory!Absent, M!Absent, Memory!Entry, M!Entry
<1>3. \A o : Memory!Destroy(o) => M!Destroy(o)
  BY DEF Memory!Destroy, M!Destroy, Memory!InUse, M!InUse, Memory!Owner, M!Owner,
         Memory!freePageTable, M!freePageTable, Memory!Leaves, M!Leaves,
         Memory!exists, M!exists,
         Memory!Empty, M!Empty, Memory!Absent, M!Absent, Memory!Entry, M!Entry
<1>4. \A p, v : Memory!Store("core", p, v) => M!Store("core", p, v)
  BY DEF Memory!Store, M!Store, Memory!Running, M!Running,
         Memory!Translation, M!Translation, Memory!mapIntoPgTbl, M!mapIntoPgTbl,
         Memory!exists, M!exists, Memory!Absent, M!Absent, Memory!Entry, M!Entry
<1>5. \A p, write : Memory!PageFault("core", p, write) => M!PageFault("core", p, write)
  BY DEF Memory!PageFault, M!PageFault, Memory!Running, M!Running,
         Memory!Translation, M!Translation, Memory!mapIntoPgTbl, M!mapIntoPgTbl,
         Memory!BackingFrames, M!BackingFrames, Memory!BackingContent, M!BackingContent,
         Memory!FlushedPage, M!FlushedPage,
         Memory!exists, M!exists, Memory!Absent, M!Absent, Memory!Entry, M!Entry
<1>6. \A s : Memory!Checkpoint("core", s) => M!Checkpoint("core", s)
  BY DEF Memory!Checkpoint, M!Checkpoint, Memory!Running, M!Running,
         Memory!ToCopy, M!ToCopy, Memory!walkPgTblCopyDirtyCOW, M!walkPgTblCopyDirtyCOW,
         Memory!copyDirtyPages, M!copyDirtyPages,
         Memory!findAndSetPTECOW, M!findAndSetPTECOW, Memory!FlushedAll, M!FlushedAll,
         Memory!Empty, M!Empty, Memory!Absent, M!Absent, Memory!Entry, M!Entry
<1>. QED
  BY <1>1, <1>2, <1>3, <1>4, <1>5, <1>6

\* Clients and guests do what the memory system lets them, and nothing else.
LEMMA ActionsRefine ==
    ASSUME Making \/ Accesses \/ UNCHANGED coreVars
    PROVE  [M!Next]_(M!vars)
<1>1. CASE Making
  <2>1. M!Client
    <3>1. ASSUME NEW u \in Umi, Make(u) PROVE M!Client
      BY <3>1, SameActions DEF Make, M!Client
    <3>2. ASSUME NEW o \in Umi \cup Snap, Memory!Destroy(o) PROVE M!Client
      BY <3>2, SameActions DEF M!Client, M!Owner
    <3>. QED
      BY <1>1, <3>1, <3>2 DEF Making, Destroy
  <2>. QED
    BY <2>1 DEF M!Next
<1>2. CASE Accesses
  <2>1. M!Guest
    BY <1>2, SameActions DEF Accesses, M!Guest
  <2>. QED
    BY <2>1 DEF M!Next
<1>3. CASE UNCHANGED coreVars
  BY <1>3 DEF coreVars, vars, slotVars, memory, M!vars
<1>. QED
  BY <1>1, <1>2, <1>3

LEMMA ActionsKeepMemory ==
    ASSUME CoreInv, Making \/ Accesses \/ UNCHANGED coreVars
    PROVE  Memory!MemInv'
<1>1. M!MemInv /\ [M!Next]_(M!vars)
  BY SameMemory, ActionsRefine DEF CoreInv
<1>2. M!MemInv'
  BY <1>1, SameAssumption, M!StepInv
<1>. QED
  BY <1>2, SameMemoryNext

\* An instance that is destroyed has left nothing in the slot, and has no events.
LEMMA DestroySafe ==
    ASSUME SlotInv, NEW u \in Umi, Destroy(u)
    PROVE  SlotInv'
<1>1. /\ phase[u] = "done"
      /\ phase' = [phase EXCEPT ![u] = "new"]
      /\ is_active' = [is_active EXCEPT ![u] = TRUE]
      /\ blocked' = [blocked EXCEPT ![u] = FALSE]
      /\ timer_set' = [timer_set EXCEPT ![u] = FALSE]
      /\ umi_recv_queue' = [umi_recv_queue EXCEPT ![u] = 0]
      /\ halts' = [halts EXCEPT ![u] = 0]
      /\ UNCHANGED <<slotVars, tasks, cpu, fault>>
  BY DEF Destroy
<1>2. TypeOK /\ phase \in [Umi -> Phase]
  BY DEF SlotInv, TypeOK
<1>3. \A w \in Umi : phase'[w] = IF w = u THEN "new" ELSE phase[w]
  BY <1>1, <1>2
<1>4. \A w \in Umi : w # u => blocked'[w] = blocked[w] /\ timer_set'[w] = timer_set[w]
  BY <1>1, <1>2 DEF TypeOK
<1>5. blocked'[u] = FALSE /\ timer_set'[u] = FALSE
  BY <1>1, <1>2 DEF TypeOK
<1>6. u \notin inactive_umi_map /\ active_umi # u /\ cpu # u
  BY <1>1, SlotAssumption DEF SlotInv, PhaseInv, SlotMatchesCpu
<1>7. TypeOK'
  BY <1>1, <1>2 DEF TypeOK, slotVars, Phase
<1>8. (NoFault /\ QueueMatchesMap /\ SlotMatchesCpu /\ ProxyFollowsSlot)'
  BY <1>1 DEF SlotInv, NoFault, QueueMatchesMap, SlotMatchesCpu, ProxyFollowsSlot, slotVars
<1>9. PhaseInv'
  <2>1. PhaseInv /\ active_umi \in Umi \cup {NoUmi} /\ cpu \in Umi \cup {NoUmi}
    BY <1>2 DEF SlotInv, TypeOK
  <2>2. \A w \in Umi :
           phase'[w] \in {"new", "done"} <=> w \notin inactive_umi_map /\ active_umi # w
    BY <1>3, <1>6, <2>1 DEF PhaseInv
  <2>3. \A w \in Umi :
           w \in activation_promise_map <=> w \in inactive_umi_map /\ phase'[w] = "loaded"
    BY <1>3, <1>6, <2>1 DEF PhaseInv
  <2>4. active_umi # NoUmi => (status = "loaded" <=> phase'[active_umi] = "loaded")
    BY <1>3, <1>6, <2>1 DEF PhaseInv
  <2>5. \A w \in Umi : /\ blocked'[w] => phase'[w] \in InService \cup {"done"}
                       /\ timer_set'[w] => blocked'[w]
    BY <1>3, <1>4, <1>5, <2>1 DEF PhaseInv
  <2>6. cpu # NoUmi => ~blocked'[cpu] /\ phase'[cpu] \in InService
    BY <1>3, <1>4, <1>6, <2>1 DEF PhaseInv
  <2>. QED
    BY <1>1, <2>1, <2>2, <2>3, <2>4, <2>5, <2>6 DEF PhaseInv, slotVars
<1>10. TaskInv(tasks)'
  <2>1. TaskInv(tasks) /\ tasks' = tasks /\ UNCHANGED slotVars /\ cpu' = cpu
    BY <1>1 DEF SlotInv
  <2>2. ResumeInv(tasks)'
    <3>. SUFFICES ASSUME NEW w \in Umi
                  PROVE  /\ Has(tasks, ResumeTask(w)) <=>
                               phase'[w] \in InService /\ ~blocked'[w] /\ cpu # w
                         /\ AtMostOnce(tasks, ResumeTask(w))
      BY <2>1 DEF ResumeInv
    <3>1. /\ Has(tasks, ResumeTask(w)) <=> phase[w] \in InService /\ ~blocked[w] /\ cpu # w
          /\ AtMostOnce(tasks, ResumeTask(w))
      BY <2>1 DEF TaskInv, ResumeInv
    <3>2. CASE w = u
      BY <1>1, <1>3, <3>1, <3>2 DEF InService
    <3>3. CASE w # u
      BY <1>3, <1>4, <3>1, <3>3
    <3>. QED
      BY <3>2, <3>3
  <2>. QED
    BY <2>1, <2>2 DEF TaskInv, StartInv, EventInv, slotVars
<1>. QED
  BY <1>7, <1>8, <1>9, <1>10 DEF SlotInv

LEMMA SlotFollows ==
    ASSUME CoreInv, Protocol, [CoreNext]_coreVars
    PROVE  SlotInv'
<1>1. ASSUME UNCHANGED vars PROVE SlotInv'
  BY <1>1, SlotInvStep DEF CoreInv
<1>2. CASE Handlers
  <2>1. Next
    BY <1>2 DEF Handlers, Submission, Hypercall, Next, Client
  <2>. QED
    BY <2>1, SlotInvStep DEF CoreInv
<1>3. CASE Making
  BY <1>1, <1>3, DestroySafe DEF Making, Make, CoreInv
<1>4. CASE Accesses
  BY <1>1, <1>4 DEF Accesses
<1>5. CASE UNCHANGED coreVars
  BY <1>1, <1>5 DEF coreVars
<1>. QED
  BY <1>2, <1>3, <1>4, <1>5 DEF CoreNext

\* Nobody enters or leaves the slot, and what is submitted stays as it is; instances that
\* are new are made, and those that are done may go.
Settled ==
    /\ UNCHANGED <<active_umi, inactive_umi_map, tasks, cpu>>
    /\ \A u \in Umi : phase[u] \notin {"new", "done"} =>
          /\ phase'[u] = phase[u]
          /\ life'[u] = life[u]
          /\ root'[u] = root[u]
          /\ Memory!exists(table[u][Code]) => Memory!exists(table'[u][Code])
    /\ \A u \in Umi : phase[u] = "new" => phase'[u] = "new" /\ life'[u] # "halted"
    /\ \A u \in Umi : phase[u] = "done" =>
          \/ phase'[u] = "done" /\ life'[u] = life[u]
          \/ phase'[u] = "new" /\ life'[u] = "none"

LEMMA MakingSettles ==
    ASSUME CoreInv, Making
    PROVE  Settled
<1>1. /\ life \in [Umi \cup Snap -> {"none", "live", "halted"}]
      /\ root \in [Umi \cup Snap -> BOOLEAN]
      /\ table \in [Umi \cup Snap -> [Page -> Memory!Pte]]
      /\ phase \in [Umi -> Phase]
      /\ Umi \cap Snap = {}
      /\ Memory!Owner = Umi \cup Snap
  BY Owners DEF CoreInv, SlotInv, TypeOK
<1>2. \A u \in Umi : phase[u] = "new" => life[u] # "halted"
  BY DEF CoreInv, LifeAgrees
<1>3. ASSUME NEW u \in Umi, Make(u) PROVE Settled
  <2>1. UNCHANGED <<active_umi, inactive_umi_map, tasks, cpu, phase>> /\ phase[u] = "new"
    BY <1>3 DEF Make, vars, slotVars
  <2>2. \A w \in Umi : w # u => UNCHANGED <<life[w], root[w], table[w]>>
    BY <1>1, <1>3 DEF Make, Memory!Boot, Memory!Deploy, Memory!SetCheckpoint
  <2>3. life'[u] = "live"
    BY <1>1, <1>3 DEF Make, Memory!Boot, Memory!Deploy, Memory!SetCheckpoint
  <2>. QED
    BY <1>2, <2>1, <2>2, <2>3 DEF Settled
<1>4. ASSUME NEW o \in Umi \cup Snap, Memory!Destroy(o)
      PROVE  /\ \A w \in Umi : w # o => UNCHANGED <<life[w], root[w], table[w]>>
             /\ life'[o] = "none"
  BY <1>1, <1>4 DEF Memory!Destroy
<1>5. ASSUME NEW u \in Umi, Destroy(u) PROVE Settled
  <2>1. /\ phase[u] = "done"
        /\ UNCHANGED <<active_umi, inactive_umi_map, tasks, cpu>>
        /\ \A w \in Umi : phase'[w] = IF w = u THEN "new" ELSE phase[w]
    BY <1>1, <1>5 DEF Destroy, slotVars
  <2>2. /\ \A w \in Umi : w # u => UNCHANGED <<life[w], root[w], table[w]>>
        /\ life'[u] = "none"
    BY <1>4, <1>5 DEF Destroy
  <2>. QED
    BY <1>2, <2>1, <2>2 DEF Settled
<1>6. ASSUME NEW s \in Snap, UNCHANGED vars, Memory!Destroy(s) PROVE Settled
  <2>1. UNCHANGED <<active_umi, inactive_umi_map, tasks, cpu, phase>>
    BY <1>6 DEF vars, slotVars
  <2>2. \A w \in Umi : UNCHANGED <<life[w], root[w], table[w]>>
    BY <1>1, <1>4, <1>6
  <2>. QED
    BY <1>2, <2>1, <2>2 DEF Settled
<1>. QED
  BY <1>3, <1>5, <1>6 DEF Making

LEMMA AccessesSettle ==
    ASSUME CoreInv, Accesses
    PROVE  Settled
<1>1. /\ life \in [Umi \cup Snap -> {"none", "live", "halted"}]
      /\ root \in [Umi \cup Snap -> BOOLEAN]
      /\ table \in [Umi \cup Snap -> [Page -> Memory!Pte]]
      /\ Umi \cap Snap = {}
      /\ M!Owner = Umi \cup Snap
      /\ M!MemInv
      /\ Code \in Page
  BY Owners, SameMemory, CoreAssumption DEF CoreInv
<1>2. UNCHANGED <<active_umi, inactive_umi_map, tasks, cpu, phase>>
  BY DEF Accesses, vars, slotVars
<1>3. \A u \in Umi : phase[u] = "new" => life[u] # "halted"
  BY DEF CoreInv, LifeAgrees
<1>4. ASSUME \A w \in Umi : life'[w] = life[w] /\ root'[w] = root[w],
             \A w \in Umi : table[w][Code].frame # NoFrame => table'[w][Code].frame # NoFrame
      PROVE  Settled
  BY <1>2, <1>3, <1>4 DEF Settled, Memory!exists
<1>5. ASSUME NEW p \in Page, NEW v \in Val, M!Store("core", p, v) PROVE Settled
  <2>. DEFINE u == [c \in {"core"} |-> active_umi]["core"]
  <2>1. /\ UNCHANGED <<life, root>>
        /\ \A o \in M!Owner : o # u => table'[o] = table[o]
        /\ \A q \in Page : q # p => table'[u][q] = table[u][q]
        /\ table'[u][p].frame = table[u][p].frame
    BY <1>1, <1>5, SameAssumption, M!StoreEffect
  <2>. HIDE DEF u
  <2>2. \A w \in Umi : table'[w][Code].frame = table[w][Code].frame
    BY <1>1, <2>1
  <2>. QED
    BY <1>4, <2>1, <2>2
<1>6. ASSUME NEW p \in Page, NEW write \in BOOLEAN, M!PageFault("core", p, write) PROVE Settled
  <2>. DEFINE u == [c \in {"core"} |-> active_umi]["core"]
  <2>1. /\ UNCHANGED <<life, root>>
        /\ \E f \in Frame \cup M!Elf : M!Backed(u, p, write, f)
    <3>1. UNCHANGED <<life, root>>
      BY <1>1, <1>6, SameAssumption, M!PageFaultEffect
    <3>2. \E f \in Frame \cup M!Elf : M!Backed(u, p, write, f)
      BY <1>1, <1>6, SameAssumption, M!PageFaultBacks
    <3>. QED
      BY <3>1, <3>2
  <2>. HIDE DEF u
  <2>2. PICK f \in Frame \cup M!Elf : M!Backed(u, p, write, f)
    BY <2>1
  <2>3. /\ table' = [table EXCEPT ![u] =
                       [table[u] EXCEPT ![p] = M!Entry(f, p \in Writable, write)]]
        /\ f # NoFrame
    BY <2>2, CoreAssumption DEF M!Backed, M!Elf
  <2>4. M!Entry(f, p \in Writable, write).frame = f
    BY DEF M!Entry
  <2>5. \A w \in Umi : table[w][Code].frame # NoFrame => table'[w][Code].frame # NoFrame
    <3>. DEFINE e == M!Entry(f, p \in Writable, write)
    <3>1. e.frame # NoFrame
      BY <2>3, <2>4
    <3>2. table' = [table EXCEPT ![u] = [table[u] EXCEPT ![p] = e]]
      BY <2>3
    <3>. HIDE DEF e
    <3>3. \A w \in Umi : \/ table'[w] = table[w]
                         \/ table'[w] = [table[w] EXCEPT ![p] = e]
      BY <1>1, <3>2
    <3>. SUFFICES ASSUME NEW w \in Umi, table[w][Code].frame # NoFrame
                  PROVE  table'[w][Code].frame # NoFrame
      OBVIOUS
    <3>4. CASE table'[w] = table[w]
      BY <3>4
    <3>5. CASE table'[w] = [table[w] EXCEPT ![p] = e]
      <4>1. DOMAIN table[w] = Page
        BY <1>1
      <4>2. table'[w][Code] = e \/ table'[w][Code] = table[w][Code]
        BY <1>1, <3>5, <4>1
      <4>. QED
        BY <3>1, <4>2
    <3>. QED
      BY <3>3, <3>4, <3>5
  <2>. QED
    BY <1>4, <2>1, <2>5
<1>7. ASSUME NEW s \in Snap, M!Checkpoint("core", s) PROVE Settled
  <2>. DEFINE u == [c \in {"core"} |-> active_umi]["core"]
  <2>1. /\ life' = [life EXCEPT ![s] = "live"]
        /\ root' = [root EXCEPT ![s] = TRUE]
        /\ \E fresh \in [M!ToCopy(table[u]) -> Frame \ allocated] : M!Copied(u, s, fresh)
    BY <1>1, <1>7, SameAssumption, M!CheckpointEffect
  <2>. HIDE DEF u
  <2>2. \A o \in M!Owner : o # s => table'[o] = table[o]
    BY <2>1 DEF M!Copied
  <2>3. \A w \in Umi : w # s
    BY <1>1
  <2>. QED
    BY <1>1, <1>4, <2>1, <2>2, <2>3
<1>. QED
  BY <1>5, <1>6, <1>7, SameActions DEF Accesses

LEMMA SettledKeeps ==
    ASSUME CoreInv, Settled
    PROVE  LifeAgrees' /\ CodeFetched' /\ BootedIsAlone'
<1>1. LifeAgrees'
  <2>. SUFFICES ASSUME NEW u \in Umi
                PROVE  /\ phase'[u] = "done" <=> life'[u] = "halted"
                       /\ phase'[u] \notin {"new", "done"} => life'[u] = "live"
    BY DEF LifeAgrees
  <2>1. /\ phase[u] = "done" <=> life[u] = "halted"
        /\ phase[u] \notin {"new", "done"} => life[u] = "live"
    BY DEF CoreInv, LifeAgrees
  <2>. QED
    BY <2>1 DEF Settled
<1>2. CodeFetched'
  <2>. SUFFICES ASSUME NEW u \in Umi, phase'[u] \in InService, cpu' # u
                PROVE  Memory!exists(table'[u][Code])
    BY DEF CodeFetched, Memory!exists, InService
  <2>. QED
    BY DEF Settled, CoreInv, CodeFetched, InService
<1>3. BootedIsAlone'
  <2>. SUFFICES ASSUME NEW u \in OnCore', Booted(u)'
                PROVE  /\ active_umi' = u
                       /\ inactive_umi_map' = {}
                       /\ ~Has(tasks', YieldTask)
    BY DEF BootedIsAlone
  <2>1. u \in Umi /\ u \in OnCore
    BY DEF OnCore, Settled
  <2>2. phase[u] \notin {"new", "done"}
    BY <2>1 DEF CoreInv, SlotInv, PhaseInv, OnCore
  <2>3. Booted(u)
    BY <2>1, <2>2 DEF Settled, Booted
  <2>. QED
    BY <2>1, <2>3 DEF CoreInv, BootedIsAlone, Settled
<1>. QED
  BY <1>1, <1>2, <1>3

LEMMA IdleSettles ==
    ASSUME CoreInv, UNCHANGED coreVars
    PROVE  Settled
  BY DEF coreVars, vars, slotVars, memory, Settled, CoreInv, LifeAgrees

LEMMA CoreStep ==
    ASSUME Protocol, BootAlone, CoreInv, [CoreNext]_coreVars
    PROVE  CoreInv'
<1>1. SlotInv'
  BY SlotFollows
<1>2. CASE Handlers /\ Unload
  <2>1. SlotMoves /\ CpuMoves
    BY <1>2, HandlersMove DEF CoreInv
  <2>. QED
    BY <1>1, <1>2, <2>1, LifeFollows, CodeFollows, BootedFollows, MemoryFollows DEF CoreInv
<1>3. CASE Making \/ Accesses \/ UNCHANGED coreVars
  <2>1. Settled
    BY <1>3, MakingSettles, AccessesSettle, IdleSettles
  <2>. QED
    BY <1>1, <1>3, <2>1, SettledKeeps, ActionsKeepMemory DEF CoreInv
<1>. QED
  BY <1>2, <1>3 DEF CoreNext

LEMMA CoreStarts ==
    ASSUME Protocol, CoreInit
    PROVE  CoreInv
<1>1. Init /\ Memory!Init
  BY DEF CoreInit
<1>2. SlotInv
  BY <1>1, SlotInvInit
<1>3. Memory!MemInv
  <2>1. M!Init
    BY <1>1 DEF Memory!Init, M!Init, Memory!Owner, M!Owner, Memory!Elf, M!Elf,
                Memory!Empty, M!Empty, Memory!Absent, M!Absent, Memory!Entry, M!Entry
  <2>2. M!MemInv
    BY <2>1, SameAssumption, M!InitInv
  <2>. QED
    BY <2>2, SameMemory
<1>4. \A u \in Umi : phase[u] = "new" /\ life[u] = "none"
  BY <1>1 DEF Init, Memory!Init, Memory!Owner
<1>5. OnCore = {}
  BY <1>1, SlotAssumption DEF Init, OnCore
<1>. QED
  BY <1>2, <1>3, <1>4, <1>5 DEF CoreInv, LifeAgrees, CodeFetched, BootedIsAlone, InService

-----------------------------------------------------------------------------
(* Theorems                                                                 *)

\* The manager's view of instances and that of the memory system agree in every state:
\* whatever timers, packets, yields, halts and faults interleave, an instance that has
\* executed can be unloaded (the kassert in slot_unload_instance), what waits in the map
\* can be loaded, and an instance booted from the image is alone on its core.
THEOREM CoreInvariance ==
    ASSUME Protocol, BootAlone
    PROVE  CoreSpec => []CoreInv
<1>1. CoreInit => CoreInv
  BY CoreStarts
<1>2. CoreInv /\ [CoreNext]_coreVars => CoreInv'
  BY CoreStep
<1>. QED
  BY <1>1, <1>2, PTL DEF CoreSpec

LEMMA SameViews ==
    /\ \A o : Memory!View(o) = M!View(o)
    /\ \A o : Memory!View(o)' = M!View(o)'
<1>1. \A o : Memory!View(o) = M!View(o)
  BY DEF Memory!View, M!View, Memory!exists, M!exists
<1>2. \A o : Memory!View(o)' = M!View(o)'
  BY DEF Memory!View, M!View, Memory!exists, M!exists
<1>. QED
  BY <1>1, <1>2

LEMMA SettledStays ==
    ASSUME Settled
    PROVE  Leavers = {}
<1>. SUFFICES ASSUME NEW u \in Leavers PROVE FALSE
  OBVIOUS
<1>1. u \in Umi /\ phase'[u] = "done" /\ phase[u] # "done"
  BY DEF Leavers, Settled
<1>. QED
  BY <1>1 DEF Settled

LEMMA UnloadKeepsViews ==
    ASSUME CoreInv, BootAlone, SlotInv', SlotMoves, CpuMoves, Unload,
           NEW o \in Umi \cup Snap, life'[o] = life[o]
    PROVE  M!View(o)' = M!View(o)
<1>1. M!MemInv /\ o \in M!Owner /\ DOMAIN table = Umi \cup Snap
  BY Owners, SameMemory DEF CoreInv
<1>2. life[o] = "live" => table'[o] = table[o]
  <2>1. \/ table' = table
        \/ table' = [table EXCEPT ![active_umi] = Memory!Empty] /\ life'[active_umi] = "halted"
    BY UnloadEffect
  <2>. QED
    BY <1>1, <2>1
<1>3. mem' = mem
  BY DEF Unload
<1>. QED
  BY <1>1, <1>2, <1>3, SameAssumption, M!SameView

LEMMA MakingKeepsViews ==
    ASSUME CoreInv, Making, NEW o \in Umi \cup Snap, life[o] = "live", life'[o] = "live"
    PROVE  M!View(o)' = M!View(o)
<1>1. /\ DOMAIN table = Umi \cup Snap
      /\ DOMAIN life = Umi \cup Snap
      /\ o \in M!Owner
  BY Owners, SameMemory DEF CoreInv
<1>2. mem' = mem /\ table'[o] = table[o]
  <2>1. ASSUME NEW u \in Umi, Make(u) PROVE mem' = mem /\ table'[o] = table[o]
    BY <1>1, <2>1 DEF Make, Memory!Boot, Memory!Deploy, Memory!SetCheckpoint
  <2>2. ASSUME NEW d \in Umi \cup Snap, Memory!Destroy(d)
        PROVE  mem' = mem /\ table'[o] = table[o]
    BY <1>1, <2>2 DEF Memory!Destroy
  <2>. QED
    BY <2>1, <2>2 DEF Making, Destroy
<1>. QED
  BY <1>1, <1>2, SameAssumption, M!SameView

LEMMA AccessesKeepViews ==
    ASSUME CoreInv, Accesses, NEW o \in Umi, o # cpu
    PROVE  M!View(o)' = M!View(o)
<1>1. /\ M!MemInv
      /\ M!Owner = Umi \cup Snap
      /\ Umi \cap Snap = {}
      /\ cpu = active_umi
      /\ cpu \in Umi
  BY Owners, SameMemory DEF CoreInv, SlotInv, TypeOK, SlotMatchesCpu, Accesses
<1>. DEFINE slot == [c \in {"core"} |-> active_umi]
<1>2. slot["core"] = cpu
  BY <1>1
<1>. HIDE DEF slot
<1>. DEFINE content == [q \in Umi \cup Snap |-> M!View(q)]
<1>3. content[o] = M!View(o) /\ content'[o] = M!View(o)'
  BY DEF content
<1>4. ASSUME NEW p \in Page, NEW v \in Val, M!Store("core", p, v)
      PROVE  M!View(o)' = M!View(o)
  <2>1. M!AS!Store(cpu, p, v)
    BY <1>1, <1>2, <1>4, SameAssumption, M!StoreRefines DEF slot
  <2>2. content' = [content EXCEPT ![cpu] = [@ EXCEPT ![p] = v]]
    BY <1>1, <2>1 DEF M!AS!Store
  <2>3. content'[o] = content[o]
    BY <2>2
  <2>. QED
    BY <1>3, <2>3
<1>5. ASSUME NEW p \in Page, NEW write \in BOOLEAN, M!PageFault("core", p, write)
      PROVE  M!View(o)' = M!View(o)
  BY <1>1, <1>2, <1>5, SameAssumption, M!PageFaultViews DEF slot
<1>6. ASSUME NEW s \in Snap, M!Checkpoint("core", s)
      PROVE  M!View(o)' = M!View(o)
  <2>1. M!AS!Take(cpu, s)
    BY <1>1, <1>2, <1>6, SameAssumption, M!CheckpointRefines DEF slot
  <2>2. content' = [content EXCEPT ![s] = content[cpu]]
    BY <1>1, <2>1 DEF M!AS!Take
  <2>3. content'[o] = content[o]
    BY <1>1, <2>2
  <2>. QED
    BY <1>3, <2>3
<1>. QED
  BY <1>4, <1>5, <1>6, SameActions DEF Accesses

LEMMA TablesFollow ==
    ASSUME Protocol, BootAlone, CoreInv, CoreNext
    PROVE  UnloadFindsRoot /\ OnlyItsGuestWrites
<1>. USE SameViews
<1>1. CASE Handlers /\ Unload
  <2>1. SlotInv' /\ SlotMoves /\ CpuMoves
    BY <1>1, HandlersMove, SlotFollows DEF CoreInv
  <2>2. UnloadFindsRoot
    BY <2>1, Served, CoreAssumption DEF UnloadFindsRoot
  <2>3. OnlyItsGuestWrites
    BY <1>1, <2>1, UnloadKeepsViews DEF OnlyItsGuestWrites
  <2>. QED
    BY <2>2, <2>3
<1>2. CASE Making
  <2>1. Leavers = {}
    BY <1>2, MakingSettles, SettledStays
  <2>2. OnlyItsGuestWrites
    BY <1>2, MakingKeepsViews DEF OnlyItsGuestWrites
  <2>. QED
    BY <2>1, <2>2 DEF UnloadFindsRoot
<1>3. CASE Accesses
  <2>1. Leavers = {}
    BY <1>3, AccessesSettle, SettledStays
  <2>2. OnlyItsGuestWrites
    BY <1>3, AccessesKeepViews DEF OnlyItsGuestWrites
  <2>. QED
    BY <2>1, <2>2 DEF UnloadFindsRoot
<1>. QED
  BY <1>1, <1>2, <1>3 DEF CoreNext

\* Page tables follow the slot: an instance that leaves it has a root (the kassert in
\* slot_unload_instance), and the memory of an instance changes only while its own guest
\* executes (slot_load_instance, request_slot_entry, process_pagefault).
THEOREM TablesFollowTheSlot ==
    ASSUME Protocol, BootAlone
    PROVE  CoreSpec => MemoryFollowsSlot
<1>1. CoreInv /\ [CoreNext]_coreVars => [UnloadFindsRoot /\ OnlyItsGuestWrites]_coreVars
  BY TablesFollow
<1>. QED
  BY <1>1, CoreInvariance, PTL DEF CoreSpec, MemoryFollowsSlot

\* An instance that yields leaves the slot with its memory (slot_unload_instance), if what
\* was booted from the image never yields.
THEOREM YieldersKeepMemory ==
    ASSUME Protocol, BootAlone
    PROVE  CoreSpec => YieldKeepsMemory
<1>. DEFINE Kept == \A u \in Umi : active_umi = u /\ active_umi' # u /\ life'[u] = "live" =>
                       Memory!View(u)' = Memory!View(u)
<1>1. ASSUME CoreInv, CoreNext PROVE Kept
  <2>1. CASE Handlers /\ Unload
    <3>1. SlotInv' /\ SlotMoves /\ CpuMoves
      BY <1>1, <2>1, HandlersMove, SlotFollows DEF CoreInv
    <3>. SUFFICES ASSUME NEW u \in Umi, active_umi = u, active_umi' # u, life'[u] = "live"
                  PROVE  M!View(u)' = M!View(u)
      BY SameViews
    <3>2. life[u] = "live"
      <4>1. u \in Leavers
        BY SlotAssumption DEF Leavers
      <4>. QED
        BY <1>1, <3>1, <4>1, Served
    <3>. QED
      BY <1>1, <2>1, <3>1, <3>2, UnloadKeepsViews
  <2>2. CASE Making \/ Accesses
    BY <1>1, <2>2, MakingSettles, AccessesSettle DEF Settled
  <2>. QED
    BY <1>1, <2>1, <2>2 DEF CoreNext
<1>2. CoreInv /\ [CoreNext]_coreVars => [Kept]_coreVars
  BY <1>1
<1>. QED
  BY <1>2, CoreInvariance, PTL DEF CoreSpec, YieldKeepsMemory

-----------------------------------------------------------------------------
(* The memory under the manager's scheduling implements AddressSpaces       *)

\* What a step of the slot unloads is what one instance had that halts, or nothing.
LEMMA UnloadRefinesSpaces ==
    ASSUME CoreInv, BootAlone, SlotInv', SlotMoves, CpuMoves, Unload
    PROVE  [M!AS!Next]_(M!AS!vars)
<1>1. /\ M!MemInv
      /\ M!Owner = Umi \cup Snap
      /\ Umi \cap Snap = {}
  BY Owners, SameMemory DEF CoreInv
<1>2. \A o \in Umi \cup Snap :
         life'[o] = IF o \in Leavers /\ phase'[o] = "done" THEN "halted" ELSE life[o]
  BY UnloadEffect
<1>3. \A o \in Leavers : o \in Umi /\ phase[o] \in InService /\ life[o] = "live"
  BY Served
<1>4. CASE \E u \in Leavers : phase'[u] = "done"
  <2>1. PICK u \in Leavers : phase'[u] = "done"
    BY <1>4
  <2>2. u \in Umi /\ life[u] = "live" /\ life'[u] = "halted" /\ phase[u] # "done"
    BY <1>2, <1>3, <2>1 DEF InService
  <2>3. Enters(u, "done")
    BY <2>1, <2>2, Finishers
  <2>4. \A q \in Umi \cup Snap : q # u => life'[q] = life[q]
    BY <1>2, <1>3, <2>3 DEF Enters, InService
  <2>5. \A q \in Umi \cup Snap : q # u => M!View(q)' = M!View(q)
    BY <2>4, UnloadKeepsViews
  <2>6. M!AS!Discard(u)
    BY <1>1, <2>2, <2>4, <2>5, SameAssumption, M!DiscardRefines
  <2>. QED
    BY <2>2, <2>6 DEF M!AS!Next
<1>5. CASE \A u \in Leavers : phase'[u] # "done"
  <2>1. \A q \in Umi \cup Snap : life'[q] = life[q]
    BY <1>2, <1>5
  <2>2. \A q \in Umi \cup Snap : M!View(q)' = M!View(q)
    BY <2>1, UnloadKeepsViews
  <2>. QED
    BY <1>1, <2>1, <2>2, SameAssumption, M!Stutters
<1>. QED
  BY <1>4, <1>5

LEMMA CoreRefines ==
    ASSUME Protocol, BootAlone, CoreInv, [CoreNext]_coreVars
    PROVE  [M!AS!Next]_(M!AS!vars)
<1>1. CASE Handlers /\ Unload
  BY <1>1, HandlersMove, SlotFollows, UnloadRefinesSpaces DEF CoreInv
<1>2. CASE Making \/ Accesses \/ UNCHANGED coreVars
  BY <1>2, ActionsRefine, SameMemory, SameAssumption, M!StepRefines DEF CoreInv
<1>. QED
  BY <1>1, <1>2 DEF CoreNext

LEMMA SameSpaces ==
    /\ CoreInit => Memory!AS!Init
    /\ [M!AS!Next]_(M!AS!vars) => [Memory!AS!Next]_(Memory!AS!vars)
<1>1. CoreInit => Memory!AS!Init
  <2>1. Memory!Init => M!Init
    BY DEF Memory!Init, M!Init, Memory!Owner, M!Owner, Memory!Elf, M!Elf,
           Memory!Empty, M!Empty, Memory!Absent, M!Absent, Memory!Entry, M!Entry
  <2>2. M!Init => M!AS!Init
    BY SameAssumption, M!InitRefines
  <2>3. M!AS!Init => Memory!AS!Init
    BY DEF M!AS!Init, Memory!AS!Init, M!View, Memory!View, M!exists, Memory!exists,
           M!Owner, Memory!Owner
  <2>. QED
    BY <2>1, <2>2, <2>3 DEF CoreInit
<1>2. M!AS!Next => Memory!AS!Next
  BY DEF M!AS!Next, Memory!AS!Next, M!AS!Boot, Memory!AS!Boot, M!AS!Deploy, Memory!AS!Deploy,
         M!AS!Store, Memory!AS!Store, M!AS!Take, Memory!AS!Take,
         M!AS!Discard, Memory!AS!Discard,
         M!View, Memory!View, M!exists, Memory!exists, M!Owner, Memory!Owner
<1>3. UNCHANGED M!AS!vars => UNCHANGED Memory!AS!vars
  BY DEF M!AS!vars, Memory!AS!vars, M!View, Memory!View, M!exists, Memory!exists,
         M!Owner, Memory!Owner
<1>. QED
  BY <1>1, <1>2, <1>3

\* Every guest sees a memory of its own under the manager's scheduling: whatever timers,
\* packets, yields, halts, faults and checkpoints interleave, the tables that events load
\* and unload implement AddressSpaces (slot_load_instance, slot_unload_instance,
\* process_pagefault, process_checkpoint), if clients leave a core alone while an instance
\* is booted on it (generateBaseEnvtSnapshot).
THEOREM GuestMemoriesArePrivate ==
    ASSUME Protocol, BootAlone
    PROVE  CoreSpec => GuestsKeepMemory
<1>1. CoreInit => Memory!AS!Init
  BY SameSpaces
<1>2. CoreInv /\ [CoreNext]_coreVars => [Memory!AS!Next]_(Memory!AS!vars)
  BY CoreRefines, SameSpaces
<1>. QED
  BY <1>1, <1>2, CoreInvariance, PTL
     DEF CoreSpec, GuestsKeepMemory, Memory!PrivateMemories, Memory!AS!Spec

=============================================================================
