---------------------------- MODULE UmSlotProofs ----------------------------
(***************************************************************************)
(* Theorems about UmSlot, for every set of instances and every bound:      *)
(* TypeOK is an invariant whatever liberties clients and guests take;      *)
(* SlotInv is one under the protocol, and with it the safety properties it *)
(* contains.  And UmSlot implements SlotAbs: the slot keeps its promise to *)
(* the clients, for every order of events, if they ask for a halt once.    *)
(* On the way: a halt request is never forgotten, and who sleeps in the    *)
(* slot while active has a timer.                                          *)
(***************************************************************************)
EXTENDS UmSlotInv, EventQueueProofs

-----------------------------------------------------------------------------
(* The queue *)

\* slot_queue_get_pos finds the first occurrence.
LEMMA GetPosInDomain ==
    ASSUME NEW q \in Seq(Umi), NEW u, \E k \in DOMAIN q : q[k] = u
    PROVE  /\ slot_queue_get_pos(q, u) \in DOMAIN q
           /\ q[slot_queue_get_pos(q, u)] = u
<1>. DEFINE T == {k \in DOMAIN q : q[k] = u}
<1>1. T \in SUBSET Nat /\ T # {}
  OBVIOUS
<1>. HIDE DEF T
<1>2. \E k \in T : \A j \in T : k <= j
  BY <1>1, LeastPosition
<1>. QED
  BY <1>2 DEF slot_queue_get_pos, T

\* The queue stays a queue of instances.
LEMMA QueueType ==
    ASSUME NEW q \in Seq(Umi), NEW u \in Umi
    PROVE  /\ slot_queue_remove(q, u) \in Seq(Umi)
           /\ slot_queue_move_to_front(q, u) \in Seq(Umi)
<1>1. slot_queue_remove(q, u) \in Seq(Umi)
  BY GetPosInDomain, RemoveAtProperties DEF slot_queue_remove
<1>. QED
  BY <1>1 DEF slot_queue_move_to_front

-----------------------------------------------------------------------------
(* Types *)

\* The part of TypeOK that Yield and Halt may change.
YieldTypes ==
    /\ status \in Status
    /\ active_umi \in Umi \cup {NoUmi}
    /\ idle_umi_queue \in Seq(Umi)
    /\ inactive_umi_map \in SUBSET Umi
    /\ inactive_umi_halt_map \in SUBSET Umi
    /\ activation_promise_map \in SUBSET Umi
    /\ umi_id \in Umi \cup {NoUmi}
    /\ is_active \in [Umi -> BOOLEAN]
    /\ blocked \in [Umi -> BOOLEAN]
    /\ timer_set \in [Umi -> BOOLEAN]
    /\ tasks \in Seq(Task)
    /\ phase \in [Umi -> Phase]

LEMMA TaskTypes ==
    /\ HaltTask \in Task
    /\ YieldTask \in Task
    /\ \A u \in Umi : StartTask(u) \in Task
    /\ \A u \in Umi : ResumeTask(u) \in Task
    /\ \A u \in Umi : OutgoingTask(u) \in Task
    /\ \A t \in Task : t.fn \in {"Start", "Resume", "Outgoing"} => t.umi \in Umi
  BY DEF Task, HaltTask, YieldTask, StartTask, ResumeTask, OutgoingTask

LEMMA KickType ==
    ASSUME TypeOK, NEW u \in Umi, NEW ts \in Seq(Task), Kick(u, ts)
    PROVE  /\ blocked' \in [Umi -> BOOLEAN]
           /\ timer_set' \in [Umi -> BOOLEAN]
           /\ tasks' \in Seq(Task)
<1>1. CASE blocked[u]
  <2>1. Append(ts, ResumeTask(u)) \in Seq(Task)
    BY TaskTypes
  <2>. QED
    BY <1>1, <2>1 DEF TypeOK, Kick
<1>2. CASE ~blocked[u]
  BY <1>2 DEF TypeOK, Kick
<1>. QED
  BY <1>1, <1>2

\* Halt leaves the maps, the timers and blocked_ to its caller.
LEMMA HaltType ==
    ASSUME TypeOK, NEW u \in Umi \cup {NoUmi}, NEW q \in Seq(Umi),
           NEW act \in [Umi -> BOOLEAN], NEW ts \in Seq(Task),
           NEW p \in Umi \cup {NoUmi}, Halt(u, q, act, ts, p)
    PROVE  /\ status' \in Status
           /\ active_umi' \in Umi \cup {NoUmi}
           /\ idle_umi_queue' \in Seq(Umi)
           /\ umi_id' \in Umi \cup {NoUmi}
           /\ is_active' \in [Umi -> BOOLEAN]
           /\ tasks' \in Seq(Task)
           /\ phase' \in [Umi -> Phase]
<1>1. CASE ts # <<>>
  <2>1. Append(ts, HaltTask) \in Seq(Task)
    BY TaskTypes
  <2>. QED
    BY <1>1, <2>1 DEF TypeOK, Halt, Status
<1>2. CASE ts = <<>>
  <2>1. is_active' \in [Umi -> BOOLEAN] /\ umi_id' \in Umi \cup {NoUmi}
    BY <1>2 DEF TypeOK, Halt
  <2>2. ReturnFromSlot(u, q)
    BY <1>2 DEF Halt
  <2>3. tasks' \in Seq(Task)
    BY <2>2, TaskTypes DEF ReturnFromSlot
  <2>. QED
    BY <2>1, <2>2, <2>3 DEF TypeOK, ReturnFromSlot, Status, Phase
<1>. QED
  BY <1>1, <1>2

LEMMA YieldType ==
    ASSUME TypeOK, NEW q \in Seq(Umi), NEW hm \in SUBSET Umi,
           NEW act \in [Umi -> BOOLEAN], NEW ts \in Seq(Task), Yield(q, hm, act, ts)
    PROVE  YieldTypes'
<1>1. CASE YieldRefused(q, hm, act, ts)
  BY <1>1 DEF TypeOK, YieldTypes, YieldRefused
<1>2. CASE YieldUnload(q, hm, act, ts)
  BY <1>2 DEF TypeOK, YieldTypes, YieldUnload, Status
<1>3. ASSUME NEW k \in Eligible(q, act), YieldTo(q[k], q, hm, act, ts)
      PROVE  YieldTypes'
  <2>1. PICK v \in Umi : v = q[k]
    BY DEF Eligible
  <2>2. YieldTo(v, q, hm, act, ts)
    BY <1>3, <2>1
  <2>3. QueueAfterSwap(q, v) \in Seq(Umi)
    BY QueueType, SlotAssumption DEF TypeOK, QueueAfterSwap
  <2>4. inactive_umi_map' \in SUBSET Umi
    BY <2>2, SlotAssumption DEF TypeOK, YieldTo, MapAfterSwap
  <2>5. CASE v \in activation_promise_map
    <3>1. Append(ts, StartTask(v)) \in Seq(Task)
      BY TaskTypes
    <3>. QED
      BY <2>2, <2>3, <2>4, <2>5, <3>1 DEF TypeOK, YieldTypes, YieldTo, Status
  <2>6. CASE v \notin activation_promise_map /\ v \in hm
    <3>1. Halt(v, QueueAfterSwap(q, v), act, ts, v)
      BY <2>2, <2>6 DEF YieldTo
    <3>. QED
      BY <2>2, <2>3, <2>4, <2>6, <3>1, HaltType DEF TypeOK, YieldTypes, YieldTo
  <2>7. CASE v \notin activation_promise_map /\ v \notin hm
    <3>1. Kick(v, ts)
      BY <2>2, <2>7 DEF YieldTo
    <3>. QED
      BY <2>2, <2>3, <2>4, <2>7, <3>1, KickType DEF TypeOK, YieldTypes, YieldTo, Status
  <2>. QED
    BY <2>5, <2>6, <2>7
<1>. QED
  BY <1>1, <1>2, <1>3 DEF Yield

\* An abort leaves everything else alone.
LEMMA AbortType ==
    ASSUME TypeOK, NEW why \in Fault, Abort(why)
    PROVE  TypeOK'
  BY DEF TypeOK, Abort, slotVars, instVars

LEMMA FaultTypes ==
    /\ \A q, act : YieldFault(q, act) \in Fault
    /\ {"start_not_loaded", "halt_empty_slot", "signal_halt_empty_slot",
        "outgoing_no_umi", "run_slot_busy", "none", "bad_status",
        "sleep_with_timer"} \subseteq Fault
  BY DEF Fault, YieldFault

\* The events.
LEMMA RunTaskType ==
    ASSUME TypeOK, NEW i \in DOMAIN tasks,
           \/ RunStart(i) \/ RunHalt(i) \/ RunYield(i) \/ RunResume(i) \/ RunOutgoing(i)
    PROVE  TypeOK'
<1>. DEFINE ts == RemoveAt(tasks, i)
<1>1. ts \in Seq(Task) /\ tasks[i] \in Task
  BY RemoveAtProperties DEF TypeOK
<1>. HIDE DEF ts
<1>2. CASE RunStart(i)
  <2>1. CASE status = "loaded" /\ active_umi = tasks[i].umi
    <3>1. active_umi \in Umi
      BY <1>1, <1>2, <2>1, TaskTypes DEF RunStart
    <3>. QED
      BY <1>1, <1>2, <2>1, <3>1 DEF TypeOK, RunStart, ts, instVars, Status, Phase
  <2>2. CASE ~(status = "loaded" /\ active_umi = tasks[i].umi)
    BY <1>2, <2>2, AbortType, FaultTypes DEF RunStart
  <2>. QED
    BY <2>1, <2>2
<1>3. CASE RunHalt(i)
  <2>1. CASE status = "empty"
    BY <1>3, <2>1, AbortType, FaultTypes DEF RunHalt
  <2>2. CASE status # "empty"
    <3>1. Halt(active_umi, idle_umi_queue, is_active, ts, umi_id)
      BY <1>3, <2>2 DEF RunHalt, ts
    <3>2. active_umi \in Umi \cup {NoUmi} /\ idle_umi_queue \in Seq(Umi)
          /\ is_active \in [Umi -> BOOLEAN] /\ umi_id \in Umi \cup {NoUmi}
      BY DEF TypeOK
    <3>3. UNCHANGED <<inactive_umi_map, inactive_umi_halt_map, activation_promise_map,
                      blocked, timer_set, umi_recv_queue, cpu, halts, fault>>
      BY <1>3, <2>2 DEF RunHalt
    <3>. QED
      BY <1>1, <3>1, <3>2, <3>3, HaltType DEF TypeOK
  <2>. QED
    BY <2>1, <2>2
<1>4. CASE RunYield(i)
  <2>1. CASE YieldFault(idle_umi_queue, is_active) # "none"
    BY <1>4, <2>1, AbortType, FaultTypes DEF RunYield
  <2>2. CASE YieldFault(idle_umi_queue, is_active) = "none"
    <3>1. Yield(idle_umi_queue, inactive_umi_halt_map, is_active, ts)
      BY <1>4, <2>2 DEF RunYield, ts
    <3>2. YieldTypes'
      BY <1>1, <3>1, YieldType DEF TypeOK
    <3>. QED
      BY <1>4, <2>2, <3>2 DEF TypeOK, YieldTypes, RunYield
  <2>. QED
    BY <2>1, <2>2
<1>5. CASE RunResume(i)
  <2>1. tasks[i].umi \in Umi
    BY <1>1, <1>5, TaskTypes DEF RunResume
  <2>. QED
    BY <1>1, <1>5, <2>1, FaultTypes DEF TypeOK, RunResume, Status, ts
<1>6. CASE RunOutgoing(i)
  <2>1. CASE GetInstance(umi_id)
    BY <1>1, <1>6, <2>1 DEF TypeOK, RunOutgoing, slotVars, ts
  <2>2. CASE ~GetInstance(umi_id)
    BY <1>6, <2>2, AbortType, FaultTypes DEF RunOutgoing
  <2>. QED
    BY <2>1, <2>2
<1>. QED
  BY <1>2, <1>3, <1>4, <1>5, <1>6

\* Timers and packets.
LEMMA InterruptType ==
    ASSUME TypeOK, NEW u \in Umi, NEW payload \in BOOLEAN,
           Fire(u) \/ FireEarly(u) \/ PacketIn(u, payload)
    PROVE  TypeOK'
<1>1. CASE Fire(u)
  <2>1. Append(tasks, ResumeTask(u)) \in Seq(Task)
    BY TaskTypes DEF TypeOK
  <2>. QED
    BY <1>1, <2>1 DEF TypeOK, Fire, slotVars
<1>2. CASE FireEarly(u)
  BY <1>2 DEF TypeOK, FireEarly, slotVars
<1>3. CASE PacketIn(u, payload)
  <2>. DEFINE act == IF payload THEN [is_active EXCEPT ![u] = TRUE] ELSE is_active
              q   == slot_queue_move_to_front(idle_umi_queue, u)
  <2>1. act \in [Umi -> BOOLEAN] /\ q \in Seq(Umi)
    BY QueueType DEF TypeOK
  <2>2. \A n \in Nat : [umi_recv_queue EXCEPT ![u] = n] \in [Umi -> Nat]
    BY DEF TypeOK
  <2>. HIDE DEF act, q
  <2>3. CASE active_umi = u
    <3>1. Kick(u, tasks) /\ is_active' = act
      BY <1>3, <2>3 DEF PacketIn, act
    <3>2. umi_recv_queue' = [umi_recv_queue EXCEPT ![u] = umi_recv_queue[u] + 1]
      BY <1>3, <2>3 DEF PacketIn
    <3>3. umi_recv_queue' \in [Umi -> Nat]
      BY <2>2, <3>2 DEF TypeOK
    <3>4. UNCHANGED <<slotVars, cpu, phase, halts, fault>>
      BY <1>3, <2>3 DEF PacketIn
    <3>5. tasks \in Seq(Task)
      BY DEF TypeOK
    <3>. QED
      BY <2>1, <3>1, <3>3, <3>4, <3>5, KickType DEF TypeOK, slotVars
  <2>4. CASE active_umi # u /\ YieldFault(q, act) # "none"
    BY <1>3, <2>4, AbortType, FaultTypes DEF PacketIn, act, q
  <2>5. CASE active_umi # u /\ YieldFault(q, act) = "none"
    <3>1. /\ Yield(q, inactive_umi_halt_map, act, tasks)
          /\ umi_recv_queue' = [umi_recv_queue EXCEPT ![u] =
                                  IF phase' = phase THEN umi_recv_queue[u] + 1
                                                    ELSE umi_recv_queue[u]]
          /\ UNCHANGED <<cpu, halts, fault>>
      BY <1>3, <2>5 DEF PacketIn, act, q
    <3>2. YieldTypes'
      BY <2>1, <3>1, YieldType DEF TypeOK
    <3>3. umi_recv_queue' \in [Umi -> Nat]
      BY <2>2, <3>1 DEF TypeOK
    <3>. QED
      BY <3>1, <3>2, <3>3 DEF TypeOK, YieldTypes
  <2>. QED
    BY <2>3, <2>4, <2>5
<1>. QED
  BY <1>1, <1>2, <1>3

\* The calls of clients.
LEMMA ClientType ==
    ASSUME TypeOK, NEW u \in Umi, Load(u) \/ Run(u) \/ SignalHalt(u) \/ SignalYield(u)
    PROVE  TypeOK'
<1>1. CASE Load(u)
  <2>1. Append(tasks, StartTask(u)) \in Seq(Task)
    BY TaskTypes DEF TypeOK
  <2>2. tasks' \in Seq(Task)
    BY <1>1, <2>1 DEF TypeOK, Load
  <2>3. phase' \in [Umi -> Phase]
    BY <1>1 DEF TypeOK, Load, Phase
  <2>4. idle_umi_queue' \in Seq(Umi) /\ inactive_umi_map' \in SUBSET Umi
    <3>1. CASE active_umi = NoUmi
      <4>1. Append(idle_umi_queue, u) \in Seq(Umi)
        BY DEF TypeOK
      <4>. QED
        BY <1>1, <3>1, <4>1 DEF TypeOK, Load
    <3>2. CASE active_umi \in Umi
      <4>1. Append(idle_umi_queue, active_umi) \in Seq(Umi)
            /\ Append(idle_umi_queue, u) \in Seq(Umi)
        BY <3>2 DEF TypeOK
      <4>. QED
        BY <1>1, <3>2, <4>1, SlotAssumption DEF TypeOK, Load
    <3>. QED
      BY <3>1, <3>2 DEF TypeOK
  <2>. QED
    BY <1>1, <2>2, <2>3, <2>4 DEF TypeOK, Load, Status, instVars
<1>2. CASE Run(u)
  <2>1. CASE status = "empty"
    BY <1>2, <2>1 DEF TypeOK, Run, Status, Phase, instVars
  <2>2. CASE status # "empty"
    BY <1>2, <2>2, AbortType, FaultTypes DEF Run
  <2>. QED
    BY <2>1, <2>2
<1>3. CASE SignalHalt(u)
  <2>1. CASE active_umi = NoUmi
    BY <1>3, <2>1, AbortType, FaultTypes DEF SignalHalt
  <2>2. CASE active_umi # NoUmi
    <3>1. halts' \in [Umi -> Nat] /\ UNCHANGED <<umi_recv_queue, cpu, fault>>
      <4>1. halts' = [halts EXCEPT ![u] = halts[u] + 1]
            /\ UNCHANGED <<umi_recv_queue, cpu, fault>>
        BY <1>3, <2>2 DEF SignalHalt
      <4>. QED
        BY <4>1 DEF TypeOK
    <3>2. CASE u = active_umi
      <4>1. /\ Halt(u, idle_umi_queue, is_active, tasks, umi_id)
            /\ UNCHANGED <<inactive_umi_map, inactive_umi_halt_map,
                           activation_promise_map, blocked, timer_set>>
        BY <1>3, <2>2, <3>2 DEF SignalHalt
      <4>2. idle_umi_queue \in Seq(Umi) /\ is_active \in [Umi -> BOOLEAN]
            /\ umi_id \in Umi \cup {NoUmi} /\ tasks \in Seq(Task)
        BY DEF TypeOK
      <4>. QED
        BY <3>1, <4>1, <4>2, HaltType DEF TypeOK
    <3>3. CASE u # active_umi
      <4>. DEFINE q == slot_queue_move_to_front(idle_umi_queue, u)
      <4>1. q \in Seq(Umi)
        BY QueueType DEF TypeOK
      <4>. HIDE DEF q
      <4>2. Yield(q, inactive_umi_halt_map \cup {u}, is_active, tasks)
        BY <1>3, <2>2, <3>3 DEF SignalHalt, q
      <4>3. YieldTypes'
        BY <4>1, <4>2, YieldType DEF TypeOK
      <4>. QED
        BY <3>1, <4>3 DEF TypeOK, YieldTypes
    <3>. QED
      BY <3>2, <3>3
  <2>. QED
    BY <2>1, <2>2
<1>4. CASE SignalYield(u)
  <2>1. Append(tasks, YieldTask) \in Seq(Task)
    BY TaskTypes DEF TypeOK
  <2>. QED
    BY <1>4, <2>1 DEF TypeOK, SignalYield, slotVars, instVars
<1>. QED
  BY <1>1, <1>2, <1>3, <1>4

\* The hypercalls of the guest.
LEMMA GuestType ==
    ASSUME TypeOK, NEW u \in Umi,
           GuestPoll(u) \/ GuestRead(u) \/ GuestWrite(u) \/ GuestHalt(u)
    PROVE  TypeOK'
<1>1. CASE GuestPoll(u)
  <2>1. CASE status \in {"active", "loaded"}
    BY <1>1, <2>1, FaultTypes DEF TypeOK, GuestPoll, Status
  <2>2. CASE status \notin {"active", "loaded"}
    BY <1>1, <2>2, AbortType, FaultTypes DEF GuestPoll
  <2>. QED
    BY <2>1, <2>2
<1>2. CASE GuestRead(u)
  <2>1. umi_recv_queue' \in [Umi -> Nat]
    BY <1>2 DEF TypeOK, GuestRead
  <2>. QED
    BY <1>2, <2>1 DEF TypeOK, GuestRead, slotVars
<1>3. CASE GuestWrite(u)
  <2>1. Append(tasks, OutgoingTask(u)) \in Seq(Task)
    BY TaskTypes DEF TypeOK
  <2>. QED
    BY <1>3, <2>1 DEF TypeOK, GuestWrite, slotVars, instVars
<1>4. CASE GuestHalt(u)
  <2>1. /\ Halt(u, idle_umi_queue, is_active, tasks, umi_id)
        /\ UNCHANGED <<inactive_umi_map, inactive_umi_halt_map, activation_promise_map,
                       blocked, timer_set, umi_recv_queue, fault>>
    BY <1>4 DEF GuestHalt
  <2>2. halts' \in [Umi -> Nat] /\ cpu' \in Umi \cup {NoUmi}
    BY <1>4 DEF TypeOK, GuestHalt
  <2>3. idle_umi_queue \in Seq(Umi) /\ is_active \in [Umi -> BOOLEAN]
        /\ umi_id \in Umi \cup {NoUmi} /\ tasks \in Seq(Task)
    BY DEF TypeOK
  <2>. QED
    BY <2>1, <2>2, <2>3, HaltType DEF TypeOK
<1>. QED
  BY <1>1, <1>2, <1>3, <1>4

\* Every state the core reaches has the declared types, whatever the clients and
\* guests do: no liberty is excluded.
THEOREM TypeCorrect == Spec => []TypeOK
<1>1. Init => TypeOK
  BY SlotAssumption DEF Init, TypeOK, Status, Phase, Task, Fault
<1>2. TypeOK /\ [Next]_vars => TypeOK'
  <2>. SUFFICES ASSUME TypeOK, [Next]_vars PROVE TypeOK'
    OBVIOUS
  <2>1. CASE RunTask
    BY <2>1, RunTaskType DEF RunTask, Runnable
  <2>2. ASSUME NEW u \in Umi, Interrupt(u) PROVE TypeOK'
    BY <2>2, InterruptType DEF Interrupt
  <2>3. ASSUME NEW u \in Umi, Client(u) PROVE TypeOK'
    BY <2>3, ClientType DEF Client
  <2>4. ASSUME NEW u \in Umi, Guest(u) PROVE TypeOK'
    BY <2>4, GuestType DEF Guest
  <2>5. CASE UNCHANGED vars
    BY <2>5 DEF TypeOK, vars, slotVars, instVars
  <2>. QED
    BY <2>1, <2>2, <2>3, <2>4, <2>5 DEF Next
<1>. QED
  BY <1>1, <1>2, PTL DEF Spec

-----------------------------------------------------------------------------
(* Pending events *)

LEMMA TasksDiffer ==
    /\ HaltTask # YieldTask
    /\ \A u, v : StartTask(u) = StartTask(v) => u = v
    /\ \A u, v : ResumeTask(u) = ResumeTask(v) => u = v
    /\ \A u, v : StartTask(u) # ResumeTask(v)
    /\ \A u, v : StartTask(u) # OutgoingTask(v)
    /\ \A u, v : ResumeTask(u) # OutgoingTask(v)
    /\ \A u : HaltTask \notin {StartTask(u), ResumeTask(u), OutgoingTask(u)}
    /\ \A u : YieldTask \notin {StartTask(u), ResumeTask(u), OutgoingTask(u)}
  BY DEF HaltTask, YieldTask, StartTask, ResumeTask, OutgoingTask

\* The event at a position is the one its name and instance say.
LEMMA TaskShape ==
    ASSUME NEW t \in Task
    PROVE  /\ t.fn = "Start" => t = StartTask(t.umi)
           /\ t.fn = "Resume" => t = ResumeTask(t.umi)
           /\ t.fn = "Outgoing" => t = OutgoingTask(t.umi)
           /\ t.fn = "Halt" => t = HaltTask
           /\ t.fn = "Yield" => t = YieldTask
  BY DEF Task, HaltTask, YieldTask, StartTask, ResumeTask, OutgoingTask

LEMMA HasAppend ==
    ASSUME NEW ts \in Seq(Task), NEW x, NEW t
    PROVE  /\ Has(Append(ts, x), t) <=> Has(ts, t) \/ x = t
           /\ AtMostOnce(ts, t) /\ (x # t \/ ~Has(ts, t))
                 => AtMostOnce(Append(ts, x), t)
  BY AppendHas

LEMMA HasRemove ==
    ASSUME NEW ts \in Seq(Task), NEW i \in DOMAIN ts, NEW t
    PROVE  /\ Has(RemoveAt(ts, i), t) => Has(ts, t)
           /\ ts[i] # t => (Has(RemoveAt(ts, i), t) <=> Has(ts, t))
           /\ AtMostOnce(ts, t) => AtMostOnce(RemoveAt(ts, i), t)
           /\ AtMostOnce(ts, t) /\ ts[i] = t => ~Has(RemoveAt(ts, i), t)
  BY RemoveHas

-----------------------------------------------------------------------------
(* The queue *)

LEMMA QueueAppend ==
    ASSUME NEW q \in Seq(Umi), NEW x \in Umi, IsInjective(q), x \notin Range(q)
    PROVE  /\ IsInjective(Append(q, x))
           /\ Range(Append(q, x)) = Range(q) \cup {x}
<1>. DEFINE a == Append(q, x)
<1>1. /\ DOMAIN a = 1 .. Len(q) + 1
      /\ \A k \in 1 .. Len(q) : a[k] = q[k]
      /\ a[Len(q) + 1] = x
      /\ DOMAIN q = 1 .. Len(q)
      /\ Len(q) \in Nat
  OBVIOUS
<1>. HIDE DEF a
<1>2. \A k \in DOMAIN a : k \in DOMAIN q \/ k = Len(q) + 1
  BY <1>1
<1>3. DOMAIN q \subseteq DOMAIN a /\ Len(q) + 1 \in DOMAIN a
  BY <1>1
<1>4. IsInjective(a)
  BY <1>1, <1>2 DEF IsInjective, Range
<1>5. Range(a) = Range(q) \cup {x}
  BY <1>1, <1>2, <1>3 DEF Range
<1>. QED
  BY <1>4, <1>5 DEF a

LEMMA QueueRemove ==
    ASSUME NEW q \in Seq(Umi), NEW v \in Umi, IsInjective(q)
    PROVE  /\ IsInjective(slot_queue_remove(q, v))
           /\ Range(slot_queue_remove(q, v)) = Range(q) \ {v}
<1>1. CASE ~\E k \in DOMAIN q : q[k] = v
  BY <1>1 DEF slot_queue_remove, Range
<1>2. CASE \E k \in DOMAIN q : q[k] = v
  <2>. DEFINE i == slot_queue_get_pos(q, v)
              r == RemoveAt(q, i)
  <2>1. i \in DOMAIN q /\ q[i] = v
    BY <1>2, GetPosInDomain
  <2>. HIDE DEF i
  <2>2. /\ r \in Seq(Umi)
        /\ Len(r) = Len(q) - 1
        /\ \A j \in 1 .. Len(q) - 1 : r[j] = IF j < i THEN q[j] ELSE q[j + 1]
    BY <2>1, RemoveAtProperties
  <2>3. i \in 1 .. Len(q) /\ Len(q) \in Nat /\ DOMAIN q = 1 .. Len(q)
    BY <2>1
  <2>. HIDE DEF r
  <2>4. DOMAIN r = 1 .. Len(q) - 1
    BY <2>2, <2>3
  <2>. DEFINE old(j) == IF j < i THEN j ELSE j + 1
              new(k) == IF k < i THEN k ELSE k - 1
  <2>5. \A j \in DOMAIN r : old(j) \in DOMAIN q /\ old(j) # i /\ r[j] = q[old(j)]
    BY <2>2, <2>3, <2>4
  <2>6. \A j, k \in DOMAIN r : old(j) = old(k) => j = k
    BY <2>3, <2>4
  <2>7. \A k \in DOMAIN q : k # i => new(k) \in DOMAIN r /\ old(new(k)) = k
    BY <2>3, <2>4
  <2>. HIDE DEF old, new
  <2>8. IsInjective(r)
    BY <2>5, <2>6 DEF IsInjective
  <2>9. Range(r) = Range(q) \ {v}
    <3>1. Range(r) \subseteq Range(q) \ {v}
      BY <2>1, <2>5 DEF IsInjective, Range
    <3>2. \A k \in DOMAIN q : q[k] # v => q[k] \in Range(r)
      BY <2>1, <2>5, <2>7 DEF Range
    <3>. QED
      BY <3>1, <3>2 DEF Range
  <2>. QED
    BY <1>2, <2>8, <2>9 DEF slot_queue_remove, r, i
<1>. QED
  BY <1>1, <1>2

LEMMA QueueToFront ==
    ASSUME NEW q \in Seq(Umi), NEW v \in Umi, IsInjective(q)
    PROVE  /\ IsInjective(slot_queue_move_to_front(q, v))
           /\ Range(slot_queue_move_to_front(q, v)) = Range(q)
<1>1. CASE ~\E k \in DOMAIN q : q[k] = v
  BY <1>1 DEF slot_queue_move_to_front
<1>2. CASE \E k \in DOMAIN q : q[k] = v
  <2>. DEFINE r == slot_queue_remove(q, v)
              m == <<v>> \o r
  <2>1. IsInjective(r) /\ Range(r) = Range(q) \ {v} /\ r \in Seq(Umi)
    BY QueueRemove, QueueType
  <2>2. v \in Range(q)
    BY <1>2 DEF Range
  <2>. HIDE DEF r
  <2>3. /\ Len(m) = Len(r) + 1
        /\ m[1] = v
        /\ \A k \in 2 .. Len(r) + 1 : m[k] = r[k - 1]
        /\ Len(r) \in Nat
        /\ DOMAIN m = 1 .. Len(r) + 1
        /\ DOMAIN r = 1 .. Len(r)
    <3>1. <<v>> \in Seq(Umi) /\ Len(<<v>>) = 1 /\ <<v>>[1] = v
      OBVIOUS
    <3>2. /\ m \in Seq(Umi)
          /\ Len(m) = Len(<<v>>) + Len(r)
          /\ \A j \in 1 .. Len(<<v>>) + Len(r) :
                m[j] = IF j <= Len(<<v>>) THEN <<v>>[j] ELSE r[j - Len(<<v>>)]
      BY <2>1, <3>1, ConcatProperties
    <3>3. Len(r) \in Nat /\ DOMAIN r = 1 .. Len(r)
      BY <2>1
    <3>. QED
      BY <3>1, <3>2, <3>3
  <2>. HIDE DEF m
  <2>4. \A k \in DOMAIN m : k = 1 \/ (k \in 2 .. Len(r) + 1 /\ k - 1 \in DOMAIN r)
    BY <2>3
  <2>5. \A k \in DOMAIN r : k + 1 \in 2 .. Len(r) + 1 /\ (k + 1) - 1 = k /\ k + 1 \in DOMAIN m
    BY <2>3
  <2>6. \A k \in DOMAIN r : r[k] # v
    BY <2>1 DEF Range
  <2>7. IsInjective(m)
    <3>. SUFFICES ASSUME NEW a \in DOMAIN m, NEW b \in DOMAIN m, m[a] = m[b]
                  PROVE  a = b
      BY DEF IsInjective
    <3>1. CASE a = 1 \/ b = 1
      BY <2>3, <2>4, <2>6, <3>1
    <3>2. CASE a # 1 /\ b # 1
      <4>1. a - 1 \in DOMAIN r /\ b - 1 \in DOMAIN r /\ r[a - 1] = r[b - 1]
        BY <2>3, <2>4, <3>2
      <4>2. a - 1 = b - 1
        BY <2>1, <4>1 DEF IsInjective
      <4>. QED
        BY <2>3, <4>2
    <3>. QED
      BY <3>1, <3>2
  <2>8. Range(m) = Range(q)
    <3>1. \A k \in DOMAIN m : m[k] \in Range(q)
      BY <2>1, <2>2, <2>3, <2>4 DEF Range
    <3>2. \A k \in DOMAIN r : r[k] \in Range(m)
      <4>. TAKE k \in DOMAIN r
      <4>1. k + 1 \in DOMAIN m /\ m[k + 1] = r[k]
        BY <2>3, <2>5
      <4>. QED
        BY <4>1 DEF Range
    <3>3. v \in Range(m)
      BY <2>3 DEF Range
    <3>4. Range(m) \subseteq Range(q)
      BY <3>1 DEF Range
    <3>5. Range(r) \subseteq Range(m)
      BY <3>2 DEF Range
    <3>. QED
      BY <2>1, <3>3, <3>4, <3>5, Zenon
  <2>. QED
    BY <1>2, <2>7, <2>8 DEF slot_queue_move_to_front, m, r
<1>. QED
  BY <1>1, <1>2

-----------------------------------------------------------------------------
(* Halt and Yield *)

\* SlotInv without the types, the fault and the pending events.
Core == QueueMatchesMap /\ SlotMatchesCpu /\ ProxyFollowsSlot /\ PhaseInv

\* Halt of an instance in service that is, or is about to be, in the slot.
LEMMA HaltSafe ==
    ASSUME TypeOK, NEW u \in Umi, NEW q \in Seq(Umi), NEW act, NEW ts \in Seq(Task),
           Halt(u, q, act, ts, u),
           inactive_umi_map' = Range(q), IsInjective(q), u \notin Range(q),
           phase[u] \in InService,
           \A w \in Umi : w # u =>
               (phase[w] \in {"new", "done"} <=> w \notin Range(q)),
           \A w \in Umi : w \in activation_promise_map
                              <=> w \in Range(q) /\ phase[w] = "loaded",
           \A w \in Umi : blocked[w] => phase[w] \in InService \cup {"done"},
           \A w \in Umi : timer_set[w] => blocked[w],
           \A w \in Umi : ~Has(ts, StartTask(w)),
           ResumeInv(ts),
           cpu \in {NoUmi, u}, cpu' = IF ts = <<>> THEN NoUmi ELSE cpu,
           cpu # NoUmi => ~blocked[cpu],
           UNCHANGED <<activation_promise_map, blocked, timer_set>>
    PROVE  Core' /\ TaskInv(tasks)'
<1>1. u # NoUmi /\ NoUmi \notin Umi
  BY SlotAssumption
<1>2. CASE ts # <<>>
  <2>1. /\ status' = "halting"
        /\ active_umi' = u
        /\ idle_umi_queue' = q
        /\ tasks' = Append(ts, HaltTask)
        /\ umi_id' = u
        /\ phase' = phase
        /\ cpu' = cpu
    BY <1>2 DEF Halt
  <2>2. \A t : Has(tasks', t) <=> Has(ts, t) \/ t = HaltTask
    BY <2>1, HasAppend
  <2>3. \A t : t # HaltTask /\ AtMostOnce(ts, t) => AtMostOnce(tasks', t)
    BY <2>1, HasAppend
  <2>4. QueueMatchesMap'
    BY <2>1 DEF QueueMatchesMap
  <2>5. SlotMatchesCpu' /\ ProxyFollowsSlot'
    BY <1>1, <2>1 DEF SlotMatchesCpu, ProxyFollowsSlot
  <2>6. PhaseInv'
    BY <1>1, <2>1 DEF PhaseInv, InService
  <2>7. StartInv(tasks)'
    <3>1. \A w \in Umi : ~Has(tasks', StartTask(w))
      BY <2>2, TasksDiffer
    <3>. QED
      BY <2>1, <3>1 DEF StartInv, Has, AtMostOnce
  <2>8. ResumeInv(tasks)'
    BY <2>1, <2>2, <2>3, TasksDiffer DEF ResumeInv
  <2>9. EventInv(tasks)'
    BY <1>1, <2>1 DEF EventInv
  <2>. QED
    BY <2>4, <2>5, <2>6, <2>7, <2>8, <2>9 DEF Core, TaskInv
<1>3. CASE ts = <<>>
  <2>1. /\ status' = "empty"
        /\ active_umi' = NoUmi
        /\ idle_umi_queue' = q
        /\ phase' = [phase EXCEPT ![u] = "done"]
        /\ tasks' = <<>> \/ (q # <<>> /\ tasks' = <<YieldTask>>)
        /\ umi_id' = NoUmi
        /\ cpu' = NoUmi
    BY <1>3 DEF Halt, ReturnFromSlot
  <2>2. \A t : Has(tasks', t) => t = YieldTask /\ q # <<>>
    BY <2>1, HasShort
  <2>3. \A t : AtMostOnce(tasks', t)
    BY <2>1, HasShort
  <2>4. phase'[u] = "done" /\ \A w \in Umi : w # u => phase'[w] = phase[w]
    BY <2>1 DEF TypeOK
  <2>5. QueueMatchesMap'
    <3>1. NoUmi \notin Range(q)
      BY <1>1 DEF Range
    <3>. QED
      BY <2>1, <3>1 DEF QueueMatchesMap
  <2>6. SlotMatchesCpu' /\ ProxyFollowsSlot'
    BY <2>1 DEF SlotMatchesCpu, ProxyFollowsSlot
  <2>7. PhaseInv'
    <3>1. \A w \in Umi : phase'[w] \in {"new", "done"} <=> w \notin Range(q)
      BY <2>4
    <3>2. \A w \in Umi : w \in activation_promise_map
                            <=> w \in Range(q) /\ phase'[w] = "loaded"
      BY <2>4
    <3>3. \A w \in Umi : blocked[w] => phase'[w] \in InService \cup {"done"}
      BY <2>4
    <3>. QED
      BY <1>1, <2>1, <3>1, <3>2, <3>3 DEF PhaseInv
  <2>8. StartInv(tasks)'
    BY <1>1, <2>1, <2>2, <2>3, TasksDiffer DEF StartInv
  <2>9. ResumeInv(tasks)'
    <3>1. \A w \in Umi : phase[w] \in InService => blocked[w] \/ cpu = w
      BY <1>3, HasShort DEF ResumeInv
    <3>2. \A w \in Umi : phase'[w] \in InService => blocked[w]
      BY <1>1, <2>4, <3>1 DEF InService
    <3>. QED
      BY <2>1, <2>2, <2>3, <3>2, TasksDiffer DEF ResumeInv
  <2>10. EventInv(tasks)'
    <3>1. q # <<>> => Range(q) # {}
      BY DEF Range
    <3>. QED
      BY <2>1, <2>2, <3>1, TasksDiffer DEF EventInv
  <2>. QED
    BY <2>5, <2>6, <2>7, <2>8, <2>9, <2>10 DEF Core, TaskInv
<1>. QED
  BY <1>2, <1>3

\* What the swap does to the queue and the map.
LEMMA SwapSafe ==
    ASSUME TypeOK, NEW q \in Seq(Umi), NEW v \in Umi, IsInjective(q),
           Range(q) = inactive_umi_map, active_umi \notin inactive_umi_map,
           v \in inactive_umi_map
    PROVE  /\ QueueAfterSwap(q, v) \in Seq(Umi)
           /\ IsInjective(QueueAfterSwap(q, v))
           /\ Range(QueueAfterSwap(q, v)) = MapAfterSwap(v)
           /\ v \notin MapAfterSwap(v)
           /\ \A w \in Umi : w \in MapAfterSwap(v)
                  <=> (w \in inactive_umi_map /\ w # v) \/ w = active_umi
<1>1. /\ slot_queue_remove(q, v) \in Seq(Umi)
      /\ IsInjective(slot_queue_remove(q, v))
      /\ Range(slot_queue_remove(q, v)) = inactive_umi_map \ {v}
  BY QueueRemove, QueueType
<1>2. CASE active_umi = NoUmi
  BY <1>1, <1>2, SlotAssumption DEF QueueAfterSwap, MapAfterSwap
<1>3. CASE active_umi # NoUmi
  <2>1. active_umi \in Umi /\ active_umi \notin inactive_umi_map \ {v} /\ v # active_umi
    BY <1>3 DEF TypeOK
  <2>2. Append(slot_queue_remove(q, v), active_umi) \in Seq(Umi)
    BY <1>1, <2>1
  <2>3. /\ IsInjective(Append(slot_queue_remove(q, v), active_umi))
        /\ Range(Append(slot_queue_remove(q, v), active_umi))
              = (inactive_umi_map \ {v}) \cup {active_umi}
    BY <1>1, <2>1, QueueAppend
  <2>. QED
    BY <1>3, <2>1, <2>2, <2>3 DEF QueueAfterSwap, MapAfterSwap
<1>. QED
  BY <1>2, <1>3

\* A Kick queues the activation of an instance exactly if it was parked.
LEMMA KickSafe ==
    ASSUME TypeOK, NEW u \in Umi, NEW ts \in Seq(Task), Kick(u, ts), ResumeInv(ts),
           phase[u] # "done",
           \A w \in Umi : blocked[w] => phase[w] \in InService \cup {"done"},
           \A w \in Umi : timer_set[w] => blocked[w],
           cpu = NoUmi, UNCHANGED <<cpu, phase>>
    PROVE  /\ ResumeInv(tasks)'
           /\ \A t : t # ResumeTask(u) => (Has(tasks', t) <=> Has(ts, t))
           /\ \A t : t # ResumeTask(u) /\ AtMostOnce(ts, t) => AtMostOnce(tasks', t)
           /\ \A w \in Umi : blocked'[w] => blocked[w]
           /\ \A w \in Umi : timer_set'[w] => blocked'[w]
<1>1. /\ ~blocked'[u]
      /\ \A w \in Umi : w # u => blocked'[w] = blocked[w]
      /\ ~timer_set'[u]
      /\ \A w \in Umi : w # u => timer_set'[w] = timer_set[w]
  <2>1. blocked' = [blocked EXCEPT ![u] = FALSE]
        /\ timer_set' = [timer_set EXCEPT ![u] = IF blocked[u] THEN FALSE ELSE timer_set[u]]
    BY DEF Kick
  <2>2. ~timer_set'[u]
    BY <2>1 DEF TypeOK
  <2>. QED
    BY <2>1, <2>2 DEF TypeOK
<1>2. CASE blocked[u]
  <2>1. tasks' = Append(ts, ResumeTask(u))
    BY <1>2 DEF Kick
  <2>2. \A t : Has(tasks', t) <=> Has(ts, t) \/ t = ResumeTask(u)
    BY <2>1, HasAppend
  <2>3. \A t : (t # ResumeTask(u) \/ ~Has(ts, t)) /\ AtMostOnce(ts, t)
            => AtMostOnce(tasks', t)
    BY <2>1, HasAppend
  <2>4. phase[u] \in InService /\ cpu' # u /\ ~Has(ts, ResumeTask(u))
    BY <1>2, SlotAssumption DEF ResumeInv
  <2>5. \A w \in Umi : Has(tasks', ResumeTask(w))
                          <=> phase'[w] \in InService /\ ~blocked'[w] /\ cpu' # w
    <3>. TAKE w \in Umi
    <3>1. CASE w = u
      BY <1>1, <2>2, <2>4, <3>1
    <3>2. CASE w # u
      BY <1>1, <2>2, <3>2, TasksDiffer DEF ResumeInv
    <3>. QED
      BY <3>1, <3>2
  <2>6. \A w \in Umi : AtMostOnce(tasks', ResumeTask(w))
    BY <2>3, <2>4, TasksDiffer DEF ResumeInv
  <2>. QED
    BY <1>1, <2>2, <2>3, <2>5, <2>6 DEF ResumeInv
<1>3. CASE ~blocked[u]
  <2>1. tasks' = ts /\ phase' = phase /\ cpu' = cpu
    BY <1>3 DEF Kick
  <2>2. \A w \in Umi : blocked'[w] <=> blocked[w]
    BY <1>1, <1>3
  <2>3. ResumeInv(tasks)'
    BY <2>1, <2>2 DEF ResumeInv
  <2>4. \A w \in Umi : timer_set'[w] => blocked'[w]
    BY <1>1, <2>2
  <2>. QED
    BY <2>1, <2>2, <2>3, <2>4
<1>. QED
  BY <1>2, <1>3

\* Yield from a state whose queue, flags and pending events its caller may have
\* changed, as long as the queue still holds the instances of the map.
LEMMA YieldSafe ==
    ASSUME TypeOK, SlotMatchesCpu, ProxyFollowsSlot, PhaseInv,
           NEW q \in Seq(Umi), NEW hm \in SUBSET Umi, NEW act \in [Umi -> BOOLEAN],
           NEW ts \in Seq(Task),
           IsInjective(q), Range(q) = inactive_umi_map,
           active_umi \notin inactive_umi_map, TaskInv(ts),
           cpu = NoUmi, UNCHANGED cpu, Yield(q, hm, act, ts)
    PROVE  Core' /\ TaskInv(tasks)'
<1>1. CASE YieldRefused(q, hm, act, ts)
  BY <1>1 DEF YieldRefused, Core, QueueMatchesMap, SlotMatchesCpu, ProxyFollowsSlot,
              PhaseInv, TaskInv, StartInv, ResumeInv, EventInv
<1>2. ASSUME MayYield(act)
      PROVE  /\ status \in {"idle", "empty"}
             /\ \A w \in Umi : ~Has(ts, StartTask(w))
             /\ ~Has(ts, HaltTask)
  BY <1>2 DEF MayYield, TaskInv, StartInv, EventInv
<1>3. CASE YieldUnload(q, hm, act, ts)
  <2>1. inactive_umi_map = {}
    BY <1>3 DEF YieldUnload, Range
  <2>2. MayYield(act) /\ active_umi \in Umi
    BY <1>3 DEF YieldUnload, TypeOK
  <2>3. /\ status' = "empty"
        /\ active_umi' = NoUmi
        /\ inactive_umi_map' = {active_umi}
        /\ idle_umi_queue' = <<active_umi>>
        /\ tasks' = ts
        /\ UNCHANGED <<activation_promise_map, umi_id, blocked, timer_set, phase, cpu>>
    BY <1>3, <2>1 DEF YieldUnload
  <2>4. status = "idle" /\ phase[active_umi] \in InService
    <3>1. status = "idle"
      BY <1>2, <2>2, SlotAssumption DEF SlotMatchesCpu
    <3>2. phase[active_umi] \notin {"new", "done", "loaded"} /\ phase[active_umi] \in Phase
      BY <2>2, <3>1, SlotAssumption DEF PhaseInv, TypeOK
    <3>. QED
      BY <3>1, <3>2 DEF Phase, InService
  <2>5. QueueMatchesMap'
    <3>1. IsInjective(<<active_umi>>) /\ Range(<<active_umi>>) = {active_umi}
      BY DEF IsInjective, Range
    <3>. QED
      BY <2>2, <2>3, <3>1, SlotAssumption DEF QueueMatchesMap
  <2>6. SlotMatchesCpu' /\ ProxyFollowsSlot'
    BY <2>2, <2>3, SlotAssumption DEF SlotMatchesCpu, ProxyFollowsSlot
  <2>7. PhaseInv'
    BY <2>1, <2>2, <2>3, <2>4, SlotAssumption DEF PhaseInv, InService
  <2>8. TaskInv(tasks)'
    BY <1>2, <2>2, <2>3, SlotAssumption DEF TaskInv, StartInv, ResumeInv, EventInv
  <2>. QED
    BY <2>5, <2>6, <2>7, <2>8 DEF Core
<1>4. ASSUME MayYield(act), NEW k \in Eligible(q, act), YieldTo(q[k], q, hm, act, ts)
      PROVE  Core' /\ TaskInv(tasks)'
  <2>1. PICK v \in Umi : v = q[k] /\ v \in inactive_umi_map
    BY DEF Eligible, Range
  <2>2. YieldTo(v, q, hm, act, ts)
    BY <1>4, <2>1
  <2>. DEFINE r == QueueAfterSwap(q, v)
  <2>3. /\ r \in Seq(Umi)
        /\ IsInjective(r)
        /\ Range(r) = inactive_umi_map'
        /\ v \notin inactive_umi_map'
        /\ \A w \in Umi : w \in inactive_umi_map'
               <=> (w \in inactive_umi_map /\ w # v) \/ w = active_umi
    BY <2>1, <2>2, SwapSafe DEF YieldTo
  <2>. HIDE DEF r
  <2>4. v # NoUmi /\ v # active_umi /\ phase[v] \notin {"new", "done"}
    BY <2>1, SlotAssumption DEF PhaseInv
  <2>5. \A w \in Umi : phase[w] \in {"new", "done"}
            <=> w \notin inactive_umi_map' /\ w # v
    BY <2>1, <2>3 DEF PhaseInv
  <2>6. \A w \in Umi : w \in inactive_umi_map' /\ phase[w] = "loaded"
            <=> w \in activation_promise_map /\ w # v
    <3>1. \A w \in Umi : w = active_umi => phase[w] # "loaded"
      BY <1>2, <1>4, SlotAssumption DEF PhaseInv
    <3>. QED
      BY <2>3, <2>4, <3>1 DEF PhaseInv
  <2>7. CASE v \in activation_promise_map
    <3>1. /\ status' = "loaded"
          /\ active_umi' = v
          /\ idle_umi_queue' = r
          /\ umi_id' = v
          /\ activation_promise_map' = activation_promise_map \ {v}
          /\ tasks' = Append(ts, StartTask(v))
          /\ UNCHANGED <<blocked, timer_set, phase, cpu>>
      BY <2>2, <2>7 DEF YieldTo, r
    <3>2. phase[v] = "loaded"
      BY <2>7 DEF PhaseInv
    <3>3. \A t : Has(tasks', t) <=> Has(ts, t) \/ t = StartTask(v)
      BY <3>1, HasAppend
    <3>4. \A t : (t # StartTask(v) \/ ~Has(ts, t)) /\ AtMostOnce(ts, t)
              => AtMostOnce(tasks', t)
      BY <3>1, HasAppend
    <3>5. QueueMatchesMap' /\ SlotMatchesCpu' /\ ProxyFollowsSlot'
      BY <2>3, <2>4, <3>1 DEF QueueMatchesMap, SlotMatchesCpu, ProxyFollowsSlot
    <3>6. PhaseInv'
      <4>1. \A u \in Umi : u \in activation_promise_map'
                              <=> u \in inactive_umi_map' /\ phase'[u] = "loaded"
        BY <2>6, <3>1
      <4>. QED
        BY <2>4, <2>5, <3>1, <3>2, <4>1 DEF PhaseInv
    <3>7. StartInv(tasks)'
      BY <1>2, <1>4, <3>1, <3>3, <3>4, TasksDiffer DEF TaskInv, StartInv
    <3>8. ResumeInv(tasks)'
      BY <3>1, <3>3, <3>4, TasksDiffer DEF TaskInv, ResumeInv
    <3>9. EventInv(tasks)'
      BY <1>2, <1>4, <2>4, <3>1, <3>3, TasksDiffer DEF TaskInv, EventInv
    <3>. QED
      BY <3>5, <3>6, <3>7, <3>8, <3>9 DEF Core, TaskInv
  <2>8. CASE v \notin activation_promise_map /\ v \in hm
    <3>1. /\ Halt(v, r, act, ts, v)
          /\ UNCHANGED <<activation_promise_map, blocked, timer_set>>
      BY <2>2, <2>8 DEF YieldTo, r
    <3>2. phase[v] \in InService
      BY <2>1, <2>4, <2>8 DEF PhaseInv, TypeOK, Phase, InService
    <3>3. \A w \in Umi : w \in activation_promise_map
                            <=> w \in Range(r) /\ phase[w] = "loaded"
      BY <2>3, <2>6, <2>8
    <3>4. \A w \in Umi : w # v => (phase[w] \in {"new", "done"} <=> w \notin Range(r))
      BY <2>3, <2>5
    <3>5. /\ \A w \in Umi : blocked[w] => phase[w] \in InService \cup {"done"}
          /\ \A w \in Umi : timer_set[w] => blocked[w]
      BY DEF PhaseInv
    <3>6. ResumeInv(ts) /\ \A w \in Umi : ~Has(ts, StartTask(w))
      BY <1>2, <1>4 DEF TaskInv
    <3>7. cpu \in {NoUmi, v} /\ cpu' = IF ts = <<>> THEN NoUmi ELSE cpu
      OBVIOUS
    <3>. QED
      BY <2>3, <3>1, <3>2, <3>3, <3>4, <3>5, <3>6, <3>7, HaltSafe
  <2>9. CASE v \notin activation_promise_map /\ v \notin hm
    <3>1. /\ status' = "idle"
          /\ active_umi' = v
          /\ idle_umi_queue' = r
          /\ umi_id' = v
          /\ Kick(v, ts)
          /\ UNCHANGED <<activation_promise_map, phase, cpu>>
      BY <2>2, <2>9 DEF YieldTo, r
    <3>2. phase[v] \in InService
      BY <2>1, <2>4, <2>9 DEF PhaseInv, TypeOK, Phase, InService
    <3>3. /\ ResumeInv(tasks)'
          /\ \A t : t # ResumeTask(v) => (Has(tasks', t) <=> Has(ts, t))
          /\ \A t : t # ResumeTask(v) /\ AtMostOnce(ts, t) => AtMostOnce(tasks', t)
          /\ \A w \in Umi : blocked'[w] => blocked[w]
          /\ \A w \in Umi : timer_set'[w] => blocked'[w]
      <4>1. /\ \A w \in Umi : blocked[w] => phase[w] \in InService \cup {"done"}
            /\ \A w \in Umi : timer_set[w] => blocked[w]
            /\ phase[v] # "done"
        BY <2>4 DEF PhaseInv
      <4>. QED
        BY <3>1, <4>1, KickSafe DEF TaskInv
    <3>4. QueueMatchesMap' /\ SlotMatchesCpu' /\ ProxyFollowsSlot'
      BY <2>3, <2>4, <3>1 DEF QueueMatchesMap, SlotMatchesCpu, ProxyFollowsSlot
    <3>5. PhaseInv'
      <4>1. \A u \in Umi : u \in activation_promise_map'
                              <=> u \in inactive_umi_map' /\ phase'[u] = "loaded"
        BY <2>6, <2>9, <3>1
      <4>. QED
        BY <2>4, <2>5, <3>1, <3>2, <3>3, <4>1 DEF PhaseInv, InService
    <3>6. StartInv(tasks)'
      BY <1>2, <1>4, <3>1, <3>3, TasksDiffer DEF TaskInv, StartInv
    <3>7. EventInv(tasks)'
      BY <1>2, <1>4, <2>4, <3>1, <3>3, TasksDiffer DEF TaskInv, EventInv
    <3>. QED
      BY <3>3, <3>4, <3>5, <3>6, <3>7 DEF Core, TaskInv
  <2>. QED
    BY <2>7, <2>8, <2>9
<1>. QED
  BY <1>1, <1>3, <1>4 DEF Yield

-----------------------------------------------------------------------------
(* The steps *)

\* What the handler of pending event i finds after the event was taken.
LEMMA TakenEvent ==
    ASSUME SlotInv, NEW i \in DOMAIN tasks
    PROVE  /\ RemoveAt(tasks, i) \in Seq(Task)
           /\ tasks[i] \in Task
           /\ tasks[i].fn \in {"Start", "Resume", "Outgoing"} => tasks[i].umi \in Umi
           /\ Has(tasks, tasks[i])
           /\ \A t : t # tasks[i] => (Has(RemoveAt(tasks, i), t) <=> Has(tasks, t))
           /\ \A t : AtMostOnce(tasks, t) => AtMostOnce(RemoveAt(tasks, i), t)
           /\ AtMostOnce(tasks, tasks[i]) => ~Has(RemoveAt(tasks, i), tasks[i])
           /\ tasks[i].fn \in {"Halt", "Yield", "Outgoing"} => TaskInv(RemoveAt(tasks, i))
<1>. DEFINE ts == RemoveAt(tasks, i)
<1>1. tasks \in Seq(Task)
  BY DEF SlotInv, TypeOK
<1>2. ts \in Seq(Task) /\ tasks[i] \in Task /\ Has(tasks, tasks[i])
  BY <1>1, RemoveAtProperties DEF Has
<1>3. tasks[i].fn \in {"Start", "Resume", "Outgoing"} => tasks[i].umi \in Umi
  BY <1>2, TaskTypes
<1>4. \A t : /\ Has(ts, t) => Has(tasks, t)
             /\ t # tasks[i] => (Has(ts, t) <=> Has(tasks, t))
             /\ AtMostOnce(tasks, t) => AtMostOnce(ts, t)
             /\ AtMostOnce(tasks, t) /\ tasks[i] = t => ~Has(ts, t)
  BY <1>1, HasRemove
<1>. HIDE DEF ts
<1>5. ASSUME tasks[i].fn \in {"Halt", "Yield", "Outgoing"} PROVE TaskInv(ts)
  <2>1. \A u : tasks[i] # StartTask(u) /\ tasks[i] # ResumeTask(u)
    BY <1>5 DEF StartTask, ResumeTask
  <2>. QED
    BY <1>4, <2>1 DEF SlotInv, TaskInv, StartInv, ResumeInv, EventInv
<1>. QED
  BY <1>2, <1>3, <1>4, <1>5 DEF ts

LEMMA StartSafe ==
    ASSUME SlotInv, cpu = NoUmi, NEW i \in DOMAIN tasks, RunStart(i)
    PROVE  Core' /\ TaskInv(tasks)' /\ NoFault'
<1>. DEFINE u  == tasks[i].umi
            ts == RemoveAt(tasks, i)
<1>1. u \in Umi /\ tasks[i] = StartTask(u) /\ Has(tasks, StartTask(u))
  BY TakenEvent, TaskShape DEF RunStart
<1>. HIDE DEF u
<1>2. active_umi = u /\ status = "loaded" /\ u # NoUmi
  BY <1>1, SlotAssumption DEF SlotInv, TaskInv, StartInv
<1>3. /\ status' = "active"
      /\ cpu' = u
      /\ phase' = [phase EXCEPT ![u] = "started"]
      /\ tasks' = ts
      /\ UNCHANGED <<active_umi, idle_umi_queue, inactive_umi_map,
                     activation_promise_map, umi_id, blocked, timer_set, fault>>
  BY <1>2 DEF RunStart, u, instVars
<1>4. phase[u] = "loaded" /\ phase'[u] = "started"
      /\ \A w \in Umi : w # u => phase'[w] = phase[w]
  BY <1>1, <1>2, <1>3 DEF SlotInv, TypeOK, PhaseInv
<1>5. ~blocked[u] /\ u \notin activation_promise_map /\ ~Has(tasks, ResumeTask(u))
  BY <1>1, <1>2, <1>4 DEF SlotInv, QueueMatchesMap, PhaseInv, TaskInv, ResumeInv, InService
<1>6. /\ \A t : t # StartTask(u) => (Has(tasks', t) <=> Has(tasks, t))
      /\ \A t : AtMostOnce(tasks, t) => AtMostOnce(tasks', t)
      /\ ~Has(tasks', StartTask(u))
  BY <1>1, <1>3, TakenEvent DEF SlotInv, TaskInv, StartInv
<1>7. QueueMatchesMap' /\ SlotMatchesCpu' /\ ProxyFollowsSlot' /\ NoFault'
  BY <1>2, <1>3 DEF SlotInv, QueueMatchesMap, SlotMatchesCpu, ProxyFollowsSlot, NoFault
<1>8. PhaseInv'
  <2>1. \A w \in Umi : phase'[w] \in {"new", "done"}
            <=> w \notin inactive_umi_map /\ active_umi # w
    BY <1>4 DEF SlotInv, PhaseInv
  <2>2. \A w \in Umi : w \in activation_promise_map
            <=> w \in inactive_umi_map /\ phase'[w] = "loaded"
    BY <1>2, <1>4 DEF SlotInv, PhaseInv, QueueMatchesMap
  <2>3. \A w \in Umi : blocked[w] => phase'[w] \in InService \cup {"done"}
    BY <1>4, <1>5 DEF SlotInv, PhaseInv
  <2>. QED
    BY <1>2, <1>3, <1>4, <1>5, <2>1, <2>2, <2>3 DEF SlotInv, PhaseInv, InService
<1>9. StartInv(tasks)'
  BY <1>2, <1>3, <1>6, TasksDiffer DEF SlotInv, TaskInv, StartInv
<1>10. ResumeInv(tasks)'
  <2>1. \A w \in Umi : w # u => (Has(tasks', ResumeTask(w)) <=>
            phase'[w] \in InService /\ ~blocked'[w] /\ cpu' # w)
    BY <1>3, <1>4, <1>6, TasksDiffer, SlotAssumption DEF SlotInv, TaskInv, ResumeInv
  <2>. QED
    BY <1>3, <1>5, <1>6, <2>1, TasksDiffer DEF SlotInv, TaskInv, ResumeInv
<1>11. EventInv(tasks)'
  BY <1>2, <1>3, <1>6, TasksDiffer DEF SlotInv, TaskInv, EventInv, ProxyFollowsSlot
<1>. QED
  BY <1>7, <1>8, <1>9, <1>10, <1>11 DEF Core, TaskInv

\* A started occupant is in service.
LEMMA OccupantInService ==
    ASSUME SlotInv, active_umi # NoUmi, status # "loaded"
    PROVE  active_umi \in Umi /\ phase[active_umi] \in InService
<1>1. active_umi \in Umi
  BY DEF SlotInv, TypeOK
<1>2. phase[active_umi] \notin {"new", "done", "loaded"} /\ phase[active_umi] \in Phase
  BY <1>1 DEF SlotInv, TypeOK, PhaseInv
<1>. QED
  BY <1>1, <1>2 DEF Phase, InService

\* Halt of the occupant, by its own event, a client or its guest.
LEMMA OccupantHaltSafe ==
    ASSUME SlotInv, active_umi # NoUmi, status # "loaded",
           NEW ts \in Seq(Task), TaskInv(ts),
           Halt(active_umi, idle_umi_queue, is_active, ts, umi_id),
           cpu' = IF ts = <<>> THEN NoUmi ELSE cpu,
           UNCHANGED <<inactive_umi_map, activation_promise_map, blocked, timer_set>>
    PROVE  Core' /\ TaskInv(tasks)'
<1>. DEFINE u == active_umi
            q == idle_umi_queue
<1>1. u \in Umi /\ phase[u] \in InService
  BY OccupantInService
<1>2. umi_id = u
  BY DEF SlotInv, ProxyFollowsSlot
<1>3. Halt(u, q, is_active, ts, u)
  BY <1>2
<1>4. /\ q \in Seq(Umi)
      /\ IsInjective(q)
      /\ Range(q) = inactive_umi_map
      /\ u \notin Range(q)
  BY DEF SlotInv, TypeOK, QueueMatchesMap
<1>5. inactive_umi_map' = Range(q)
  BY <1>4
<1>6. /\ \A w \in Umi : w # u => (phase[w] \in {"new", "done"} <=> w \notin Range(q))
      /\ \A w \in Umi : w \in activation_promise_map
                            <=> w \in Range(q) /\ phase[w] = "loaded"
      /\ \A w \in Umi : blocked[w] => phase[w] \in InService \cup {"done"}
      /\ \A w \in Umi : timer_set[w] => blocked[w]
      /\ cpu # NoUmi => ~blocked[cpu]
  BY <1>4 DEF SlotInv, PhaseInv
<1>7. ResumeInv(ts) /\ \A w \in Umi : ~Has(ts, StartTask(w))
  BY DEF TaskInv, StartInv
<1>8. cpu \in {NoUmi, u}
  BY DEF SlotInv, SlotMatchesCpu
<1>9. TypeOK
  BY DEF SlotInv
<1>. HIDE DEF u, q
<1>. QED
  BY <1>1, <1>3, <1>4, <1>5, <1>6, <1>7, <1>8, <1>9, HaltSafe

LEMMA HaltEventSafe ==
    ASSUME SlotInv, cpu = NoUmi, NEW i \in DOMAIN tasks, RunHalt(i)
    PROVE  Core' /\ TaskInv(tasks)' /\ NoFault'
<1>. DEFINE ts == RemoveAt(tasks, i)
<1>1. Has(tasks, HaltTask) /\ ts \in Seq(Task) /\ TaskInv(ts)
  BY TakenEvent, TaskShape DEF RunHalt
<1>. HIDE DEF ts
<1>2. status = "halting" /\ active_umi # NoUmi
  BY <1>1 DEF SlotInv, TaskInv, EventInv, SlotMatchesCpu
<1>3. /\ Halt(active_umi, idle_umi_queue, is_active, ts, umi_id)
      /\ UNCHANGED <<inactive_umi_map, activation_promise_map, blocked, timer_set,
                     cpu, fault>>
  BY <1>2 DEF RunHalt, ts
<1>4. cpu' = IF ts = <<>> THEN NoUmi ELSE cpu
  BY <1>3
<1>5. Core' /\ TaskInv(tasks)'
  BY <1>1, <1>2, <1>3, <1>4, OccupantHaltSafe
<1>. QED
  BY <1>3, <1>5 DEF SlotInv, NoFault

\* Yield finds something to do if the slot is not empty or an instance waits.
LEMMA YieldHasWork ==
    ASSUME NEW q \in Seq(Umi), NEW act, Range(q) = inactive_umi_map,
           active_umi # NoUmi \/ inactive_umi_map # {}
    PROVE  YieldFault(q, act) = "none"
<1>1. ~(q = <<>> /\ active_umi = NoUmi)
  BY DEF Range
<1>2. \A k \in Eligible(q, act) : q[k] \in inactive_umi_map
  BY DEF Eligible, Range
<1>. QED
  BY <1>1, <1>2 DEF YieldFault

LEMMA YieldEventSafe ==
    ASSUME SlotInv, cpu = NoUmi, NEW i \in DOMAIN tasks, RunYield(i)
    PROVE  Core' /\ TaskInv(tasks)' /\ NoFault'
<1>. DEFINE ts == RemoveAt(tasks, i)
<1>1. Has(tasks, YieldTask) /\ ts \in Seq(Task) /\ TaskInv(ts)
  BY TakenEvent, TaskShape DEF RunYield
<1>. HIDE DEF ts
<1>2. /\ idle_umi_queue \in Seq(Umi)
      /\ Range(idle_umi_queue) = inactive_umi_map
      /\ IsInjective(idle_umi_queue)
      /\ active_umi \notin inactive_umi_map
      /\ inactive_umi_halt_map \in SUBSET Umi
      /\ is_active \in [Umi -> BOOLEAN]
  BY DEF SlotInv, TypeOK, QueueMatchesMap
<1>3. active_umi # NoUmi \/ inactive_umi_map # {}
  BY <1>1 DEF SlotInv, SlotMatchesCpu, TaskInv, EventInv
<1>4. YieldFault(idle_umi_queue, is_active) = "none"
  BY <1>2, <1>3, YieldHasWork
<1>5. /\ Yield(idle_umi_queue, inactive_umi_halt_map, is_active, ts)
      /\ UNCHANGED <<cpu, fault>>
  BY <1>4 DEF RunYield, ts
<1>6. Core' /\ TaskInv(tasks)'
  BY <1>1, <1>2, <1>5, YieldSafe DEF SlotInv
<1>. QED
  BY <1>5, <1>6 DEF SlotInv, NoFault

LEMMA ResumeSafe ==
    ASSUME SlotInv, cpu = NoUmi, NEW i \in DOMAIN tasks, RunResume(i)
    PROVE  Core' /\ TaskInv(tasks)' /\ NoFault'
<1>. DEFINE u  == tasks[i].umi
            ts == RemoveAt(tasks, i)
<1>1. u \in Umi /\ tasks[i] = ResumeTask(u) /\ Has(tasks, ResumeTask(u))
  BY TakenEvent, TaskShape DEF RunResume
<1>. HIDE DEF u
<1>2. phase[u] \in InService /\ ~blocked[u] /\ u # NoUmi
  BY <1>1, SlotAssumption DEF SlotInv, TaskInv, ResumeInv
<1>3. /\ \A t : t # ResumeTask(u) => (Has(ts, t) <=> Has(tasks, t))
      /\ \A t : AtMostOnce(tasks, t) => AtMostOnce(ts, t)
      /\ ~Has(ts, ResumeTask(u))
  BY <1>1, TakenEvent DEF SlotInv, TaskInv, ResumeInv
<1>. HIDE DEF ts
<1>4. tasks' = ts
      /\ UNCHANGED <<active_umi, idle_umi_queue, inactive_umi_map,
                     activation_promise_map, umi_id, timer_set, phase>>
  BY DEF RunResume, ts
<1>5. QueueMatchesMap'
  BY <1>4 DEF SlotInv, QueueMatchesMap
<1>6. CASE request_slot_entry(u)
  <2>1. active_umi = u /\ status \in {"loaded", "active", "idle"}
    BY <1>2, <1>6 DEF request_slot_entry, SlotInv, PhaseInv, SlotMatchesCpu
  <2>2. status = "idle"
    BY <1>2, <2>1 DEF SlotInv, SlotMatchesCpu, PhaseInv, InService
  <2>3. status' = "active" /\ cpu' = u /\ fault' = "none" /\ blocked' = blocked
    BY <1>6, <2>2 DEF RunResume, u
  <2>4. SlotMatchesCpu' /\ ProxyFollowsSlot' /\ NoFault'
    BY <1>2, <1>4, <2>1, <2>3 DEF SlotInv, SlotMatchesCpu, ProxyFollowsSlot, NoFault
  <2>5. PhaseInv'
    BY <1>2, <1>4, <2>1, <2>2, <2>3 DEF SlotInv, PhaseInv, InService
  <2>6. StartInv(tasks)'
    BY <1>3, <1>4, <2>2, <2>3, TasksDiffer DEF SlotInv, TaskInv, StartInv
  <2>7. ResumeInv(tasks)'
    <3>1. \A w \in Umi : w # u => (Has(ts, ResumeTask(w)) <=>
              phase[w] \in InService /\ ~blocked[w] /\ u # w)
      BY <1>3, TasksDiffer, SlotAssumption DEF SlotInv, TaskInv, ResumeInv
    <3>. QED
      BY <1>3, <1>4, <2>3, <3>1 DEF SlotInv, TaskInv, ResumeInv
  <2>8. EventInv(tasks)'
    BY <1>3, <1>4, <2>2, <2>3, TasksDiffer DEF SlotInv, TaskInv, EventInv
  <2>. QED
    BY <1>5, <2>4, <2>5, <2>6, <2>7, <2>8 DEF Core, TaskInv
<1>7. CASE ~request_slot_entry(u)
  <2>1. /\ blocked' = [blocked EXCEPT ![u] = TRUE]
        /\ UNCHANGED <<status, cpu, fault>>
    BY <1>7 DEF RunResume, u
  <2>2. blocked'[u] /\ \A w \in Umi : w # u => (blocked'[w] <=> blocked[w])
    BY <1>1, <2>1 DEF SlotInv, TypeOK
  <2>3. SlotMatchesCpu' /\ ProxyFollowsSlot' /\ NoFault'
    BY <1>4, <2>1 DEF SlotInv, SlotMatchesCpu, ProxyFollowsSlot, NoFault
  <2>4. PhaseInv'
    BY <1>2, <1>4, <2>1, <2>2 DEF SlotInv, PhaseInv
  <2>5. StartInv(tasks)'
    BY <1>3, <1>4, <2>1, TasksDiffer DEF SlotInv, TaskInv, StartInv
  <2>6. ResumeInv(tasks)'
    <3>1. \A w \in Umi : w # u => (Has(ts, ResumeTask(w)) <=>
              phase[w] \in InService /\ ~blocked'[w] /\ cpu # w)
      BY <1>3, <2>2, TasksDiffer DEF SlotInv, TaskInv, ResumeInv
    <3>. QED
      BY <1>3, <1>4, <2>1, <2>2, <3>1 DEF SlotInv, TaskInv, ResumeInv
  <2>7. EventInv(tasks)'
    BY <1>3, <1>4, <2>1, TasksDiffer DEF SlotInv, TaskInv, EventInv
  <2>. QED
    BY <1>5, <2>3, <2>4, <2>5, <2>6, <2>7 DEF Core, TaskInv
<1>. QED
  BY <1>6, <1>7

LEMMA OutgoingSafe ==
    ASSUME SlotInv, cpu = NoUmi, NEW i \in DOMAIN tasks, RunOutgoing(i)
    PROVE  Core' /\ TaskInv(tasks)' /\ NoFault'
<1>1. Has(tasks, OutgoingTask(tasks[i].umi)) /\ tasks[i].umi \in Umi
      /\ TaskInv(RemoveAt(tasks, i))
  BY TakenEvent, TaskShape DEF RunOutgoing
<1>2. umi_id # NoUmi
  BY <1>1 DEF SlotInv, TaskInv, EventInv
<1>3. GetInstance(umi_id)
  BY <1>2 DEF GetInstance, SlotInv, ProxyFollowsSlot
<1>4. /\ tasks' = RemoveAt(tasks, i)
      /\ UNCHANGED <<slotVars, blocked, timer_set, cpu, phase, fault>>
  BY <1>3 DEF RunOutgoing
<1>5. TaskInv(tasks)'
  BY <1>1, <1>4 DEF slotVars, TaskInv, StartInv, ResumeInv, EventInv
<1>. QED
  BY <1>4, <1>5 DEF SlotInv, Core, slotVars, QueueMatchesMap, SlotMatchesCpu,
                    ProxyFollowsSlot, PhaseInv, NoFault

LEMMA FireSafe ==
    ASSUME SlotInv, cpu = NoUmi, NEW u \in Umi, Fire(u)
    PROVE  Core' /\ TaskInv(tasks)' /\ NoFault'
<1>1. /\ UNCHANGED <<slotVars, cpu, phase, fault>>
      /\ timer_set' = [timer_set EXCEPT ![u] = FALSE]
  BY DEF Fire
<1>2. ~timer_set'[u] /\ \A w \in Umi : w # u => (timer_set'[w] <=> timer_set[w])
  BY <1>1 DEF SlotInv, TypeOK
<1>3. QueueMatchesMap' /\ SlotMatchesCpu' /\ ProxyFollowsSlot' /\ NoFault'
  BY <1>1 DEF slotVars, SlotInv, QueueMatchesMap, SlotMatchesCpu, ProxyFollowsSlot, NoFault
<1>4. CASE request_slot_entry(u) /\ blocked[u]
  <2>1. /\ blocked' = [blocked EXCEPT ![u] = FALSE]
        /\ tasks' = Append(tasks, ResumeTask(u))
    BY <1>4 DEF Fire
  <2>2. ~blocked'[u] /\ \A w \in Umi : w # u => (blocked'[w] <=> blocked[w])
    BY <2>1 DEF SlotInv, TypeOK
  <2>3. phase[u] \in InService
    BY <1>4, SlotAssumption DEF request_slot_entry, SlotInv, PhaseInv
  <2>4. tasks \in Seq(Task)
    BY DEF SlotInv, TypeOK
  <2>5. /\ \A t : Has(tasks', t) <=> Has(tasks, t) \/ t = ResumeTask(u)
        /\ \A t : (t # ResumeTask(u) \/ ~Has(tasks, t)) /\ AtMostOnce(tasks, t)
              => AtMostOnce(tasks', t)
    BY <2>1, <2>4, HasAppend
  <2>6. ~Has(tasks, ResumeTask(u))
    BY <1>4 DEF SlotInv, TaskInv, ResumeInv
  <2>7. PhaseInv'
    BY <1>1, <1>2, <2>2 DEF slotVars, SlotInv, PhaseInv
  <2>8. StartInv(tasks)'
    BY <1>1, <2>5, TasksDiffer DEF slotVars, SlotInv, TaskInv, StartInv
  <2>9. ResumeInv(tasks)'
    <3>1. \A w \in Umi : w # u => (Has(tasks', ResumeTask(w)) <=>
              phase[w] \in InService /\ ~blocked'[w] /\ cpu # w)
      BY <2>2, <2>5, TasksDiffer DEF SlotInv, TaskInv, ResumeInv
    <3>2. \A w \in Umi : AtMostOnce(tasks', ResumeTask(w))
      BY <2>5, <2>6, TasksDiffer DEF SlotInv, TaskInv, ResumeInv
    <3>. QED
      BY <1>1, <2>2, <2>3, <2>5, <3>1, <3>2, SlotAssumption DEF ResumeInv
  <2>10. EventInv(tasks)'
    BY <1>1, <2>5, TasksDiffer DEF slotVars, SlotInv, TaskInv, EventInv
  <2>. QED
    BY <1>3, <2>7, <2>8, <2>9, <2>10 DEF Core, TaskInv
<1>5. CASE ~(request_slot_entry(u) /\ blocked[u])
  <2>1. UNCHANGED <<blocked, tasks>>
    BY <1>5 DEF Fire
  <2>2. PhaseInv'
    BY <1>1, <1>2, <2>1 DEF slotVars, SlotInv, PhaseInv
  <2>3. TaskInv(tasks)'
    BY <1>1, <2>1 DEF slotVars, SlotInv, TaskInv, StartInv, ResumeInv, EventInv
  <2>. QED
    BY <1>3, <2>2, <2>3 DEF Core
<1>. QED
  BY <1>4, <1>5

LEMMA FireEarlySafe ==
    ASSUME SlotInv, cpu = NoUmi, NEW u \in Umi, FireEarly(u)
    PROVE  Core' /\ TaskInv(tasks)' /\ NoFault'
<1>1. /\ UNCHANGED <<slotVars, blocked, tasks, cpu, phase, fault>>
      /\ timer_set' = [timer_set EXCEPT ![u] = FALSE]
  BY DEF FireEarly
<1>2. \A w \in Umi : timer_set'[w] => timer_set[w]
  BY <1>1 DEF SlotInv, TypeOK
<1>3. QueueMatchesMap' /\ SlotMatchesCpu' /\ ProxyFollowsSlot' /\ NoFault'
  BY <1>1 DEF slotVars, SlotInv, QueueMatchesMap, SlotMatchesCpu, ProxyFollowsSlot, NoFault
<1>4. PhaseInv'
  BY <1>1, <1>2 DEF slotVars, SlotInv, PhaseInv
<1>5. TaskInv(tasks)'
  BY <1>1 DEF slotVars, SlotInv, TaskInv, StartInv, ResumeInv, EventInv
<1>. QED
  BY <1>3, <1>4, <1>5 DEF Core

LEMMA PacketSafe ==
    ASSUME SlotInv, cpu = NoUmi, NEW u \in Umi, NEW payload \in BOOLEAN,
           PacketIn(u, payload)
    PROVE  Core' /\ TaskInv(tasks)' /\ NoFault'
<1>. DEFINE act == IF payload THEN [is_active EXCEPT ![u] = TRUE] ELSE is_active
            q   == slot_queue_move_to_front(idle_umi_queue, u)
<1>1. act \in [Umi -> BOOLEAN] /\ tasks \in Seq(Task)
      /\ inactive_umi_halt_map \in SUBSET Umi
  BY DEF SlotInv, TypeOK
<1>2. q \in Seq(Umi) /\ IsInjective(q) /\ Range(q) = inactive_umi_map
  BY QueueType, QueueToFront DEF SlotInv, TypeOK, QueueMatchesMap
<1>. HIDE DEF act, q
<1>3. GetInstance(u) /\ u # NoUmi
  BY SlotAssumption DEF PacketIn
<1>4. CASE active_umi = u
  <2>1. Kick(u, tasks) /\ UNCHANGED <<slotVars, cpu, phase, fault>>
    BY <1>4 DEF PacketIn
  <2>2. phase[u] # "done"
    BY <1>4 DEF SlotInv, PhaseInv
  <2>3. /\ \A w \in Umi : blocked[w] => phase[w] \in InService \cup {"done"}
        /\ \A w \in Umi : timer_set[w] => blocked[w]
        /\ ResumeInv(tasks)
        /\ TypeOK
    BY DEF SlotInv, PhaseInv, TaskInv
  <2>4. /\ ResumeInv(tasks)'
        /\ \A t : t # ResumeTask(u) => (Has(tasks', t) <=> Has(tasks, t))
        /\ \A t : t # ResumeTask(u) /\ AtMostOnce(tasks, t) => AtMostOnce(tasks', t)
        /\ \A w \in Umi : blocked'[w] => blocked[w]
        /\ \A w \in Umi : timer_set'[w] => blocked'[w]
    BY <1>1, <2>1, <2>2, <2>3, KickSafe
  <2>5. QueueMatchesMap' /\ SlotMatchesCpu' /\ ProxyFollowsSlot' /\ NoFault'
    BY <2>1 DEF slotVars, SlotInv, QueueMatchesMap, SlotMatchesCpu, ProxyFollowsSlot,
                NoFault
  <2>6. PhaseInv'
    BY <2>1, <2>4 DEF slotVars, SlotInv, PhaseInv
  <2>7. StartInv(tasks)'
    BY <2>1, <2>4, TasksDiffer DEF slotVars, SlotInv, TaskInv, StartInv
  <2>8. EventInv(tasks)'
    BY <2>1, <2>4, TasksDiffer DEF slotVars, SlotInv, TaskInv, EventInv
  <2>. QED
    BY <2>4, <2>5, <2>6, <2>7, <2>8 DEF Core, TaskInv
<1>5. CASE active_umi # u
  <2>1. YieldFault(q, act) = "none"
    BY <1>2, <1>3, <1>5, YieldHasWork DEF GetInstance
  <2>2. Yield(q, inactive_umi_halt_map, act, tasks) /\ UNCHANGED <<cpu, fault>>
    BY <1>5, <2>1 DEF PacketIn, act, q
  <2>3. active_umi \notin inactive_umi_map
    BY DEF SlotInv, QueueMatchesMap
  <2>4. Core' /\ TaskInv(tasks)'
    BY <1>1, <1>2, <2>2, <2>3, YieldSafe DEF SlotInv
  <2>. QED
    BY <2>2, <2>4 DEF SlotInv, NoFault
<1>. QED
  BY <1>4, <1>5

LEMMA LoadSafe ==
    ASSUME SlotInv, cpu = NoUmi, NEW u \in Umi, Load(u)
    PROVE  Core' /\ TaskInv(tasks)' /\ NoFault'
<1>1. /\ phase[u] = "new"
      /\ phase' = [phase EXCEPT ![u] = "loaded"]
      /\ UNCHANGED <<blocked, timer_set, cpu, fault>>
  BY DEF Load, instVars
<1>2. phase'[u] = "loaded" /\ \A w \in Umi : w # u => phase'[w] = phase[w]
  BY <1>1 DEF SlotInv, TypeOK
<1>3. /\ u # NoUmi
      /\ u \notin inactive_umi_map
      /\ u # active_umi
      /\ ~blocked[u]
      /\ u \notin activation_promise_map
  BY <1>1, SlotAssumption DEF SlotInv, PhaseInv, InService
<1>4. ~Has(tasks, StartTask(u)) /\ ~Has(tasks, ResumeTask(u)) /\ tasks \in Seq(Task)
  BY <1>1, <1>3 DEF SlotInv, TypeOK, TaskInv, StartInv, ResumeInv, InService
<1>5. /\ idle_umi_queue \in Seq(Umi)
      /\ IsInjective(idle_umi_queue)
      /\ Range(idle_umi_queue) = inactive_umi_map
      /\ active_umi \notin inactive_umi_map
      /\ active_umi \in Umi \cup {NoUmi}
  BY DEF SlotInv, TypeOK, QueueMatchesMap
<1>6. ASSUME ResumeInv(tasks), ~Has(tasks, ResumeTask(u)),
             \A w \in Umi : Has(tasks', ResumeTask(w)) <=> Has(tasks, ResumeTask(w)),
             \A w \in Umi : AtMostOnce(tasks', ResumeTask(w))
      PROVE  ResumeInv(tasks)'
  <2>1. \A w \in Umi : w # u => (Has(tasks', ResumeTask(w)) <=>
            phase'[w] \in InService /\ ~blocked[w] /\ cpu # w)
    BY <1>2, <1>6 DEF ResumeInv
  <2>2. phase'[u] \notin InService
    BY <1>2 DEF InService
  <2>. QED
    BY <1>1, <1>6, <2>1, <2>2 DEF ResumeInv
<1>7. CASE status = "empty" \/ (status = "idle" /\ ~is_active[active_umi])
  <2>1. /\ status' = "loaded"
        /\ active_umi' = u
        /\ umi_id' = u
        /\ inactive_umi_map' = IF active_umi = NoUmi THEN inactive_umi_map
                               ELSE inactive_umi_map \cup {active_umi}
        /\ idle_umi_queue' = IF active_umi = NoUmi THEN idle_umi_queue
                             ELSE Append(idle_umi_queue, active_umi)
        /\ tasks' = Append(tasks, StartTask(u))
        /\ UNCHANGED activation_promise_map
    BY <1>7 DEF Load
  <2>2. /\ \A t : Has(tasks', t) <=> Has(tasks, t) \/ t = StartTask(u)
        /\ \A t : (t # StartTask(u) \/ ~Has(tasks, t)) /\ AtMostOnce(tasks, t)
              => AtMostOnce(tasks', t)
    BY <1>4, <2>1, HasAppend
  <2>3. /\ IsInjective(idle_umi_queue')
        /\ Range(idle_umi_queue') = inactive_umi_map'
        /\ u \notin inactive_umi_map'
        /\ \A w \in Umi : w \in inactive_umi_map'
               <=> w \in inactive_umi_map \/ w = active_umi
    <3>1. CASE active_umi = NoUmi
      BY <1>3, <1>5, <2>1, <3>1, SlotAssumption
    <3>2. CASE active_umi # NoUmi
      <4>1. /\ IsInjective(Append(idle_umi_queue, active_umi))
            /\ Range(Append(idle_umi_queue, active_umi)) = inactive_umi_map \cup {active_umi}
        BY <1>5, <3>2, QueueAppend
      <4>. QED
        BY <1>3, <2>1, <3>2, <4>1
    <3>. QED
      BY <3>1, <3>2
  <2>4. QueueMatchesMap' /\ SlotMatchesCpu' /\ ProxyFollowsSlot' /\ NoFault'
    BY <1>1, <1>3, <2>1, <2>3
       DEF SlotInv, QueueMatchesMap, SlotMatchesCpu, ProxyFollowsSlot, NoFault
  <2>5. PhaseInv'
    <3>1. \A w \in Umi : phase'[w] \in {"new", "done"}
              <=> w \notin inactive_umi_map' /\ active_umi' # w
      BY <1>2, <2>1, <2>3 DEF SlotInv, PhaseInv
    <3>2. \A w \in Umi : w = active_umi => phase[w] # "loaded"
      BY <1>7, SlotAssumption DEF SlotInv, PhaseInv
    <3>3. \A w \in Umi : w \in activation_promise_map'
              <=> w \in inactive_umi_map' /\ phase'[w] = "loaded"
      BY <1>2, <1>3, <2>1, <2>3, <3>2 DEF SlotInv, PhaseInv
    <3>4. \A w \in Umi : blocked[w] => phase'[w] \in InService \cup {"done"}
      BY <1>2, <1>3 DEF SlotInv, PhaseInv
    <3>5. \A w \in Umi : timer_set'[w] => blocked'[w]
      BY <1>1 DEF SlotInv, PhaseInv
    <3>. QED
      BY <1>1, <1>2, <2>1, <3>1, <3>3, <3>4, <3>5 DEF PhaseInv
  <2>6. StartInv(tasks)'
    <3>1. \A w \in Umi : ~Has(tasks, StartTask(w))
      BY <1>7 DEF SlotInv, TaskInv, StartInv
    <3>2. \A w \in Umi : AtMostOnce(tasks', StartTask(w))
      BY <2>2, <3>1 DEF SlotInv, TaskInv, StartInv
    <3>. QED
      BY <2>1, <2>2, <3>1, <3>2, TasksDiffer DEF StartInv
  <2>7. ResumeInv(tasks)'
    <3>1. ResumeInv(tasks)
      BY DEF SlotInv, TaskInv
    <3>2. /\ \A w \in Umi : Has(tasks', ResumeTask(w)) <=> Has(tasks, ResumeTask(w))
          /\ \A w \in Umi : AtMostOnce(tasks', ResumeTask(w))
      BY <2>2, <3>1, TasksDiffer DEF ResumeInv
    <3>. QED
      BY <1>4, <1>6, <3>1, <3>2
  <2>8. EventInv(tasks)'
    BY <1>3, <1>7, <2>1, <2>2, TasksDiffer DEF SlotInv, TaskInv, EventInv
  <2>. QED
    BY <2>4, <2>5, <2>6, <2>7, <2>8 DEF Core, TaskInv
<1>8. CASE ~(status = "empty" \/ (status = "idle" /\ ~is_active[active_umi]))
  <2>1. /\ idle_umi_queue' = Append(idle_umi_queue, u)
        /\ activation_promise_map' = activation_promise_map \cup {u}
        /\ inactive_umi_map' = inactive_umi_map \cup {u}
        /\ UNCHANGED <<status, active_umi, umi_id, tasks>>
    BY <1>8 DEF Load
  <2>2. /\ IsInjective(idle_umi_queue')
        /\ Range(idle_umi_queue') = inactive_umi_map'
    BY <1>3, <1>5, <2>1, QueueAppend
  <2>3. QueueMatchesMap' /\ SlotMatchesCpu' /\ ProxyFollowsSlot' /\ NoFault'
    BY <1>1, <1>3, <2>1, <2>2
       DEF SlotInv, QueueMatchesMap, SlotMatchesCpu, ProxyFollowsSlot, NoFault
  <2>4. PhaseInv'
    <3>1. \A w \in Umi : phase'[w] \in {"new", "done"}
              <=> w \notin inactive_umi_map' /\ active_umi' # w
      BY <1>2, <2>1 DEF SlotInv, PhaseInv
    <3>2. \A w \in Umi : w \in activation_promise_map'
              <=> w \in inactive_umi_map' /\ phase'[w] = "loaded"
      BY <1>2, <1>3, <2>1 DEF SlotInv, PhaseInv
    <3>3. \A w \in Umi : blocked[w] => phase'[w] \in InService \cup {"done"}
      BY <1>2, <1>3 DEF SlotInv, PhaseInv
    <3>4. active_umi # NoUmi => phase'[active_umi] = phase[active_umi]
      BY <1>2, <1>3, <1>5
    <3>. QED
      BY <1>1, <2>1, <3>1, <3>2, <3>3, <3>4 DEF SlotInv, PhaseInv
  <2>5. ResumeInv(tasks)'
    <3>1. ResumeInv(tasks)
      BY DEF SlotInv, TaskInv
    <3>2. \A w \in Umi : AtMostOnce(tasks', ResumeTask(w))
      BY <2>1, <3>1 DEF ResumeInv
    <3>. QED
      BY <1>4, <1>6, <2>1, <3>1, <3>2
  <2>6. StartInv(tasks)' /\ EventInv(tasks)'
    BY <2>1 DEF SlotInv, TaskInv, StartInv, EventInv
  <2>. QED
    BY <2>3, <2>4, <2>5, <2>6 DEF Core, TaskInv
<1>. QED
  BY <1>7, <1>8

LEMMA RunSafe ==
    ASSUME SlotInv, Protocol, cpu = NoUmi, NEW u \in Umi, Run(u)
    PROVE  Core' /\ TaskInv(tasks)' /\ NoFault'
<1>1. status = "empty" /\ phase[u] = "new" /\ active_umi = NoUmi
  BY DEF Run, Protocol, SlotInv, SlotMatchesCpu
<1>2. /\ status' = "active"
      /\ active_umi' = u
      /\ umi_id' = u
      /\ cpu' = u
      /\ phase' = [phase EXCEPT ![u] = "ran"]
      /\ UNCHANGED <<idle_umi_queue, inactive_umi_map, activation_promise_map,
                     blocked, timer_set, tasks, fault>>
  BY <1>1 DEF Run, instVars
<1>3. phase'[u] = "ran" /\ \A w \in Umi : w # u => phase'[w] = phase[w]
  BY <1>2 DEF SlotInv, TypeOK
<1>4. /\ u # NoUmi
      /\ u \notin inactive_umi_map
      /\ ~blocked[u]
      /\ u \notin activation_promise_map
      /\ ~Has(tasks, ResumeTask(u))
      /\ \A w \in Umi : ~Has(tasks, StartTask(w))
      /\ ~Has(tasks, HaltTask)
  BY <1>1, SlotAssumption
     DEF SlotInv, PhaseInv, InService, TaskInv, StartInv, ResumeInv, EventInv
<1>5. QueueMatchesMap' /\ SlotMatchesCpu' /\ ProxyFollowsSlot' /\ NoFault'
  BY <1>2, <1>4
     DEF SlotInv, QueueMatchesMap, SlotMatchesCpu, ProxyFollowsSlot, NoFault
<1>6. PhaseInv'
  <2>1. \A w \in Umi : phase'[w] \in {"new", "done"} <=> w \notin inactive_umi_map /\ u # w
    BY <1>1, <1>3, <1>4, SlotAssumption DEF SlotInv, PhaseInv
  <2>2. \A w \in Umi : w \in activation_promise_map
            <=> w \in inactive_umi_map /\ phase'[w] = "loaded"
    BY <1>3, <1>4 DEF SlotInv, PhaseInv
  <2>3. \A w \in Umi : blocked[w] => phase'[w] \in InService \cup {"done"}
    BY <1>3, <1>4 DEF SlotInv, PhaseInv
  <2>4. \A w \in Umi : timer_set[w] => blocked[w]
    BY DEF SlotInv, PhaseInv
  <2>. QED
    BY <1>2, <1>3, <1>4, <2>1, <2>2, <2>3, <2>4 DEF PhaseInv, InService
<1>7. StartInv(tasks)'
  BY <1>2, <1>4 DEF SlotInv, TaskInv, StartInv
<1>8. ResumeInv(tasks)'
  <2>1. \A w \in Umi : w # u => (Has(tasks, ResumeTask(w)) <=>
            phase'[w] \in InService /\ ~blocked[w] /\ u # w)
    BY <1>3, SlotAssumption DEF SlotInv, TaskInv, ResumeInv
  <2>. QED
    BY <1>2, <1>4, <2>1 DEF SlotInv, TaskInv, ResumeInv
<1>9. EventInv(tasks)'
  BY <1>2, <1>4 DEF SlotInv, TaskInv, EventInv
<1>. QED
  BY <1>5, <1>6, <1>7, <1>8, <1>9 DEF Core, TaskInv

LEMMA SignalHaltSafe ==
    ASSUME SlotInv, Protocol, cpu = NoUmi, NEW u \in Umi, SignalHalt(u)
    PROVE  Core' /\ TaskInv(tasks)' /\ NoFault'
<1>1. active_umi # NoUmi /\ phase[u] \in InService
  BY DEF SignalHalt, MayRequestHalt, Protocol, InService
<1>2. UNCHANGED <<cpu, fault>>
  BY <1>1 DEF SignalHalt
<1>3. tasks \in Seq(Task) /\ TaskInv(tasks)
  BY DEF SlotInv, TypeOK
<1>4. CASE u = active_umi
  <2>1. status # "loaded"
    BY <1>1, <1>4 DEF SlotInv, PhaseInv, InService
  <2>2. /\ Halt(active_umi, idle_umi_queue, is_active, tasks, umi_id)
        /\ UNCHANGED <<inactive_umi_map, activation_promise_map, blocked, timer_set>>
    BY <1>1, <1>4 DEF SignalHalt
  <2>3. cpu' = IF tasks = <<>> THEN NoUmi ELSE cpu
    BY <1>2
  <2>4. Core' /\ TaskInv(tasks)'
    BY <1>1, <1>3, <2>1, <2>2, <2>3, OccupantHaltSafe
  <2>. QED
    BY <1>2, <2>4 DEF SlotInv, NoFault
<1>5. CASE u # active_umi
  <2>. DEFINE q == slot_queue_move_to_front(idle_umi_queue, u)
  <2>1. q \in Seq(Umi) /\ IsInjective(q) /\ Range(q) = inactive_umi_map
    BY QueueType, QueueToFront DEF SlotInv, TypeOK, QueueMatchesMap
  <2>. HIDE DEF q
  <2>2. Yield(q, inactive_umi_halt_map \cup {u}, is_active, tasks)
    BY <1>1, <1>5 DEF SignalHalt, q
  <2>3. /\ inactive_umi_halt_map \cup {u} \in SUBSET Umi
        /\ is_active \in [Umi -> BOOLEAN]
        /\ active_umi \notin inactive_umi_map
    BY DEF SlotInv, TypeOK, QueueMatchesMap
  <2>4. Core' /\ TaskInv(tasks)'
    BY <1>2, <1>3, <2>1, <2>2, <2>3, YieldSafe DEF SlotInv
  <2>. QED
    BY <1>2, <2>4 DEF SlotInv, NoFault
<1>. QED
  BY <1>4, <1>5

\* An event that nothing but an occupant's proxy entry or a waiting instance supports.
LEMMA SpawnSafe ==
    ASSUME SlotInv, active_umi # NoUmi, NEW x, x = YieldTask \/ \E u \in Umi : x = OutgoingTask(u),
           tasks' = Append(tasks, x),
           UNCHANGED <<status, active_umi, idle_umi_queue, inactive_umi_map,
                       activation_promise_map, umi_id, blocked, timer_set, cpu, phase, fault>>
    PROVE  Core' /\ TaskInv(tasks)' /\ NoFault'
<1>1. tasks \in Seq(Task)
  BY DEF SlotInv, TypeOK
<1>2. /\ \A t : Has(tasks', t) <=> Has(tasks, t) \/ t = x
      /\ \A t : t # x /\ AtMostOnce(tasks, t) => AtMostOnce(tasks', t)
  BY <1>1, HasAppend
<1>3. x # HaltTask /\ \A w \in Umi : x # StartTask(w) /\ x # ResumeTask(w)
  BY TasksDiffer
<1>4. StartInv(tasks)' /\ ResumeInv(tasks)'
  BY <1>2, <1>3 DEF SlotInv, TaskInv, StartInv, ResumeInv
<1>5. EventInv(tasks)'
  BY <1>2, <1>3, TasksDiffer DEF SlotInv, TaskInv, EventInv, SlotMatchesCpu, ProxyFollowsSlot
<1>. QED
  BY <1>4, <1>5 DEF SlotInv, Core, TaskInv, QueueMatchesMap, SlotMatchesCpu,
                    ProxyFollowsSlot, PhaseInv, NoFault

LEMMA SignalYieldSafe ==
    ASSUME SlotInv, NEW u \in Umi, SignalYield(u)
    PROVE  Core' /\ TaskInv(tasks)' /\ NoFault'
<1>1. active_umi # NoUmi
  BY SlotAssumption DEF SignalYield
<1>2. /\ tasks' = Append(tasks, YieldTask)
      /\ UNCHANGED <<slotVars, blocked, timer_set, cpu, phase, fault>>
  BY DEF SignalYield, instVars
<1>. QED
  BY <1>1, <1>2, SpawnSafe DEF slotVars

LEMMA GuestSafe ==
    ASSUME SlotInv, NEW u \in Umi, cpu = u, status # "halting",
           GuestPoll(u) \/ GuestRead(u) \/ GuestWrite(u) \/ GuestHalt(u)
    PROVE  Core' /\ TaskInv(tasks)' /\ NoFault'
<1>1. /\ u # NoUmi
      /\ active_umi = u /\ status = "active"
      /\ ~blocked[u]
      /\ ~timer_set[u]
      /\ phase[u] \in InService
      /\ ~Has(tasks, ResumeTask(u))
  BY SlotAssumption DEF SlotInv, SlotMatchesCpu, PhaseInv, TaskInv, ResumeInv
<1>2. CASE GuestPoll(u)
  <2>1. /\ status = "active"
        /\ status' = "idle"
        /\ cpu' = NoUmi
        /\ fault' = "none"
        /\ blocked' = [blocked EXCEPT ![u] = TRUE]
        /\ timer_set' = [timer_set EXCEPT ![u] = is_active[u]]
        /\ UNCHANGED <<active_umi, idle_umi_queue, inactive_umi_map,
                       activation_promise_map, umi_id, tasks, phase>>
    BY <1>1, <1>2 DEF GuestPoll
  <2>2. /\ blocked'[u]
        /\ \A w \in Umi : w # u => (blocked'[w] <=> blocked[w])
        /\ \A w \in Umi : w # u => (timer_set'[w] <=> timer_set[w])
    BY <2>1 DEF SlotInv, TypeOK
  <2>3. QueueMatchesMap' /\ SlotMatchesCpu' /\ ProxyFollowsSlot' /\ NoFault'
    BY <1>1, <2>1
       DEF SlotInv, QueueMatchesMap, SlotMatchesCpu, ProxyFollowsSlot, NoFault
  <2>4. PhaseInv'
    BY <1>1, <2>1, <2>2 DEF SlotInv, PhaseInv
  <2>5. StartInv(tasks)' /\ EventInv(tasks)'
    BY <2>1 DEF SlotInv, TaskInv, StartInv, EventInv
  <2>6. ResumeInv(tasks)'
    <3>1. \A w \in Umi : w # u => (Has(tasks, ResumeTask(w)) <=>
              phase[w] \in InService /\ ~blocked'[w] /\ NoUmi # w)
      BY <2>2, SlotAssumption DEF SlotInv, TaskInv, ResumeInv
    <3>. QED
      BY <1>1, <2>1, <2>2, <3>1 DEF SlotInv, TaskInv, ResumeInv
  <2>. QED
    BY <2>3, <2>4, <2>5, <2>6 DEF Core, TaskInv
<1>3. CASE GuestRead(u)
  <2>1. UNCHANGED <<slotVars, blocked, timer_set, tasks, cpu, phase, fault>>
    BY <1>3 DEF GuestRead
  <2>. QED
    BY <2>1 DEF slotVars, SlotInv, Core, QueueMatchesMap, SlotMatchesCpu, ProxyFollowsSlot,
                PhaseInv, TaskInv, StartInv, ResumeInv, EventInv, NoFault
<1>4. CASE GuestWrite(u)
  <2>1. /\ tasks' = Append(tasks, OutgoingTask(u))
        /\ UNCHANGED <<slotVars, blocked, timer_set, cpu, phase, fault>>
    BY <1>4 DEF GuestWrite, instVars
  <2>. QED
    BY <1>1, <2>1, SpawnSafe DEF slotVars
<1>5. CASE GuestHalt(u)
  <2>1. /\ status # "loaded"
        /\ Halt(active_umi, idle_umi_queue, is_active, tasks, umi_id)
        /\ cpu' = IF tasks = <<>> THEN NoUmi ELSE cpu
        /\ UNCHANGED <<inactive_umi_map, activation_promise_map, blocked, timer_set, fault>>
    BY <1>1, <1>5 DEF GuestHalt
  <2>2. tasks \in Seq(Task) /\ TaskInv(tasks)
    BY DEF SlotInv, TypeOK
  <2>3. Core' /\ TaskInv(tasks)'
    BY <1>1, <2>1, <2>2, OccupantHaltSafe
  <2>. QED
    BY <2>1, <2>3 DEF SlotInv, NoFault
<1>. QED
  BY <1>2, <1>3, <1>4, <1>5

-----------------------------------------------------------------------------
(* The theorems *)

\* Every step preserves SlotInv.
LEMMA SlotInvStep ==
    ASSUME Protocol, SlotInv, [Next]_vars
    PROVE  SlotInv'
<1>1. TypeOK
  BY DEF SlotInv
<1>2. ASSUME TypeOK', Core' /\ TaskInv(tasks)' /\ NoFault' PROVE SlotInv'
  BY <1>2 DEF SlotInv, Core
<1>3. CASE RunTask
  BY <1>1, <1>2, <1>3, RunTaskType, StartSafe, HaltEventSafe, YieldEventSafe,
     ResumeSafe, OutgoingSafe DEF RunTask, Runnable
<1>4. ASSUME NEW u \in Umi, Interrupt(u) PROVE SlotInv'
  BY <1>1, <1>2, <1>4, InterruptType, FireSafe, FireEarlySafe,
     PacketSafe DEF Interrupt
<1>5. ASSUME NEW u \in Umi, Client(u) PROVE SlotInv'
  BY <1>1, <1>2, <1>5, ClientType, LoadSafe, RunSafe, SignalHaltSafe, SignalYieldSafe
     DEF Client
<1>6. ASSUME NEW u \in Umi, Guest(u) PROVE SlotInv'
  BY <1>1, <1>2, <1>6, GuestType, GuestSafe DEF Guest, Protocol
<1>7. CASE UNCHANGED vars
  BY <1>7 DEF vars, slotVars, instVars, SlotInv, TypeOK, NoFault, QueueMatchesMap,
              SlotMatchesCpu, ProxyFollowsSlot, PhaseInv, TaskInv, StartInv, ResumeInv,
              EventInv
<1>. QED
  BY <1>3, <1>4, <1>5, <1>6, <1>7 DEF Next

LEMMA SlotInvInit ==
    ASSUME Init
    PROVE  SlotInv
<1>1. TypeOK
  BY SlotAssumption DEF Init, TypeOK, Status, Phase, Task, Fault
<1>2. QueueMatchesMap /\ SlotMatchesCpu /\ ProxyFollowsSlot /\ NoFault
  BY DEF Init, QueueMatchesMap, SlotMatchesCpu, ProxyFollowsSlot, NoFault,
         IsInjective, Range
<1>3. PhaseInv
  BY SlotAssumption DEF Init, PhaseInv, InService
<1>4. TaskInv(tasks)
  BY HasShort DEF Init, TaskInv, StartInv, ResumeInv, EventInv, InService
<1>. QED
  BY <1>1, <1>2, <1>3, <1>4 DEF SlotInv

\* SlotInv holds in every state, if clients keep to the protocol: the guests, the
\* network, the timers and the order of events are free.
THEOREM SlotInvariance ==
    ASSUME Protocol
    PROVE  Spec => []SlotInv
<1>1. Init => SlotInv
  BY SlotInvInit
<1>2. SlotInv /\ [Next]_vars => SlotInv'
  BY SlotInvStep
<1>. QED
  BY <1>1, <1>2, PTL DEF Spec

\* No assertion of the manager or the proxy fails (kassert, kabort in UmManager.cc).
THEOREM NoAssertionFails ==
    ASSUME Protocol
    PROVE  Spec => []NoFault
<1>1. SlotInv => NoFault
  BY DEF SlotInv
<1>. QED
  BY <1>1, SlotInvariance, PTL

\* The queue, the map and the slot hold every instance at most once.
THEOREM QueueAndMapAgree ==
    ASSUME Protocol
    PROVE  Spec => []QueueMatchesMap
<1>1. SlotInv => QueueMatchesMap
  BY DEF SlotInv
<1>. QED
  BY <1>1, SlotInvariance, PTL

\* A guest only executes in the slot that holds it, while the slot is active.
THEOREM SlotAndCpuAgree ==
    ASSUME Protocol
    PROVE  Spec => []SlotMatchesCpu
<1>1. SlotInv => SlotMatchesCpu
  BY DEF SlotInv
<1>. QED
  BY <1>1, SlotInvariance, PTL

\* The proxy never takes an instance for active that no longer exists.
THEOREM ProxyIsCurrent ==
    ASSUME Protocol
    PROVE  Spec => []ProxyFollowsSlot
<1>1. SlotInv => ProxyFollowsSlot
  BY DEF SlotInv
<1>. QED
  BY <1>1, SlotInvariance, PTL

\* The property's way of counting events is that of the invariant.
LEMMA PendingIsHas ==
    ASSUME NEW t
    PROVE  /\ PendingOnce(t) <=> Has(tasks, t) /\ AtMostOnce(tasks, t)
           /\ Pending(t) = {} <=> ~Has(tasks, t)
  BY DEF PendingOnce, Pending, Has, AtMostOnce

\* Of an instance in service that does not execute, either a Kick can wake it or its
\* activation is on the way, once (blocked_, ActivateContext in UmInstance.cc).
THEOREM WakeupsMatch ==
    ASSUME Protocol
    PROVE  Spec => []OneWakeupEach
<1>1. SlotInv => OneWakeupEach
  BY PendingIsHas DEF SlotInv, TaskInv, ResumeInv, OneWakeupEach, InService
<1>. QED
  BY <1>1, SlotInvariance, PTL

\* An instance that was accepted waits with its promise or is loaded with its Start on
\* the way: it is neither lost nor booted twice (Load, Yield and Start).
THEOREM BootsOnce ==
    ASSUME Protocol
    PROVE  Spec => []BootOnce
<1>1. SlotInv => BootOnce
  <2>. SUFFICES ASSUME SlotInv, NEW u \in Umi, phase[u] = "loaded"
                PROVE  \/ /\ u \in activation_promise_map \cap inactive_umi_map
                          /\ ~Has(tasks, StartTask(u))
                       \/ /\ u \notin activation_promise_map
                          /\ active_umi = u
                          /\ status = "loaded"
                          /\ Has(tasks, StartTask(u)) /\ AtMostOnce(tasks, StartTask(u))
    BY PendingIsHas DEF BootOnce
  <2>1. u # NoUmi /\ (u \in inactive_umi_map \/ active_umi = u)
    BY SlotAssumption DEF SlotInv, PhaseInv
  <2>. QED
    BY <2>1 DEF SlotInv, QueueMatchesMap, PhaseInv, TaskInv, StartInv
<1>. QED
  BY <1>1, SlotInvariance, PTL

-----------------------------------------------------------------------------
(* What a step may do to an instance, in terms of UmSlot                    *)

\* Instance u stays where it is, is submitted, swapped in, swapped out, or halted.
MoveOK(u) ==
    \/ /\ active_umi' = u <=> active_umi = u
       /\ u \in inactive_umi_map' <=> u \in inactive_umi_map
       /\ phase'[u] \in {"new", "done"} => phase'[u] = phase[u]
    \/ /\ phase[u] = "new"
       /\ active_umi' = u \/ u \in inactive_umi_map'
    \/ /\ u \in inactive_umi_map
       /\ active_umi' = u
       /\ is_active'[u]
    \/ /\ active_umi = u
       /\ u \in inactive_umi_map'
       /\ ~is_active[u]
       /\ cpu # u
    \/ /\ active_umi = u \/ u \in inactive_umi_map
       /\ phase'[u] = "done"
       /\ halts'[u] > 0

\* No guest is entered whose halt was requested.
CpuOK == cpu' = cpu \/ cpu' = NoUmi \/ (cpu = NoUmi /\ halts[cpu'] = 0)

StepOK ==
    /\ HaltInv'
    /\ \A u \in Umi : MoveOK(u)
    /\ CpuOK
    /\ \A u \in Umi : halts[u] > 0 => halts'[u] > 0

\* A step that leaves slot, map and halt requests alone.
LEMMA InPlace ==
    ASSUME SlotInv, HaltInv,
           UNCHANGED <<active_umi, inactive_umi_map, inactive_umi_halt_map, halts>>,
           \A u \in Umi : phase'[u] = phase[u] \/ (phase[u] = "loaded" /\ phase'[u] = "started"),
           status' = "halting" <=> status = "halting",
           status = "halting" => /\ Has(tasks', HaltTask)
                                 /\ AtMostOnce(tasks', HaltTask),
           CpuOK
    PROVE  StepOK
<1>1. \A u \in Umi : phase'[u] \in {"new", "done"} => phase'[u] = phase[u]
  OBVIOUS
<1>2. FlagInv'
  BY DEF HaltInv, FlagInv, InService
<1>3. HaltingInv'
  BY DEF HaltInv, HaltingInv
<1>. QED
  BY <1>1, <1>2, <1>3 DEF StepOK, HaltInv, MoveOK

\* A halting slot has one Halt pending, another has none.
LEMMA HaltPending ==
    ASSUME SlotInv, HaltInv
    PROVE  IF status = "halting" THEN Has(tasks, HaltTask) /\ AtMostOnce(tasks, HaltTask)
                                 ELSE ~Has(tasks, HaltTask)
  BY DEF SlotInv, TaskInv, EventInv, HaltInv, HaltingInv

\* Another event is appended or taken.
LEMMA HaltStaysPending ==
    ASSUME SlotInv, HaltInv, NEW t, t # HaltTask,
           \/ tasks' = Append(tasks, t)
           \/ \E i \in DOMAIN tasks : tasks[i] = t /\ tasks' = RemoveAt(tasks, i)
    PROVE  status = "halting" => /\ Has(tasks', HaltTask)
                                 /\ AtMostOnce(tasks', HaltTask)
<1>1. tasks \in Seq(Task)
  BY DEF SlotInv, TypeOK
<1>2. CASE tasks' = Append(tasks, t)
  BY <1>1, <1>2, HasAppend, HaltPending
<1>3. ASSUME NEW i \in DOMAIN tasks, tasks[i] = t, tasks' = RemoveAt(tasks, i)
      PROVE  status = "halting" => /\ Has(tasks', HaltTask)
                                   /\ AtMostOnce(tasks', HaltTask)
  BY <1>1, <1>3, HasRemove, HaltPending
<1>. QED
  BY <1>2, <1>3

-----------------------------------------------------------------------------
(* Halt and Yield *)

LEMMA HaltEffect ==
    ASSUME TypeOK, NEW u \in Umi, NEW q, NEW act \in [Umi -> BOOLEAN], NEW ts, NEW p,
           Halt(u, q, act, ts, p)
    PROVE  /\ is_active' = [act EXCEPT ![u] = TRUE]
           /\ \/ /\ ts # <<>>
                 /\ status' = "halting"
                 /\ active_umi' = u
                 /\ tasks' = Append(ts, HaltTask)
                 /\ phase' = phase
              \/ /\ ts = <<>>
                 /\ status' = "empty"
                 /\ active_umi' = NoUmi
                 /\ phase'[u] = "done"
                 /\ \A w \in Umi \ {u} : phase'[w] = phase[w]
<1>1. CASE ts # <<>>
  BY <1>1 DEF Halt
<1>2. CASE ts = <<>>
  BY <1>2 DEF Halt, ReturnFromSlot, TypeOK
<1>. QED
  BY <1>1, <1>2

\* Halt moves no other instance.
LEMMA HaltSpares ==
    ASSUME TypeOK, NEW u \in Umi, NEW q, NEW act \in [Umi -> BOOLEAN], NEW ts, NEW p,
           Halt(u, q, act, ts, p), NEW w \in Umi, w # u
    PROVE  phase'[w] = phase[w] /\ active_umi' # w
<1>1. w # NoUmi
  BY SlotAssumption
<1>2. CASE ts # <<>>
  BY <1>2 DEF Halt
<1>3. CASE ts = <<>>
  <2>1. phase' = [phase EXCEPT ![u] = "done"] /\ active_umi' = NoUmi
    BY <1>3 DEF Halt, ReturnFromSlot
  <2>2. DOMAIN phase = Umi
    BY DEF TypeOK
  <2>3. phase'[w] = phase[w]
    BY ONLY <2>1, <2>2, w # u
  <2>. QED
    BY ONLY <1>1, <2>1, <2>3
<1>. QED
  BY <1>2, <1>3

\* Halt carries out the request for u and forgets no other.
LEMMA HaltRemembers ==
    ASSUME TypeOK, NEW u \in Umi, NEW q, NEW act \in [Umi -> BOOLEAN],
           NEW ts \in Seq(Task), NEW p, Halt(u, q, act, ts, p),
           phase[u] \in InService, halts'[u] > 0, ~Has(ts, HaltTask),
           inactive_umi_halt_map' \subseteq inactive_umi_map',
           inactive_umi_map' \subseteq Umi,
           \A w \in inactive_umi_halt_map' : halts'[w] > 0,
           \A w \in Umi \ {u} : halts'[w] > 0 =>
               /\ phase[w] \in InService \cup {"done"}
               /\ phase[w] = "done" \/ w \in inactive_umi_halt_map'
    PROVE  HaltInv'
<1>1. CASE ts # <<>>
  <2>1. /\ status' = "halting"
        /\ active_umi' = u
        /\ tasks' = Append(ts, HaltTask)
        /\ phase' = phase
    BY <1>1, HaltEffect
  <2>2. ts \in Seq(Task) /\ AtMostOnce(ts, HaltTask)
    BY DEF AtMostOnce, Has
  <2>3. Has(tasks', HaltTask) /\ AtMostOnce(tasks', HaltTask)
    BY <2>1, <2>2, HasAppend
  <2>4. FlagInv'
    BY <2>1 DEF FlagInv
  <2>. QED
    BY <2>1, <2>3, <2>4 DEF HaltInv, HaltingInv
<1>2. CASE ts = <<>>
  <2>1. /\ status' = "empty"
        /\ phase'[u] = "done"
        /\ \A w \in Umi \ {u} : phase'[w] = phase[w]
    BY <1>2, HaltEffect
  <2>2. FlagInv'
    BY <2>1 DEF FlagInv
  <2>. QED
    BY <2>1, <2>2 DEF HaltInv, HaltingInv
<1>. QED
  BY <1>1, <1>2

\* The halt of the occupant, by a client, a guest or the spawned Halt.
LEMMA OccupantHaltOK ==
    ASSUME SlotInv, HaltInv, NEW u \in Umi, active_umi = u, phase[u] \in InService,
           NEW ts \in Seq(Task), ~Has(ts, HaltTask),
           Halt(u, idle_umi_queue, is_active, ts, umi_id),
           UNCHANGED <<inactive_umi_map, inactive_umi_halt_map>>,
           halts'[u] > 0, \A w \in Umi \ {u} : halts'[w] = halts[w],
           CpuOK
    PROVE  StepOK
<1>1. /\ TypeOK
      /\ is_active \in [Umi -> BOOLEAN]
      /\ inactive_umi_map \subseteq Umi
      /\ u \notin inactive_umi_map
      /\ u # NoUmi
  BY SlotAssumption DEF SlotInv, TypeOK, QueueMatchesMap
<1>2. HaltInv'
  <2>1. \A w \in inactive_umi_halt_map' : w \in Umi \ {u} /\ halts'[w] > 0
    BY <1>1 DEF HaltInv, FlagInv
  <2>2. \A w \in Umi \ {u} : halts'[w] > 0 =>
            /\ phase[w] \in InService \cup {"done"}
            /\ phase[w] = "done" \/ w \in inactive_umi_halt_map'
    BY DEF HaltInv, FlagInv
  <2>3. inactive_umi_halt_map' \subseteq inactive_umi_map' /\ inactive_umi_map' \subseteq Umi
    BY <1>1 DEF HaltInv, FlagInv
  <2>. QED
    BY <1>1, <2>1, <2>2, <2>3, HaltRemembers
<1>3. \A w \in Umi : MoveOK(w)
  <2>. TAKE w \in Umi
  <2>1. CASE w = u
    BY <1>1, <2>1, HaltEffect DEF MoveOK, InService
  <2>2. CASE w # u
    <3>1. phase'[w] = phase[w] /\ active_umi' # w
      BY <1>1, <2>2, HaltSpares
    <3>. QED
      BY <2>2, <3>1 DEF MoveOK
  <2>. QED
    BY <2>1, <2>2
<1>. QED
  BY <1>2, <1>3 DEF StepOK

\* Yield moves the occupant only if it is not active, loads an active instance, halts it
\* if it is flagged, and keeps all other flags.
LEMMA YieldOK ==
    ASSUME SlotInv, cpu = NoUmi,
           NEW q \in Seq(Umi), NEW hm \in SUBSET Umi, NEW act \in [Umi -> BOOLEAN],
           NEW ts \in Seq(Task), Range(q) = inactive_umi_map,
           active_umi # NoUmi => act[active_umi] = is_active[active_umi],
           hm \subseteq inactive_umi_map,
           \A w \in hm : halts'[w] > 0,
           \A w \in Umi : halts'[w] > 0 =>
               /\ phase[w] \in InService \cup {"done"}
               /\ \/ phase[w] = "done"
                  \/ active_umi = w /\ status = "halting"
                  \/ w \in hm,
           status = "halting" => /\ halts'[active_umi] > 0
                                 /\ Has(ts, HaltTask)
                                 /\ AtMostOnce(ts, HaltTask),
           status # "halting" => ~Has(ts, HaltTask),
           Yield(q, hm, act, ts)
    PROVE  HaltInv' /\ \A u \in Umi : MoveOK(u)
<1>1. /\ TypeOK
      /\ active_umi \notin inactive_umi_map
      /\ inactive_umi_map \subseteq Umi
      /\ active_umi \in Umi \cup {NoUmi}
      /\ NoUmi \notin Umi
      /\ status # "active"
      /\ status = "empty" <=> active_umi = NoUmi
      /\ \A u \in Umi : phase[u] \in {"new", "done"} <=> u \notin inactive_umi_map /\ active_umi # u
  BY SlotAssumption DEF SlotInv, TypeOK, QueueMatchesMap, SlotMatchesCpu, PhaseInv
<1>2. CASE YieldRefused(q, hm, act, ts)
  <2>1. /\ UNCHANGED <<status, active_umi, inactive_umi_map, phase>>
        /\ inactive_umi_halt_map' = hm
        /\ tasks' = ts
    BY <1>2 DEF YieldRefused
  <2>2. FlagInv'
    BY <2>1 DEF FlagInv
  <2>3. HaltingInv'
    BY <2>1 DEF HaltingInv
  <2>. QED
    BY <2>1, <2>2, <2>3 DEF HaltInv, MoveOK
<1>3. ASSUME MayYield(act)
      PROVE  /\ status \in {"idle", "empty"}
             /\ active_umi # NoUmi => ~is_active[active_umi]
             /\ ~Has(ts, HaltTask)
             /\ \A w \in Umi : halts'[w] > 0 =>
                    /\ phase[w] \in InService \cup {"done"}
                    /\ phase[w] = "done" \/ w \in hm
  BY <1>1, <1>3 DEF MayYield
<1>4. CASE YieldUnload(q, hm, act, ts)
  <2>1. /\ MayYield(act)
        /\ active_umi # NoUmi
        /\ status' = "empty"
        /\ active_umi' = NoUmi
        /\ inactive_umi_map' = inactive_umi_map \cup {active_umi}
        /\ inactive_umi_halt_map' = hm
        /\ phase' = phase
    BY <1>4 DEF YieldUnload
  <2>2. FlagInv'
    BY <1>3, <2>1 DEF FlagInv
  <2>3. HaltingInv'
    BY <2>1 DEF HaltingInv
  <2>4. \A u \in Umi : MoveOK(u)
    BY <1>1, <1>3, <2>1 DEF MoveOK
  <2>. QED
    BY <2>2, <2>3, <2>4 DEF HaltInv
<1>5. ASSUME MayYield(act), NEW k \in Eligible(q, act), YieldTo(q[k], q, hm, act, ts)
      PROVE  HaltInv' /\ \A u \in Umi : MoveOK(u)
  <2>1. PICK v \in Umi : v = q[k] /\ v \in inactive_umi_map /\ act[v]
    BY DEF Eligible, Range
  <2>2. YieldTo(v, q, hm, act, ts)
    BY <1>5, <2>1
  <2>3. \A w \in Umi : w \in inactive_umi_map'
            <=> (w \in inactive_umi_map /\ w # v) \/ w = active_umi
    BY <1>1, <2>1, <2>2 DEF YieldTo, MapAfterSwap
  <2>4. inactive_umi_map' \subseteq Umi
    BY <1>1, <2>2 DEF YieldTo, MapAfterSwap
  <2>5. v # active_umi /\ v # NoUmi /\ phase[v] \notin {"new", "done"}
    BY <1>1, <2>1
  \* Who was not v and not the occupant is where it was.
  <2>6. ASSUME active_umi' \in {v, NoUmi}, \A w \in Umi \ {v} : phase'[w] = phase[w]
        PROVE  \A w \in Umi \ {v} : MoveOK(w)
    BY <1>1, <1>3, <1>5, <2>3, <2>6 DEF MoveOK
  <2>7. CASE v \notin activation_promise_map /\ v \in hm
    <3>1. /\ inactive_umi_halt_map' = hm \ {v}
          /\ Halt(v, QueueAfterSwap(q, v), act, ts, v)
      BY <2>2, <2>7 DEF YieldTo
    <3>2. phase[v] \in InService /\ halts'[v] > 0
      BY <1>3, <1>5, <2>5, <2>7
    <3>3. HaltInv'
      <4>1. inactive_umi_halt_map' \subseteq inactive_umi_map'
        BY <2>3, <3>1
      <4>2. \A w \in inactive_umi_halt_map' : halts'[w] > 0
        BY <3>1
      <4>3. \A w \in Umi \ {v} : halts'[w] > 0 =>
                /\ phase[w] \in InService \cup {"done"}
                /\ phase[w] = "done" \/ w \in inactive_umi_halt_map'
        BY <1>3, <1>5, <3>1
      <4>. QED
        BY <1>1, <1>3, <1>5, <2>4, <3>1, <3>2, <4>1, <4>2, <4>3, HaltRemembers
    <3>4. MoveOK(v)
      BY <1>1, <2>1, <3>1, <3>2, HaltEffect DEF MoveOK
    <3>5. active_umi' \in {v, NoUmi} /\ \A w \in Umi \ {v} : phase'[w] = phase[w]
      BY <1>1, <3>1, HaltEffect
    <3>. QED
      BY <2>6, <3>3, <3>4, <3>5
  <2>8. CASE ~(v \notin activation_promise_map /\ v \in hm)
    <3>1. /\ status' \in {"loaded", "idle"}
          /\ active_umi' = v
          /\ inactive_umi_halt_map' = hm
          /\ is_active' = act
          /\ phase' = phase
      BY <2>2, <2>8 DEF YieldTo
    <3>2. v \notin hm
      <4>1. phase[v] = "loaded" => ~(halts'[v] > 0)
        BY <1>3, <1>5 DEF InService
      <4>. QED
        BY <2>8, <4>1 DEF SlotInv, PhaseInv
    <3>3. FlagInv'
      BY <1>3, <1>5, <2>3, <3>1, <3>2 DEF FlagInv
    <3>4. HaltingInv'
      BY <3>1 DEF HaltingInv
    <3>5. MoveOK(v)
      BY <2>1, <3>1 DEF MoveOK
    <3>. QED
      BY <2>6, <3>1, <3>3, <3>4, <3>5 DEF HaltInv
  <2>. QED
    BY <2>7, <2>8
<1>. QED
  BY <1>2, <1>4, <1>5 DEF Yield

-----------------------------------------------------------------------------
(* The steps *)

LEMMA RunStartOK ==
    ASSUME SlotInv, HaltInv, cpu = NoUmi, NEW i \in DOMAIN tasks, RunStart(i)
    PROVE  StepOK
<1>. DEFINE u == tasks[i].umi
<1>1. u \in Umi /\ tasks[i] = StartTask(u) /\ Has(tasks, StartTask(u))
  BY TakenEvent, TaskShape DEF RunStart
<1>2. active_umi = u /\ status = "loaded" /\ phase[u] = "loaded" /\ u # NoUmi
  BY <1>1, SlotAssumption DEF SlotInv, TaskInv, StartInv, PhaseInv
<1>3. /\ status' = "active"
      /\ cpu' = u
      /\ phase' = [phase EXCEPT ![u] = "started"]
      /\ tasks' = RemoveAt(tasks, i)
      /\ UNCHANGED <<active_umi, inactive_umi_map, inactive_umi_halt_map, halts>>
  BY <1>2 DEF RunStart
<1>. HIDE DEF u
<1>4. \A w \in Umi : phase'[w] = phase[w] \/ (phase[w] = "loaded" /\ phase'[w] = "started")
  BY <1>1, <1>2, <1>3 DEF SlotInv, TypeOK
<1>5. CpuOK
  <2>1. ~(halts[u] > 0) /\ halts[u] \in Nat
    BY <1>1, <1>2 DEF SlotInv, TypeOK, HaltInv, FlagInv, InService
  <2>. QED
    BY <1>3, <2>1 DEF CpuOK
<1>. QED
  BY <1>2, <1>3, <1>4, <1>5, InPlace

LEMMA RunHaltOK ==
    ASSUME SlotInv, HaltInv, cpu = NoUmi, NEW i \in DOMAIN tasks, RunHalt(i)
    PROVE  StepOK
<1>. DEFINE ts == RemoveAt(tasks, i)
<1>1. tasks[i] = HaltTask /\ Has(tasks, HaltTask) /\ ts \in Seq(Task)
  BY TakenEvent, TaskShape DEF RunHalt
<1>2. status = "halting"
  BY <1>1, HaltPending
<1>3. ~Has(ts, HaltTask)
  BY <1>1, <1>2, TakenEvent, HaltPending
<1>. HIDE DEF ts
<1>4. active_umi \in Umi /\ phase[active_umi] \in InService
  BY <1>2, OccupantInService DEF SlotInv, SlotMatchesCpu
<1>5. /\ Halt(active_umi, idle_umi_queue, is_active, ts, umi_id)
      /\ UNCHANGED <<inactive_umi_map, inactive_umi_halt_map, cpu, halts>>
  BY <1>2 DEF RunHalt, ts
<1>6. halts'[active_umi] > 0
  BY <1>2, <1>5 DEF HaltInv, HaltingInv
<1>7. CpuOK
  BY <1>5 DEF CpuOK
<1>. QED
  BY <1>1, <1>3, <1>4, <1>5, <1>6, <1>7, OccupantHaltOK

LEMMA RunYieldOK ==
    ASSUME SlotInv, HaltInv, cpu = NoUmi, NEW i \in DOMAIN tasks, RunYield(i)
    PROVE  StepOK
<1>. DEFINE ts == RemoveAt(tasks, i)
<1>1. /\ tasks[i] = YieldTask
      /\ Has(tasks, YieldTask)
      /\ ts \in Seq(Task)
      /\ Has(ts, HaltTask) <=> Has(tasks, HaltTask)
      /\ AtMostOnce(tasks, HaltTask) => AtMostOnce(ts, HaltTask)
  BY TakenEvent, TaskShape, TasksDiffer DEF RunYield
<1>. HIDE DEF ts
<1>2. /\ idle_umi_queue \in Seq(Umi)
      /\ Range(idle_umi_queue) = inactive_umi_map
      /\ inactive_umi_halt_map \in SUBSET Umi
      /\ is_active \in [Umi -> BOOLEAN]
  BY DEF SlotInv, TypeOK, QueueMatchesMap
<1>3. YieldFault(idle_umi_queue, is_active) = "none"
  BY <1>1, <1>2, YieldHasWork DEF SlotInv, SlotMatchesCpu, TaskInv, EventInv
<1>4. /\ Yield(idle_umi_queue, inactive_umi_halt_map, is_active, ts)
      /\ UNCHANGED <<cpu, halts>>
  BY <1>3 DEF RunYield, ts
<1>5. HaltInv' /\ \A u \in Umi : MoveOK(u)
  <2>1. /\ inactive_umi_halt_map \subseteq inactive_umi_map
        /\ \A w \in inactive_umi_halt_map : halts'[w] > 0
        /\ \A w \in Umi : halts'[w] > 0 =>
               /\ phase[w] \in InService \cup {"done"}
               /\ \/ phase[w] = "done"
                  \/ active_umi = w /\ status = "halting"
                  \/ w \in inactive_umi_halt_map
    BY <1>4 DEF HaltInv, FlagInv
  <2>2. /\ status = "halting" => /\ halts'[active_umi] > 0
                                 /\ Has(ts, HaltTask)
                                 /\ AtMostOnce(ts, HaltTask)
        /\ status # "halting" => ~Has(ts, HaltTask)
    BY <1>1, <1>4, HaltPending DEF HaltInv, HaltingInv
  <2>. QED
    BY <1>1, <1>2, <1>4, <2>1, <2>2, YieldOK
<1>. QED
  BY <1>4, <1>5 DEF StepOK, CpuOK

LEMMA RunResumeOK ==
    ASSUME SlotInv, HaltInv, cpu = NoUmi, NEW i \in DOMAIN tasks, RunResume(i)
    PROVE  StepOK
<1>. DEFINE u == tasks[i].umi
<1>1. u \in Umi /\ tasks[i] = ResumeTask(u) /\ Has(tasks, ResumeTask(u))
  BY TakenEvent, TaskShape DEF RunResume
<1>2. /\ tasks' = RemoveAt(tasks, i)
      /\ UNCHANGED <<active_umi, inactive_umi_map, inactive_umi_halt_map, halts, phase>>
  BY DEF RunResume
<1>3. status = "halting" => /\ Has(tasks', HaltTask)
                            /\ AtMostOnce(tasks', HaltTask)
  BY <1>1, <1>2, HaltStaysPending, TasksDiffer
<1>. HIDE DEF u
<1>4. CASE request_slot_entry(u)
  <2>1. /\ active_umi = u
        /\ status # "halting"
        /\ status' = "active"
        /\ cpu' = u
    BY <1>4 DEF RunResume, request_slot_entry, u
  <2>2. phase[u] \in InService /\ u \notin inactive_umi_map
    BY <1>1, <2>1 DEF SlotInv, TaskInv, ResumeInv, QueueMatchesMap
  <2>3. ~(halts[u] > 0) /\ halts[u] \in Nat
    BY <1>1, <2>1, <2>2 DEF SlotInv, TypeOK, HaltInv, FlagInv, InService
  <2>4. CpuOK
    BY <2>1, <2>3 DEF CpuOK
  <2>. QED
    BY <1>2, <1>3, <2>1, <2>4, InPlace
<1>5. CASE ~request_slot_entry(u)
  <2>1. status' = status /\ cpu' = cpu
    BY <1>5 DEF RunResume, u
  <2>2. CpuOK
    BY <2>1 DEF CpuOK
  <2>. QED
    BY <1>2, <1>3, <2>1, <2>2, InPlace
<1>. QED
  BY <1>4, <1>5

LEMMA RunOutgoingOK ==
    ASSUME SlotInv, HaltInv, cpu = NoUmi, NEW i \in DOMAIN tasks, RunOutgoing(i)
    PROVE  StepOK
<1>1. /\ tasks[i] = OutgoingTask(tasks[i].umi)
      /\ Has(tasks, OutgoingTask(tasks[i].umi))
      /\ tasks[i].umi \in Umi
  BY TakenEvent, TaskShape DEF RunOutgoing
<1>2. GetInstance(umi_id)
  BY <1>1 DEF GetInstance, SlotInv, TaskInv, EventInv, ProxyFollowsSlot
<1>3. /\ tasks' = RemoveAt(tasks, i)
      /\ UNCHANGED <<slotVars, cpu, phase, halts>>
  BY <1>2 DEF RunOutgoing
<1>4. status = "halting" => /\ Has(tasks', HaltTask)
                            /\ AtMostOnce(tasks', HaltTask)
  BY <1>1, <1>3, HaltStaysPending, TasksDiffer
<1>. QED
  BY <1>3, <1>4, InPlace DEF slotVars, CpuOK

LEMMA FireOK ==
    ASSUME SlotInv, HaltInv, NEW u \in Umi, Fire(u) \/ FireEarly(u)
    PROVE  StepOK
<1>1. /\ tasks' = Append(tasks, ResumeTask(u)) \/ tasks' = tasks
      /\ UNCHANGED <<slotVars, cpu, phase, halts>>
  BY DEF Fire, FireEarly
<1>2. status = "halting" => /\ Has(tasks', HaltTask)
                            /\ AtMostOnce(tasks', HaltTask)
  BY <1>1, HaltStaysPending, HaltPending, TasksDiffer
<1>. QED
  BY <1>1, <1>2, InPlace DEF slotVars, CpuOK

LEMMA PacketOK ==
    ASSUME SlotInv, HaltInv, cpu = NoUmi, NEW u \in Umi, NEW payload \in BOOLEAN,
           PacketIn(u, payload)
    PROVE  StepOK
<1>. DEFINE act == IF payload THEN [is_active EXCEPT ![u] = TRUE] ELSE is_active
            q   == slot_queue_move_to_front(idle_umi_queue, u)
<1>1. CASE active_umi = u
  <2>1. /\ tasks' = Append(tasks, ResumeTask(u)) \/ tasks' = tasks
        /\ UNCHANGED <<slotVars, cpu, phase, halts>>
    BY <1>1 DEF PacketIn, Kick
  <2>2. status = "halting" => /\ Has(tasks', HaltTask)
                              /\ AtMostOnce(tasks', HaltTask)
    BY <2>1, HaltStaysPending, HaltPending, TasksDiffer
  <2>. QED
    BY <2>1, <2>2, InPlace DEF slotVars, CpuOK
<1>2. CASE active_umi # u
  <2>1. /\ act \in [Umi -> BOOLEAN]
        /\ tasks \in Seq(Task)
        /\ inactive_umi_halt_map \in SUBSET Umi
        /\ active_umi \in Umi \cup {NoUmi}
    BY DEF SlotInv, TypeOK
  <2>2. active_umi # NoUmi => act[active_umi] = is_active[active_umi]
    BY <1>2, <2>1 DEF SlotInv, TypeOK
  <2>3. q \in Seq(Umi) /\ Range(q) = inactive_umi_map
    BY QueueType, QueueToFront DEF SlotInv, TypeOK, QueueMatchesMap
  <2>4. GetInstance(u)
    BY DEF PacketIn
  <2>. HIDE DEF act, q
  <2>5. YieldFault(q, act) = "none"
    BY <1>2, <2>3, <2>4, YieldHasWork DEF GetInstance
  <2>6. Yield(q, inactive_umi_halt_map, act, tasks) /\ UNCHANGED <<cpu, halts>>
    BY <1>2, <2>5 DEF PacketIn, act, q
  <2>7. HaltInv' /\ \A w \in Umi : MoveOK(w)
    <3>1. /\ inactive_umi_halt_map \subseteq inactive_umi_map
          /\ \A w \in inactive_umi_halt_map : halts'[w] > 0
          /\ \A w \in Umi : halts'[w] > 0 =>
                 /\ phase[w] \in InService \cup {"done"}
                 /\ \/ phase[w] = "done"
                    \/ active_umi = w /\ status = "halting"
                    \/ w \in inactive_umi_halt_map
      BY <2>6 DEF HaltInv, FlagInv
    <3>2. /\ status = "halting" => /\ halts'[active_umi] > 0
                                   /\ Has(tasks, HaltTask)
                                   /\ AtMostOnce(tasks, HaltTask)
          /\ status # "halting" => ~Has(tasks, HaltTask)
      BY <2>6, HaltPending DEF HaltInv, HaltingInv
    <3>. QED
      BY <2>1, <2>2, <2>3, <2>6, <3>1, <3>2, YieldOK
  <2>. QED
    BY <2>6, <2>7 DEF StepOK, CpuOK
<1>. QED
  BY <1>1, <1>2

LEMMA LoadOK ==
    ASSUME SlotInv, HaltInv, cpu = NoUmi, NEW u \in Umi, Load(u)
    PROVE  StepOK
<1>1. /\ phase[u] = "new"
      /\ phase'[u] = "loaded"
      /\ \A w \in Umi \ {u} : phase'[w] = phase[w]
      /\ UNCHANGED <<inactive_umi_halt_map, cpu, halts>>
  BY DEF Load, SlotInv, TypeOK
<1>2. /\ u \notin inactive_umi_map
      /\ active_umi # u
      /\ active_umi \notin inactive_umi_map
      /\ active_umi \in Umi \cup {NoUmi}
      /\ status = "empty" <=> active_umi = NoUmi
  BY <1>1 DEF SlotInv, TypeOK, QueueMatchesMap, SlotMatchesCpu, PhaseInv
<1>3. ~(halts[u] > 0)
  BY <1>1 DEF HaltInv, FlagInv, InService
<1>4. CASE status = "empty" \/ (status = "idle" /\ ~is_active[active_umi])
  <2>1. /\ status' = "loaded"
        /\ active_umi' = u
        /\ inactive_umi_map' = IF active_umi = NoUmi THEN inactive_umi_map
                               ELSE inactive_umi_map \cup {active_umi}
    BY <1>4 DEF Load
  <2>2. FlagInv'
    BY <1>1, <1>3, <1>4, <2>1 DEF HaltInv, FlagInv
  <2>3. HaltingInv'
    BY <2>1 DEF HaltingInv
  <2>4. active_umi # NoUmi => ~is_active[active_umi]
    BY <1>2, <1>4
  <2>5. \A w \in Umi : MoveOK(w)
    BY <1>1, <1>2, <2>1, <2>4, SlotAssumption DEF MoveOK
  <2>. QED
    BY <1>1, <2>2, <2>3, <2>5 DEF StepOK, HaltInv, CpuOK
<1>5. CASE ~(status = "empty" \/ (status = "idle" /\ ~is_active[active_umi]))
  <2>1. /\ inactive_umi_map' = inactive_umi_map \cup {u}
        /\ UNCHANGED <<status, active_umi, tasks>>
    BY <1>5 DEF Load
  <2>2. FlagInv'
    BY <1>1, <1>3, <2>1 DEF HaltInv, FlagInv
  <2>3. HaltingInv'
    BY <1>1, <2>1 DEF HaltInv, HaltingInv
  <2>4. \A w \in Umi : MoveOK(w)
    BY <1>1, <1>2, <2>1 DEF MoveOK
  <2>. QED
    BY <1>1, <2>2, <2>3, <2>4 DEF StepOK, HaltInv, CpuOK
<1>. QED
  BY <1>4, <1>5

LEMMA RunOK ==
    ASSUME Protocol, SlotInv, HaltInv, cpu = NoUmi, NEW u \in Umi, Run(u)
    PROVE  StepOK
<1>1. status = "empty" /\ active_umi = NoUmi
  BY DEF Protocol, Run, SlotInv, SlotMatchesCpu
<1>2. /\ phase[u] = "new"
      /\ phase'[u] = "ran"
      /\ \A w \in Umi \ {u} : phase'[w] = phase[w]
      /\ status' = "active"
      /\ active_umi' = u
      /\ cpu' = u
      /\ UNCHANGED <<inactive_umi_map, inactive_umi_halt_map, halts>>
  BY <1>1 DEF Run, SlotInv, TypeOK
<1>3. ~(halts[u] > 0) /\ halts[u] \in Nat
  BY <1>2 DEF SlotInv, TypeOK, HaltInv, FlagInv, InService
<1>4. HaltInv'
  BY <1>1, <1>2, <1>3 DEF HaltInv, FlagInv, HaltingInv
<1>5. \A w \in Umi : MoveOK(w)
  BY <1>1, <1>2, SlotAssumption DEF MoveOK
<1>6. CpuOK
  BY <1>2, <1>3 DEF CpuOK
<1>. QED
  BY <1>2, <1>4, <1>5, <1>6 DEF StepOK

\* Whoever may request a halt has started, and nobody did before.
LEMMA FirstRequest ==
    ASSUME OneHalt, SlotInv, HaltInv, NEW u \in Umi, MayRequestHalt(u),
           halts' = [halts EXCEPT ![u] = @ + 1]
    PROVE  /\ phase[u] \in InService
           /\ ~(halts[u] > 0)
           /\ halts'[u] > 0
           /\ \A w \in Umi \ {u} : halts'[w] = halts[w]
           /\ active_umi = u => status # "halting"
<1>1. phase[u] \in InService /\ halts[u] < 1 /\ halts[u] \in Nat
  BY DEF OneHalt, Protocol, MayRequestHalt, InService, SlotInv, TypeOK
<1>2. halts'[u] = halts[u] + 1 /\ \A w \in Umi \ {u} : halts'[w] = halts[w]
  BY DEF SlotInv, TypeOK
<1>. QED
  BY <1>1, <1>2 DEF HaltInv, HaltingInv

LEMMA SignalHaltOK ==
    ASSUME OneHalt, SlotInv, HaltInv, cpu = NoUmi, NEW u \in Umi, SignalHalt(u)
    PROVE  StepOK
<1>1. active_umi # NoUmi
  BY DEF OneHalt, Protocol, SignalHalt
<1>2. MayRequestHalt(u) /\ halts' = [halts EXCEPT ![u] = @ + 1] /\ cpu' = cpu
  BY <1>1 DEF SignalHalt
<1>3. /\ phase[u] \in InService
      /\ ~(halts[u] > 0)
      /\ halts'[u] > 0
      /\ \A w \in Umi \ {u} : halts'[w] = halts[w]
      /\ active_umi = u => status # "halting"
  BY <1>2, FirstRequest
<1>4. CpuOK
  BY <1>2 DEF CpuOK
<1>5. CASE u = active_umi
  <2>1. /\ Halt(u, idle_umi_queue, is_active, tasks, umi_id)
        /\ UNCHANGED <<inactive_umi_map, inactive_umi_halt_map>>
    BY <1>1, <1>5 DEF SignalHalt
  <2>2. tasks \in Seq(Task) /\ ~Has(tasks, HaltTask)
    BY <1>3, <1>5, HaltPending DEF SlotInv, TypeOK
  <2>. QED
    BY <1>3, <1>4, <1>5, <2>1, <2>2, OccupantHaltOK
<1>6. CASE u # active_umi
  <2>. DEFINE q  == slot_queue_move_to_front(idle_umi_queue, u)
              hm == inactive_umi_halt_map \cup {u}
  <2>1. /\ tasks \in Seq(Task)
        /\ is_active \in [Umi -> BOOLEAN]
        /\ hm \in SUBSET Umi
        /\ active_umi \in Umi
    BY <1>1 DEF SlotInv, TypeOK
  <2>2. q \in Seq(Umi) /\ Range(q) = inactive_umi_map
    BY QueueType, QueueToFront DEF SlotInv, TypeOK, QueueMatchesMap
  <2>. HIDE DEF q
  <2>3. Yield(q, hm, is_active, tasks)
    BY <1>1, <1>6 DEF SignalHalt, q
  <2>4. HaltInv' /\ \A w \in Umi : MoveOK(w)
    <3>1. u \in inactive_umi_map
      BY <1>3, <1>6 DEF SlotInv, PhaseInv, InService
    <3>2. /\ hm \subseteq inactive_umi_map
          /\ \A w \in hm : halts'[w] > 0
          /\ \A w \in Umi : halts'[w] > 0 =>
                 /\ phase[w] \in InService \cup {"done"}
                 /\ \/ phase[w] = "done"
                    \/ active_umi = w /\ status = "halting"
                    \/ w \in hm
      BY <1>3, <2>1, <3>1 DEF HaltInv, FlagInv
    <3>3. /\ status = "halting" => /\ halts'[active_umi] > 0
                                   /\ Has(tasks, HaltTask)
                                   /\ AtMostOnce(tasks, HaltTask)
          /\ status # "halting" => ~Has(tasks, HaltTask)
      BY <1>3, <1>6, <2>1, HaltPending DEF HaltInv, HaltingInv
    <3>. HIDE DEF hm
    <3>. QED
      BY <2>1, <2>2, <2>3, <3>2, <3>3, YieldOK
  <2>. QED
    BY <1>3, <1>4, <2>4 DEF StepOK
<1>. QED
  BY <1>5, <1>6

LEMMA SignalYieldOK ==
    ASSUME SlotInv, HaltInv, NEW u \in Umi, SignalYield(u)
    PROVE  StepOK
<1>1. /\ tasks' = Append(tasks, YieldTask)
      /\ UNCHANGED <<slotVars, cpu, phase, halts>>
  BY DEF SignalYield
<1>2. status = "halting" => /\ Has(tasks', HaltTask)
                            /\ AtMostOnce(tasks', HaltTask)
  BY <1>1, HaltStaysPending, TasksDiffer
<1>. QED
  BY <1>1, <1>2, InPlace DEF slotVars, CpuOK

LEMMA GuestOK ==
    ASSUME OneHalt, SlotInv, HaltInv, NEW u \in Umi, cpu = u, status # "halting",
           GuestPoll(u) \/ GuestRead(u) \/ GuestWrite(u) \/ GuestHalt(u)
    PROVE  StepOK
<1>1. active_umi = u /\ status = "active"
  BY SlotAssumption DEF SlotInv, SlotMatchesCpu
<1>2. CASE GuestPoll(u)
  <2>1. /\ status' = "idle"
        /\ cpu' = NoUmi
        /\ UNCHANGED <<active_umi, inactive_umi_map, inactive_umi_halt_map, tasks,
                       phase, halts>>
    BY <1>1, <1>2 DEF GuestPoll
  <2>. QED
    BY <1>1, <2>1, InPlace DEF CpuOK
<1>3. CASE GuestRead(u)
  <2>1. UNCHANGED <<slotVars, tasks, cpu, phase, halts>>
    BY <1>3 DEF GuestRead
  <2>. QED
    BY <2>1, HaltPending, InPlace DEF slotVars, CpuOK
<1>4. CASE GuestWrite(u)
  <2>1. /\ tasks' = Append(tasks, OutgoingTask(u))
        /\ UNCHANGED <<slotVars, cpu, phase, halts>>
    BY <1>4 DEF GuestWrite
  <2>2. status = "halting" => /\ Has(tasks', HaltTask)
                              /\ AtMostOnce(tasks', HaltTask)
    BY <2>1, HaltStaysPending, TasksDiffer
  <2>. QED
    BY <2>1, <2>2, InPlace DEF slotVars, CpuOK
<1>5. CASE GuestHalt(u)
  <2>1. /\ MayRequestHalt(u)
        /\ halts' = [halts EXCEPT ![u] = @ + 1]
        /\ Halt(u, idle_umi_queue, is_active, tasks, umi_id)
        /\ cpu' = IF tasks = <<>> THEN NoUmi ELSE cpu
        /\ UNCHANGED <<inactive_umi_map, inactive_umi_halt_map>>
    BY <1>5 DEF GuestHalt
  <2>2. /\ phase[u] \in InService
        /\ halts'[u] > 0
        /\ \A w \in Umi \ {u} : halts'[w] = halts[w]
    BY <2>1, FirstRequest
  <2>3. tasks \in Seq(Task) /\ ~Has(tasks, HaltTask)
    BY <1>1, HaltPending DEF SlotInv, TypeOK
  <2>4. CpuOK
    BY <2>1 DEF CpuOK
  <2>. QED
    BY <1>1, <2>1, <2>2, <2>3, <2>4, OccupantHaltOK
<1>. QED
  BY <1>2, <1>3, <1>4, <1>5

LEMMA EveryStepOK ==
    ASSUME OneHalt, SlotInv, HaltInv, Next
    PROVE  StepOK
<1>1. CASE RunTask
  BY <1>1, RunStartOK, RunHaltOK, RunYieldOK, RunResumeOK, RunOutgoingOK
     DEF RunTask, Runnable
<1>2. ASSUME NEW u \in Umi, Interrupt(u) PROVE StepOK
  BY <1>2, FireOK, PacketOK DEF Interrupt
<1>3. ASSUME NEW u \in Umi, Client(u) PROVE StepOK
  BY <1>3, LoadOK, RunOK, SignalHaltOK, SignalYieldOK DEF Client, OneHalt
<1>4. ASSUME NEW u \in Umi, Guest(u) PROVE StepOK
  BY <1>4, GuestOK DEF Guest, OneHalt, Protocol
<1>. QED
  BY <1>1, <1>2, <1>3, <1>4 DEF Next

-----------------------------------------------------------------------------
(* Halt requests are remembered *)

\* Between a halt request and the halt, SignalHalt, Halt and Yield keep the request: in
\* the halt map, or as the one Halt on its way when the slot is halting.
THEOREM HaltInvariance ==
    ASSUME OneHalt
    PROVE  Spec => [](SlotInv /\ HaltInv)
<1>1. Init => HaltInv
  BY DEF Init, HaltInv, FlagInv, HaltingInv
<1>2. SlotInv /\ HaltInv /\ [Next]_vars => HaltInv'
  <2>. SUFFICES ASSUME SlotInv, HaltInv, [Next]_vars PROVE HaltInv'
    OBVIOUS
  <2>1. CASE UNCHANGED vars
    BY <2>1 DEF vars, slotVars, HaltInv, FlagInv, HaltingInv
  <2>. QED
    BY <2>1, EveryStepOK DEF StepOK
<1>3. Spec => []SlotInv
  BY SlotInvariance DEF OneHalt
<1>. QED
  BY <1>1, <1>2, <1>3, PTL DEF Spec

\* A halt request is carried out or stays flagged until the instance is loaded, and a
\* halting slot has one Halt on the way (SignalHalt, Halt and Yield in UmManager.cc).
THEOREM HaltsAreRemembered ==
    ASSUME OneHalt
    PROVE  Spec => []HaltRemembered
<1>1. SlotInv /\ HaltInv => HaltRemembered
  BY HaltPending, PendingIsHas DEF HaltInv, FlagInv, HaltRemembered
<1>. QED
  BY <1>1, HaltInvariance, PTL

-----------------------------------------------------------------------------
(* The refinement *)

\* Where an instance is, read off the state.
PlacesAre ==
    \A u \in Umi :
        /\ Whereabouts(u) \in Promise!Place
        /\ Whereabouts(u) = "slot" <=> active_umi = u
        /\ Whereabouts(u) = "waiting" <=> u \in inactive_umi_map
        /\ Whereabouts(u) = "new" <=> phase[u] = "new"
        /\ Whereabouts(u) = "done" <=> phase[u] = "done"

LEMMA Places == SlotInv => PlacesAre
<1>. SUFFICES ASSUME SlotInv PROVE PlacesAre
  OBVIOUS
<1>1. active_umi \notin inactive_umi_map
  BY DEF SlotInv, QueueMatchesMap
<1>2. \A u \in Umi : phase[u] \in {"new", "done"} <=> u \notin inactive_umi_map /\ active_umi # u
  BY DEF SlotInv, PhaseInv
<1>. QED
  BY <1>1, <1>2 DEF PlacesAre, Whereabouts, Promise!Place

LEMMA PlacesNext == SlotInv' => PlacesAre'
  BY Places, PTL

LEMMA InitPromises == Init => Promise!Init
<1>. SUFFICES ASSUME Init PROVE Promise!Init
  OBVIOUS
<1>1. \A u \in Umi : Whereabouts(u) = "new"
  BY SlotAssumption DEF Init, Whereabouts
<1>2. {u \in Umi : is_active[u]} = Umi /\ {u \in Umi : halts[u] > 0} = {}
  BY DEF Init
<1>. QED
  BY <1>1, <1>2 DEF Init, Promise!Init

LEMMA MovePromised ==
    ASSUME SlotInv, SlotInv', NEW u \in Umi, MoveOK(u)
    PROVE  Promise!Moves(u)
<1>. DEFINE old == Whereabouts(u)
            new == Whereabouts(u)'
<1>1. /\ old \in Promise!Place
      /\ old = "slot" <=> active_umi = u
      /\ old = "waiting" <=> u \in inactive_umi_map
      /\ old = "new" <=> phase[u] = "new"
      /\ old = "done" <=> phase[u] = "done"
  BY Places DEF PlacesAre
<1>2. /\ new \in Promise!Place
      /\ new = "slot" <=> active_umi' = u
      /\ new = "waiting" <=> u \in inactive_umi_map'
      /\ new = "new" <=> phase'[u] = "new"
      /\ new = "done" <=> phase'[u] = "done"
  BY PlacesNext DEF PlacesAre
<1>3. /\ [w \in Umi |-> Whereabouts(w)][u] = old
      /\ [w \in Umi |-> Whereabouts(w)]'[u] = new
  OBVIOUS
<1>. HIDE DEF old, new
<1>4. CASE /\ active_umi' = u <=> active_umi = u
           /\ u \in inactive_umi_map' <=> u \in inactive_umi_map
           /\ phase'[u] \in {"new", "done"} => phase'[u] = phase[u]
  <2>1. new = old
    BY <1>1, <1>2, <1>4 DEF Promise!Place
  <2>. QED
    BY <1>3, <2>1 DEF Promise!Moves
<1>5. CASE phase[u] = "new" /\ (active_umi' = u \/ u \in inactive_umi_map')
  BY <1>1, <1>2, <1>3, <1>5 DEF Promise!Moves, Promise!Submitted
<1>6. CASE u \in inactive_umi_map /\ active_umi' = u /\ is_active'[u]
  BY <1>1, <1>2, <1>3, <1>6 DEF Promise!Moves, Promise!SwappedIn
<1>7. CASE active_umi = u /\ u \in inactive_umi_map' /\ ~is_active[u] /\ cpu # u
  BY <1>1, <1>2, <1>3, <1>7 DEF Promise!Moves, Promise!SwappedOut
<1>8. CASE /\ active_umi = u \/ u \in inactive_umi_map
           /\ phase'[u] = "done"
           /\ halts'[u] > 0
  BY <1>1, <1>2, <1>3, <1>8 DEF Promise!Moves, Promise!Halted
<1>. QED
  BY <1>4, <1>5, <1>6, <1>7, <1>8 DEF MoveOK

LEMMA ExecutionPromised ==
    ASSUME SlotInv, SlotInv', CpuOK
    PROVE  Promise!Executes
<1>1. /\ cpu \in Umi \cup {NoUmi}
      /\ cpu' \in Umi \cup {NoUmi}
      /\ cpu' # NoUmi => cpu' = active_umi'
  BY DEF SlotInv, TypeOK, SlotMatchesCpu
<1>2. cpu' # NoUmi => [w \in Umi |-> Whereabouts(w)]'[cpu'] = "slot"
  BY <1>1, PlacesNext DEF PlacesAre
<1>3. halts[cpu'] = 0 => cpu' \notin {w \in Umi : halts[w] > 0}
  OBVIOUS
<1>. QED
  BY <1>1, <1>2, <1>3 DEF CpuOK, Promise!Executes, Promise!Enters

LEMMA StepPromised ==
    ASSUME OneHalt, SlotInv, HaltInv, [Next]_vars
    PROVE  [Promise!Next]_(Promise!vars)
<1>1. CASE Next
  <2>1. SlotInv'
    BY SlotInvStep DEF OneHalt
  <2>2. StepOK
    BY <1>1, EveryStepOK
  <2>3. \A u \in Umi : Promise!Moves(u)
    BY <2>1, <2>2, MovePromised DEF StepOK
  <2>4. Promise!Executes
    BY <2>1, <2>2, ExecutionPromised DEF StepOK
  <2>5. \A u \in Umi : /\ Whereabouts(u)' \in Promise!Place
                       /\ Whereabouts(u)' = "slot" <=> active_umi' = u
    BY <2>1, PlacesNext DEF PlacesAre
  <2>6. {u \in Umi : halts[u] > 0} \subseteq {u \in Umi : halts[u] > 0}'
    BY <2>2 DEF StepOK
  <2>7. [u \in Umi |-> Whereabouts(u)]' \in [Umi -> Promise!Place]
    BY <2>5
  <2>. QED
    BY <2>3, <2>4, <2>5, <2>6, <2>7 DEF Promise!Next
<1>2. CASE UNCHANGED vars
  <2>1. [u \in Umi |-> Whereabouts(u)]' = [u \in Umi |-> Whereabouts(u)]
    BY <1>2 DEF vars, slotVars, Whereabouts
  <2>2. /\ {u \in Umi : is_active[u]}' = {u \in Umi : is_active[u]}
        /\ {u \in Umi : halts[u] > 0}' = {u \in Umi : halts[u] > 0}
        /\ cpu' = cpu
    BY <1>2 DEF vars, instVars
  <2>. QED
    BY <2>1, <2>2 DEF Promise!vars
<1>. QED
  BY <1>1, <1>2

\* The slot implements SlotAbs: however events, timers, packets, yields and halts
\* interleave, no instance gets lost, no working instance is preempted, a guest runs only in
\* the slot and never after its halt was requested, and none goes before.
THEOREM SlotKeepsPromise ==
    ASSUME OneHalt
    PROVE  Spec => SlotPromise
<1>1. Init => Promise!Init
  BY InitPromises
<1>2. SlotInv /\ HaltInv /\ [Next]_vars => [Promise!Next]_(Promise!vars)
  BY StepPromised
<1>. QED
  BY <1>1, <1>2, HaltInvariance, PTL DEF Spec, SlotPromise, Promise!Spec

-----------------------------------------------------------------------------
(* Timers *)

\* An active instance that sleeps in the slot has its timer armed, if timers are never
\* early: GuestPoll arms it, and what else may park an instance or make it active again
\* finds it out of the slot, halting, or wakes it.
THEOREM SleepersAreArmed ==
    ASSUME Protocol, "EarlyTimer" \notin Liberties
    PROVE  Spec => []ArmedWhileAsleep
<1>1. Init => ArmedWhileAsleep
  BY SlotAssumption DEF Init, ArmedWhileAsleep
<1>2. SlotInv /\ ArmedWhileAsleep /\ [Next]_vars => ArmedWhileAsleep'
  <2>. SUFFICES ASSUME SlotInv, ArmedWhileAsleep, [Next]_vars,
                       NEW u \in Umi, active_umi' = u, status' = "idle",
                       blocked'[u], is_active'[u]
                PROVE  timer_set'[u]
    BY DEF ArmedWhileAsleep
  <2>1. TypeOK /\ u # NoUmi
    BY SlotAssumption DEF SlotInv
  <2>2. ASSUME UNCHANGED <<active_umi, status>>,
               blocked'[u] => blocked[u],
               is_active'[u] => is_active[u],
               timer_set[u] => timer_set'[u]
        PROVE  timer_set'[u]
    BY <2>2 DEF ArmedWhileAsleep
  \* No Yield leaves u asleep that was not asleep in the slot before.
  <2>3. ASSUME NEW q, NEW hm, NEW act \in [Umi -> BOOLEAN], NEW ts,
               Yield(q, hm, act, ts), active_umi = u => (act[u] => is_active[u])
        PROVE  timer_set'[u]
    <3>1. CASE YieldRefused(q, hm, act, ts)
      BY <2>2, <2>3, <3>1 DEF YieldRefused
    <3>2. CASE YieldUnload(q, hm, act, ts)
      BY <2>1, <3>2 DEF YieldUnload
    <3>3. ASSUME NEW v, YieldTo(v, q, hm, act, ts)
          PROVE  timer_set'[u]
      <4>1. CASE status' = "idle" /\ active_umi' = v /\ Kick(v, ts)
        BY <2>1, <4>1 DEF Kick, TypeOK
      <4>2. CASE status' \in {"loaded", "halting", "empty"}
        BY <4>2
      <4>. QED
        BY <3>3, <4>1, <4>2 DEF YieldTo, Halt, ReturnFromSlot
    <3>. QED
      BY <2>3, <3>1, <3>2, <3>3 DEF Yield
  <2>4. CASE RunTask
    <3>1. PICK i \in DOMAIN tasks :
              RunStart(i) \/ RunHalt(i) \/ RunYield(i) \/ RunResume(i) \/ RunOutgoing(i)
      BY <2>4 DEF RunTask, Runnable
    <3>2. CASE RunStart(i)
      BY <2>2, <3>2 DEF RunStart, Abort, slotVars, instVars
    <3>3. CASE RunHalt(i)
      BY <2>2, <3>3 DEF RunHalt, Halt, ReturnFromSlot, Abort, slotVars, instVars
    <3>4. CASE RunYield(i)
      BY <2>1, <2>2, <2>3, <3>4 DEF RunYield, Abort, slotVars, instVars, TypeOK
    <3>5. CASE RunResume(i)
      <4>1. CASE tasks[i].umi = u
        BY <3>5, <4>1 DEF RunResume, request_slot_entry
      <4>2. CASE tasks[i].umi # u
        BY <2>1, <2>2, <3>5, <4>2 DEF RunResume, TypeOK
      <4>. QED
        BY <4>1, <4>2
    <3>6. CASE RunOutgoing(i)
      <4>1. is_active'[u] => is_active[u]
        BY <2>1, <3>6 DEF RunOutgoing, Abort, instVars, TypeOK
      <4>. QED
        BY <2>2, <3>6, <4>1 DEF RunOutgoing, Abort, slotVars, instVars
    <3>. QED
      BY <3>1, <3>2, <3>3, <3>4, <3>5, <3>6
  <2>5. ASSUME NEW v \in Umi, Interrupt(v) PROVE timer_set'[u]
    <3>1. ~FireEarly(v)
      BY DEF FireEarly
    <3>2. CASE Fire(v)
      <4>1. UNCHANGED <<active_umi, status, is_active>>
        BY <3>2 DEF Fire, slotVars
      <4>2. CASE v = u
        <5>1. blocked[u] /\ request_slot_entry(u)
          BY <2>1, <3>2, <4>1, <4>2 DEF Fire, request_slot_entry, SlotInv, PhaseInv, TypeOK
        <5>. QED
          BY <2>1, <3>2, <4>2, <5>1 DEF Fire, TypeOK
      <4>3. CASE v # u
        BY <2>1, <2>2, <3>2, <4>1, <4>3 DEF Fire, TypeOK
      <4>. QED
        BY <4>2, <4>3
    <3>3. ASSUME NEW payload \in BOOLEAN, PacketIn(v, payload) PROVE timer_set'[u]
      <4>. DEFINE act == IF payload THEN [is_active EXCEPT ![v] = TRUE] ELSE is_active
                  q   == slot_queue_move_to_front(idle_umi_queue, v)
      <4>1. act \in [Umi -> BOOLEAN] /\ (u # v => act[u] = is_active[u])
        BY <2>1 DEF TypeOK
      <4>2. CASE active_umi = v
        <5>1. Kick(v, tasks) /\ UNCHANGED slotVars
          BY <3>3, <4>2 DEF PacketIn
        <5>. QED
          BY <2>1, <4>2, <5>1 DEF Kick, slotVars, TypeOK
      <4>3. CASE active_umi # v
        <5>. HIDE DEF act, q
        <5>1. \/ Abort(YieldFault(q, act))
              \/ Yield(q, inactive_umi_halt_map, act, tasks)
          BY <3>3, <4>3 DEF PacketIn, act, q
        <5>2. active_umi = u => (act[u] => is_active[u])
          BY <4>1, <4>3
        <5>. QED
          BY <2>2, <2>3, <4>1, <5>1, <5>2 DEF Abort, slotVars, instVars
      <4>. QED
        BY <4>2, <4>3
    <3>. QED
      BY <2>5, <3>1, <3>2, <3>3 DEF Interrupt
  <2>6. ASSUME NEW v \in Umi, Client(v) PROVE timer_set'[u]
    <3>1. CASE Load(v)
      BY <2>2, <3>1 DEF Load, instVars
    <3>2. CASE Run(v)
      BY <2>2, <3>2 DEF Run, Abort, slotVars, instVars
    <3>3. CASE SignalHalt(v)
      <4>1. is_active \in [Umi -> BOOLEAN]
        BY <2>1 DEF TypeOK
      <4>2. CASE Abort("signal_halt_empty_slot")
        BY <2>2, <4>2 DEF Abort, slotVars, instVars
      <4>3. CASE Halt(v, idle_umi_queue, is_active, tasks, umi_id)
        BY <4>3 DEF Halt, ReturnFromSlot
      <4>. QED
        BY <2>3, <3>3, <4>1, <4>2, <4>3 DEF SignalHalt
    <3>4. CASE SignalYield(v)
      BY <2>2, <3>4 DEF SignalYield, slotVars, instVars
    <3>. QED
      BY <2>6, <3>1, <3>2, <3>3, <3>4 DEF Client
  <2>7. ASSUME NEW v \in Umi, Guest(v) PROVE timer_set'[u]
    <3>1. v = active_umi /\ status = "active"
      BY <2>7, SlotAssumption DEF Guest, Protocol, SlotInv, SlotMatchesCpu
    <3>2. CASE GuestPoll(v)
      BY <2>1, <3>1, <3>2 DEF GuestPoll, TypeOK
    <3>3. CASE GuestRead(v) \/ GuestWrite(v)
      BY <2>2, <3>3 DEF GuestRead, GuestWrite, slotVars, instVars
    <3>4. CASE GuestHalt(v)
      BY <3>4 DEF GuestHalt, Halt, ReturnFromSlot
    <3>. QED
      BY <2>7, <3>2, <3>3, <3>4 DEF Guest
  <2>8. CASE UNCHANGED vars
    BY <2>2, <2>8 DEF vars, slotVars, instVars
  <2>. QED
    BY <2>4, <2>5, <2>6, <2>7, <2>8 DEF Next
<1>. QED
  BY <1>1, <1>2, SlotInvariance, PTL DEF Spec

=============================================================================
