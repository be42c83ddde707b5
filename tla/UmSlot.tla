------------------------------- MODULE UmSlot -------------------------------
(***************************************************************************)
(* One core's execution slot: the per-core UmManager (UmManager.cc), the   *)
(* instances it schedules (UmInstance.cc), the proxy's notion of the       *)
(* active instance (UmProxy.cc) and the core's event queue.                *)
(*                                                                         *)
(* A core runs one event at a time, to completion or until the event       *)
(* blocks: every handler below is one atomic step.  `tasks` holds the      *)
(* events spawned and not yet run (SpawnLocal, ActivateContext); packets,  *)
(* timer interrupts and client calls arrive between two events.  The only  *)
(* event that lasts several steps is the one executing a guest: `cpu` is   *)
(* then that instance, and only the guest's hypercalls are possible.       *)
(***************************************************************************)
EXTENDS Integers, Sequences, SequencesExt

CONSTANTS
    Umi,        \* the instances clients will submit to this core
    NoUmi,      \* umi::null_id, an empty unique_ptr
    Calls,      \* the calls clients make: of "Load", "Run" and "SignalYield"
    Liberties,  \* what may happen beyond the protocol (see below)
    Fifo,       \* TRUE: events run in the order spawned; FALSE: in any order
    MaxTasks,   \* bound on pending events when a guest or a client adds one
    MaxRecv     \* bound on the packets waiting in one instance's receive queue

(***************************************************************************)
(* The liberties of clients: "HaltUnstarted", SignalHalt of an instance    *)
(* whose Start has not run; "HaltEmptySlot", SignalHalt while no instance  *)
(* is loaded; "HaltTwice", a second halt request for an instance;          *)
(* "RunBusy", Run while the slot is not empty.  Of guests: "GuestHalt",    *)
(* the guest makes the halt hypercall itself; "CallsAfterHalt", it makes   *)
(* more hypercalls should that one return, where otherwise it spins.  Of   *)
(* the clock: "EarlyTimer", a timer goes off before the time to wait for.  *)
(***************************************************************************)
AllLiberties ==
    {"HaltUnstarted", "HaltEmptySlot", "HaltTwice", "RunBusy", "GuestHalt",
     "CallsAfterHalt", "EarlyTimer"}

ASSUME SlotAssumption ==
    /\ NoUmi \notin Umi
    /\ Calls \subseteq {"Load", "Run", "SignalYield"}
    /\ Liberties \subseteq AllLiberties
    /\ Fifo \in BOOLEAN
    /\ MaxTasks \in Nat
    /\ MaxRecv \in Nat

VARIABLES
    \* UmManager
    status,                  \* UmmStatus::s_
    active_umi,              \* the instance loaded in the slot
    idle_umi_queue,          \* the deque of instances waiting for the slot
    inactive_umi_map,        \* keys: instances held while not in the slot
    inactive_umi_halt_map,   \* keys: instances to halt when next loaded
    activation_promise_map,  \* keys: instances whose Load is not yet answered
    \* UmProxy
    umi_id,                  \* the instance the proxy takes for the active one
    \* UmInstance, for each instance
    is_active,               \* active_: may not be preempted
    blocked,                 \* blocked_: parked until a Kick
    timer_set,               \* the wake-up timer is armed
    umi_recv_queue,          \* number of packets received and not yet read
    \* the event manager
    tasks,                   \* pending events
    cpu,                     \* the instance whose guest is executing
    \* clients
    phase,                   \* how far an instance has come
    halts,                   \* number of halt requests made for it
    \* a failed assertion, an abort or undefined behaviour: the core is dead
    fault

slotVars == <<status, active_umi, idle_umi_queue, inactive_umi_map,
              inactive_umi_halt_map, activation_promise_map, umi_id>>
instVars == <<is_active, blocked, timer_set, umi_recv_queue>>
vars == <<slotVars, instVars, tasks, cpu, phase, halts, fault>>

Status == {"empty", "loaded", "active", "snapshot", "idle", "halting", "finished"}
Phase == {"new", "loaded", "started", "ran", "done"}
Task == [fn: {"Start", "Resume", "Outgoing"}, umi: Umi]
            \cup [fn: {"Halt", "Yield"}, umi: {NoUmi}]
Fault == {"none", "start_not_loaded", "bad_status", "yield_from_nothing",
          "halt_empty_slot", "signal_halt_empty_slot", "sleep_with_timer",
          "outgoing_no_umi", "yield_target_missing", "run_slot_busy"}

StartTask(u) == [fn |-> "Start", umi |-> u]
ResumeTask(u) == [fn |-> "Resume", umi |-> u]
OutgoingTask(u) == [fn |-> "Outgoing", umi |-> u]   \* u: the guest that wrote
HaltTask == [fn |-> "Halt", umi |-> NoUmi]
YieldTask == [fn |-> "Yield", umi |-> NoUmi]

TypeOK ==
    /\ status \in Status
    /\ active_umi \in Umi \cup {NoUmi}
    /\ idle_umi_queue \in Seq(Umi)
    /\ inactive_umi_map \in SUBSET Umi
    /\ inactive_umi_halt_map \in SUBSET Umi
    /\ activation_promise_map \in SUBSET Umi
    /\ umi_id \in Umi \cup {NoUmi}
    /\ is_active \in [Umi -> BOOLEAN]
    /\ blocked \in [Umi -> BOOLEAN]
    /\ timer_set \in [Umi -> BOOLEAN]
    /\ umi_recv_queue \in [Umi -> Nat]
    /\ tasks \in Seq(Task)
    /\ cpu \in Umi \cup {NoUmi}
    /\ phase \in [Umi -> Phase]
    /\ halts \in [Umi -> Nat]
    /\ fault \in Fault

Init ==
    /\ status = "empty"
    /\ active_umi = NoUmi
    /\ idle_umi_queue = <<>>
    /\ inactive_umi_map = {}
    /\ inactive_umi_halt_map = {}
    /\ activation_promise_map = {}
    /\ umi_id = NoUmi
    /\ is_active = [u \in Umi |-> TRUE]
    /\ blocked = [u \in Umi |-> FALSE]
    /\ timer_set = [u \in Umi |-> FALSE]
    /\ umi_recv_queue = [u \in Umi |-> 0]
    /\ tasks = <<>>
    /\ cpu = NoUmi
    /\ phase = [u \in Umi |-> "new"]
    /\ halts = [u \in Umi |-> 0]
    /\ fault = "none"

-----------------------------------------------------------------------------
(* Helpers of UmManager *)

\* kassert, kabort, kbugon or undefined behaviour: nothing runs any more.
Abort(why) ==
    /\ fault' = why
    /\ UNCHANGED <<slotVars, instVars, tasks, cpu, phase, halts>>

\* The manager holds u, in the slot or waiting: the pointer is not null.
GetInstance(u) ==
    /\ u # NoUmi
    /\ u = active_umi \/ u \in inactive_umi_map

\* Faulty variants of request_slot_entry: without the check of the status, without
\* the check of the loaded instance, refusing an idle slot too, letting a guest back
\* into a slot that is halting it.
EntryAnyStatus(u) == active_umi = u
EntryAnyInstance(u) == status \notin {"halting", "snapshot", "finished"}
EntryNotIdle(u) == active_umi = u /\ status = "loaded"
EntryHalting(u) == active_umi = u /\ status \notin {"snapshot", "finished"}

request_slot_entry(u) ==
    /\ active_umi = u
    /\ status \notin {"halting", "snapshot", "finished"}

\* Position of the first occurrence of u in queue q (std::find).
slot_queue_get_pos(q, u) ==
    CHOOSE k \in DOMAIN q : q[k] = u /\ \A j \in DOMAIN q : q[j] = u => k <= j

slot_queue_remove(q, u) ==
    IF \E k \in DOMAIN q : q[k] = u
    THEN RemoveAt(q, slot_queue_get_pos(q, u))
    ELSE q

\* On an empty deque the code reads front() of nothing: whatever it reads, the
\* queue stays empty.
slot_queue_move_to_front(q, u) ==
    IF \E k \in DOMAIN q : q[k] = u THEN <<u>> \o slot_queue_remove(q, u) ELSE q

\* Faulty variants of Kick: blocked_ is not reset; the context is not activated; the
\* timer is not stopped.
KickStillBlocked(u, ts) ==
    /\ timer_set' = [timer_set EXCEPT ![u] = IF blocked[u] THEN FALSE ELSE @]
    /\ tasks' = IF blocked[u] THEN Append(ts, ResumeTask(u)) ELSE ts
    /\ UNCHANGED blocked
KickOnlyFlag(u, ts) ==
    /\ blocked' = [blocked EXCEPT ![u] = FALSE]
    /\ timer_set' = [timer_set EXCEPT ![u] = IF blocked[u] THEN FALSE ELSE @]
    /\ tasks' = ts

KickKeepsTimer(u, ts) ==
    /\ blocked' = [blocked EXCEPT ![u] = FALSE]
    /\ tasks' = IF blocked[u] THEN Append(ts, ResumeTask(u)) ELSE ts
    /\ UNCHANGED timer_set

\* UmInstance::Kick: wake the instance if it is parked.  The context is only
\* queued for activation: it runs in a later event.
Kick(u, ts) ==
    /\ blocked' = [blocked EXCEPT ![u] = FALSE]
    /\ timer_set' = [timer_set EXCEPT ![u] = IF blocked[u] THEN FALSE ELSE @]
    /\ tasks' = IF blocked[u] THEN Append(ts, ResumeTask(u)) ELSE ts

-----------------------------------------------------------------------------
(* Halt and Yield.  Both are called from several handlers, which may have   *)
(* changed the queue, the halt map or the activity flags before: q, hm, act *)
(* are the values at the call, ts the events pending then.                  *)

\* Faulty variant of ReturnFromSlot: nobody is told that the slot is free.
ReturnNoYield(u, q) ==
    /\ status' = "empty"
    /\ active_umi' = NoUmi
    /\ idle_umi_queue' = q
    /\ phase' = [phase EXCEPT ![u] = "done"]
    /\ tasks' = <<>>

\* The int3 of Halt: process_gateway restores the frame saved by Start or Run
\* of instance u, whose call goes on from there, unloads the slot and hands the
\* instance back.  Start first spawns a Yield if instances wait; Run does not.
ReturnFromSlot(u, q) ==
    /\ status' = "empty"
    /\ active_umi' = NoUmi
    /\ idle_umi_queue' = q
    /\ phase' = [phase EXCEPT ![u] = "done"]
    /\ tasks' = IF q # <<>> /\ phase[u] = "started" THEN <<YieldTask>> ELSE <<>>

\* Faulty variant of Halt: it is not respawned.
HaltOnce(u, q, act, ts, p) ==
    /\ is_active' = [act EXCEPT ![u] = TRUE]
    /\ IF ts # <<>>
       THEN /\ status' = "halting"
            /\ active_umi' = u
            /\ idle_umi_queue' = q
            /\ tasks' = ts
            /\ umi_id' = p
            /\ UNCHANGED phase
       ELSE /\ ReturnFromSlot(u, q)
            /\ umi_id' = IF p = u THEN NoUmi ELSE p

\* Halt of the loaded instance u, proxied as p.  With events pending it only
\* respawns itself.  Leaves blocked, timer_set, the maps, recv queues alone.
Halt(u, q, act, ts, p) ==
    /\ is_active' = [act EXCEPT ![u] = TRUE]
    /\ IF ts # <<>>
       THEN /\ status' = "halting"
            /\ active_umi' = u
            /\ idle_umi_queue' = q
            /\ tasks' = Append(ts, HaltTask)
            /\ umi_id' = p
            /\ UNCHANGED phase
       ELSE /\ ReturnFromSlot(u, q)
            /\ umi_id' = IF p = u THEN NoUmi ELSE p   \* RemoveInstanceState

\* Faulty variant of MayYield: a slot whose occupant has not started may yield, too.
MayYieldLoaded(act) ==
    /\ active_umi # NoUmi => ~act[active_umi]
    /\ status \in {"idle", "empty", "loaded"}

MayYield(act) ==
    /\ active_umi # NoUmi => ~act[active_umi]
    /\ status \in {"idle", "empty"}

Eligible(q, act) == {k \in DOMAIN q : GetInstance(q[k]) /\ act[q[k]]}

\* Faulty variant of YieldRefused: the halt flag is only kept if the yield succeeds.
YieldRefusedNoFlag(q, hm, act, ts) ==
    /\ ~MayYield(act) \/ (q # <<>> /\ Eligible(q, act) = {})
    /\ idle_umi_queue' = q
    /\ is_active' = act
    /\ tasks' = ts
    /\ UNCHANGED <<status, active_umi, inactive_umi_map, inactive_umi_halt_map,
                   activation_promise_map, umi_id, blocked, timer_set, phase>>

\* "we can't yield now", or no waiting instance is active.
YieldRefused(q, hm, act, ts) ==
    /\ ~MayYield(act) \/ (q # <<>> /\ Eligible(q, act) = {})
    /\ idle_umi_queue' = q
    /\ inactive_umi_halt_map' = hm
    /\ is_active' = act
    /\ tasks' = ts
    /\ UNCHANGED <<status, active_umi, inactive_umi_map, activation_promise_map,
                   umi_id, blocked, timer_set, phase>>

\* Nothing waits: unload the slot and queue the old instance.
YieldUnload(q, hm, act, ts) ==
    /\ MayYield(act)
    /\ q = <<>>
    /\ active_umi # NoUmi
    /\ status' = "empty"
    /\ active_umi' = NoUmi
    /\ inactive_umi_map' = inactive_umi_map \cup {active_umi}
    /\ idle_umi_queue' = <<active_umi>>
    /\ inactive_umi_halt_map' = hm
    /\ is_active' = act
    /\ tasks' = ts
    /\ UNCHANGED <<activation_promise_map, umi_id, blocked, timer_set, phase>>

\* The queue after v left it for the slot and the old occupant joined its end.
QueueAfterSwap(q, v) ==
    IF active_umi = NoUmi THEN slot_queue_remove(q, v)
                          ELSE Append(slot_queue_remove(q, v), active_umi)

MapAfterSwap(v) ==
    IF active_umi = NoUmi THEN inactive_umi_map \ {v}
                          ELSE (inactive_umi_map \ {v}) \cup {active_umi}

\* Load or swap in v, the first active instance of the queue, then boot it
\* (answer its Load: the client's continuation spawns Start), halt it, or wake it.
YieldTo(v, q, hm, act, ts) ==
    /\ inactive_umi_map' = MapAfterSwap(v)
    /\ \/ /\ v \in activation_promise_map
          /\ status' = "loaded"
          /\ active_umi' = v
          /\ idle_umi_queue' = QueueAfterSwap(q, v)
          /\ umi_id' = v
          /\ activation_promise_map' = activation_promise_map \ {v}
          /\ inactive_umi_halt_map' = hm
          /\ is_active' = act
          /\ tasks' = Append(ts, StartTask(v))
          /\ UNCHANGED <<blocked, timer_set, phase>>
       \/ /\ v \notin activation_promise_map
          /\ v \in hm
          /\ inactive_umi_halt_map' = hm \ {v}
          /\ Halt(v, QueueAfterSwap(q, v), act, ts, v)
          /\ UNCHANGED <<activation_promise_map, blocked, timer_set>>
       \/ /\ v \notin activation_promise_map
          /\ v \notin hm
          /\ status' = "idle"
          /\ active_umi' = v
          /\ idle_umi_queue' = QueueAfterSwap(q, v)
          /\ umi_id' = v
          /\ inactive_umi_halt_map' = hm
          /\ is_active' = act
          /\ Kick(v, ts)
          /\ UNCHANGED <<activation_promise_map, phase>>

\* Yield.  Leaves umi_recv_queue, cpu and halts to its caller.
Yield(q, hm, act, ts) ==
    \/ YieldRefused(q, hm, act, ts)
    \/ YieldUnload(q, hm, act, ts)
    \/ /\ MayYield(act)
       /\ \E k \in Eligible(q, act) :
             /\ \A j \in Eligible(q, act) : k <= j
             /\ YieldTo(q[k], q, hm, act, ts)

\* The ways Yield kills the core: an empty slot and nobody waiting leaves nothing
\* to unload, or the instance found in the queue is not in the map.
YieldFault(q, act) ==
    IF MayYield(act) /\ q = <<>> /\ active_umi = NoUmi
    THEN "yield_from_nothing"
    ELSE IF /\ MayYield(act)
            /\ \E k \in Eligible(q, act) :
                  /\ \A j \in Eligible(q, act) : k <= j
                  /\ q[k] \notin inactive_umi_map
         THEN "yield_target_missing"
         ELSE "none"

-----------------------------------------------------------------------------
(* Events.  Task i is taken from the queue and its handler runs.            *)

Runnable == IF Fifo THEN {i \in DOMAIN tasks : i = 1} ELSE DOMAIN tasks

\* UmManager::Start, up to the int3 by which process_gateway enters the guest.
RunStart(i) ==
    /\ tasks[i].fn = "Start"
    /\ IF status = "loaded" /\ active_umi = tasks[i].umi
       THEN /\ status' = "active"
            /\ cpu' = active_umi
            /\ phase' = [phase EXCEPT ![active_umi] = "started"]
            /\ tasks' = RemoveAt(tasks, i)
            /\ UNCHANGED <<active_umi, idle_umi_queue, inactive_umi_map,
                           inactive_umi_halt_map, activation_promise_map, umi_id,
                           instVars, halts, fault>>
       ELSE Abort("start_not_loaded")

\* Halt, spawned by an earlier Halt that found events pending.
RunHalt(i) ==
    /\ tasks[i].fn = "Halt"
    /\ IF status = "empty"
       THEN Abort("halt_empty_slot")
       ELSE /\ Halt(active_umi, idle_umi_queue, is_active, RemoveAt(tasks, i), umi_id)
            /\ UNCHANGED <<inactive_umi_map, inactive_umi_halt_map,
                           activation_promise_map, blocked, timer_set,
                           umi_recv_queue, cpu, halts, fault>>

RunYield(i) ==
    /\ tasks[i].fn = "Yield"
    /\ IF YieldFault(idle_umi_queue, is_active) # "none"
       THEN Abort(YieldFault(idle_umi_queue, is_active))
       ELSE /\ Yield(idle_umi_queue, inactive_umi_halt_map, is_active,
                     RemoveAt(tasks, i))
            /\ UNCHANGED <<umi_recv_queue, cpu, halts, fault>>

\* block_execution after SaveContext returns: the instance checks that it may
\* enter the slot.  If not it parks again, without a timer; if it may, Block
\* marks the slot active and the guest goes on.
RunResume(i) ==
    LET u == tasks[i].umi IN
    /\ tasks[i].fn = "Resume"
    /\ tasks' = RemoveAt(tasks, i)
    /\ IF request_slot_entry(u)
       THEN /\ status' = "active"
            /\ cpu' = u
            /\ fault' = IF status \in {"loaded", "idle"} THEN "none" ELSE "bad_status"
            /\ UNCHANGED blocked
       ELSE /\ blocked' = [blocked EXCEPT ![u] = TRUE]
            /\ UNCHANGED <<status, cpu, fault>>
    /\ UNCHANGED <<active_umi, idle_umi_queue, inactive_umi_map,
                   inactive_umi_halt_map, activation_promise_map, umi_id,
                   is_active, timer_set, umi_recv_queue, phase, halts>>

\* ProcessOutgoing of an external TCP packet with a payload: the instance the
\* proxy takes for the active one may be preempted from now on.
RunOutgoing(i) ==
    /\ tasks[i].fn = "Outgoing"
    /\ IF GetInstance(umi_id)
       THEN /\ is_active' = [is_active EXCEPT ![umi_id] = FALSE]
            /\ tasks' = RemoveAt(tasks, i)
            /\ UNCHANGED <<slotVars, blocked, timer_set, umi_recv_queue, cpu,
                           phase, halts, fault>>
       ELSE Abort("outgoing_no_umi")

-----------------------------------------------------------------------------
(* Interrupts and client calls, between two events.                         *)

\* UmInstance::Fire, at or after the wake-up time: the timer of an instance that
\* cannot enter the slot is dropped.
Fire(u) ==
    /\ timer_set[u]
    /\ timer_set' = [timer_set EXCEPT ![u] = FALSE]
    /\ IF request_slot_entry(u) /\ blocked[u]
       THEN /\ blocked' = [blocked EXCEPT ![u] = FALSE]
            /\ tasks' = Append(tasks, ResumeTask(u))
       ELSE UNCHANGED <<blocked, tasks>>
    /\ UNCHANGED <<slotVars, is_active, umi_recv_queue, cpu, phase, halts, fault>>

\* The timer's duration is cut to microseconds, time_wait is not: Fire may find that
\* it is too early.  It does not start the timer again.
FireEarly(u) ==
    /\ "EarlyTimer" \in Liberties
    /\ timer_set[u]
    /\ timer_set' = [timer_set EXCEPT ![u] = FALSE]
    /\ UNCHANGED <<slotVars, is_active, blocked, umi_recv_queue, tasks, cpu, phase,
                   halts, fault>>

\* ProcessIncoming of a packet for u, external with a payload or not, then
\* WritePacket and SignalResume.  WritePacket enqueues after SignalResume
\* returns: it does not if the Yield in there halted an instance.
PacketIn(u, payload) ==
    LET act == IF payload THEN [is_active EXCEPT ![u] = TRUE] ELSE is_active
        q   == slot_queue_move_to_front(idle_umi_queue, u)
    IN
    /\ GetInstance(u)
    /\ umi_recv_queue[u] < MaxRecv
    /\ IF active_umi = u
       THEN /\ is_active' = act
            /\ Kick(u, tasks)
            /\ umi_recv_queue' = [umi_recv_queue EXCEPT ![u] = @ + 1]
            /\ UNCHANGED <<slotVars, cpu, phase, halts, fault>>
       ELSE IF YieldFault(q, act) # "none"
            THEN Abort(YieldFault(q, act))
            ELSE /\ Yield(q, inactive_umi_halt_map, act, tasks)
                 /\ umi_recv_queue' = [umi_recv_queue EXCEPT ![u] =
                                          IF phase' = phase THEN @ + 1 ELSE @]
                 /\ UNCHANGED <<cpu, halts, fault>>

\* A client submits u.  When the returned future is ready the client's
\* continuation spawns Start(u).
Load(u) ==
    /\ "Load" \in Calls
    /\ phase[u] = "new"
    /\ phase' = [phase EXCEPT ![u] = "loaded"]
    /\ \/ /\ status = "empty" \/ (status = "idle" /\ ~is_active[active_umi])
          /\ status' = "loaded"
          /\ active_umi' = u
          /\ umi_id' = u
          /\ inactive_umi_map' = IF active_umi = NoUmi THEN inactive_umi_map
                                 ELSE inactive_umi_map \cup {active_umi}
          /\ idle_umi_queue' = IF active_umi = NoUmi THEN idle_umi_queue
                               ELSE Append(idle_umi_queue, active_umi)
          /\ tasks' = Append(tasks, StartTask(u))
          /\ UNCHANGED activation_promise_map
       \/ /\ status # "empty"
          /\ status # "idle" \/ is_active[active_umi]
          /\ idle_umi_queue' = Append(idle_umi_queue, u)
          /\ activation_promise_map' = activation_promise_map \cup {u}
          /\ inactive_umi_map' = inactive_umi_map \cup {u}
          /\ UNCHANGED <<status, active_umi, umi_id, tasks>>
    /\ UNCHANGED <<inactive_umi_halt_map, instVars, cpu, halts, fault>>

\* UmManager::Run: load and enter in one event.
Run(u) ==
    /\ "Run" \in Calls
    /\ phase[u] = "new"
    /\ status = "empty" \/ "RunBusy" \in Liberties
    /\ IF status = "empty"
       THEN /\ status' = "active"
            /\ active_umi' = u
            /\ umi_id' = u
            /\ cpu' = u
            /\ phase' = [phase EXCEPT ![u] = "ran"]
            /\ UNCHANGED <<idle_umi_queue, inactive_umi_map, inactive_umi_halt_map,
                           activation_promise_map, instVars, tasks, halts, fault>>
       ELSE Abort("run_slot_busy")

\* The halt requests a client or guest makes for u under the protocol.
MayRequestHalt(u) ==
    /\ phase[u] \in {"started", "ran"}
       \/ ("HaltUnstarted" \in Liberties /\ phase[u] = "loaded")
    /\ halts[u] < (IF "HaltTwice" \in Liberties THEN 2 ELSE 1)

SignalHalt(u) ==
    /\ MayRequestHalt(u)
    /\ active_umi # NoUmi \/ "HaltEmptySlot" \in Liberties
    /\ IF active_umi = NoUmi
       THEN Abort("signal_halt_empty_slot")
       ELSE /\ halts' = [halts EXCEPT ![u] = @ + 1]
            /\ IF u = active_umi
               THEN /\ Halt(u, idle_umi_queue, is_active, tasks, umi_id)
                    /\ UNCHANGED <<inactive_umi_map, inactive_umi_halt_map,
                                   activation_promise_map, blocked, timer_set>>
               ELSE LET q == slot_queue_move_to_front(idle_umi_queue, u) IN
                    Yield(q, inactive_umi_halt_map \cup {u}, is_active, tasks)
            /\ UNCHANGED <<umi_recv_queue, cpu, fault>>

SignalYield(u) ==
    /\ "SignalYield" \in Calls
    /\ active_umi = u
    /\ Len(tasks) < MaxTasks
    /\ tasks' = Append(tasks, YieldTask)
    /\ UNCHANGED <<slotVars, instVars, cpu, phase, halts, fault>>

-----------------------------------------------------------------------------
(* Hypercalls of the executing guest.                                       *)

\* solo5_hypercall_poll with no data: Block, Sleep, block_execution.  An inactive
\* instance sleeps without a timer.  Block stops the core if the slot is halting.
\* (With data, or with a timeout of zero, poll returns at once and nothing changes.)
GuestPoll(u) ==
    /\ umi_recv_queue[u] = 0
    /\ IF status \in {"active", "loaded"}
       THEN /\ status' = "idle"
            /\ cpu' = NoUmi
            /\ fault' = IF timer_set[u] THEN "sleep_with_timer" ELSE "none"
            /\ timer_set' = [timer_set EXCEPT ![u] = is_active[u]]
            /\ blocked' = [blocked EXCEPT ![u] = TRUE]
            /\ UNCHANGED <<active_umi, idle_umi_queue, inactive_umi_map,
                           inactive_umi_halt_map, activation_promise_map, umi_id,
                           is_active, umi_recv_queue, tasks, phase, halts>>
       ELSE Abort("bad_status")

\* solo5_hypercall_netread
GuestRead(u) ==
    /\ umi_recv_queue[u] > 0
    /\ umi_recv_queue' = [umi_recv_queue EXCEPT ![u] = @ - 1]
    /\ UNCHANGED <<slotVars, is_active, blocked, timer_set, tasks, cpu, phase,
                   halts, fault>>

\* solo5_hypercall_netwrite: the packet is processed in a later event.
GuestWrite(u) ==
    /\ Len(tasks) < MaxTasks
    /\ tasks' = Append(tasks, OutgoingTask(u))
    /\ UNCHANGED <<slotVars, instVars, cpu, phase, halts, fault>>

\* solo5_hypercall_halt.  If events are pending Halt spawns itself and returns to the
\* guest, which goes on executing in a halting slot.
GuestHalt(u) ==
    /\ "GuestHalt" \in Liberties
    /\ MayRequestHalt(u)
    /\ halts' = [halts EXCEPT ![u] = @ + 1]
    /\ Halt(u, idle_umi_queue, is_active, tasks, umi_id)
    /\ cpu' = IF tasks = <<>> THEN NoUmi ELSE cpu
    /\ UNCHANGED <<inactive_umi_map, inactive_umi_halt_map, activation_promise_map,
                   blocked, timer_set, umi_recv_queue, fault>>

-----------------------------------------------------------------------------
RunTask ==
    /\ fault = "none"
    /\ cpu = NoUmi
    /\ \E i \in Runnable :
          RunStart(i) \/ RunHalt(i) \/ RunYield(i) \/ RunResume(i) \/ RunOutgoing(i)

Interrupt(u) ==
    /\ fault = "none"
    /\ cpu = NoUmi
    /\ Fire(u) \/ FireEarly(u) \/ \E payload \in BOOLEAN : PacketIn(u, payload)

Client(u) ==
    /\ fault = "none"
    /\ cpu = NoUmi
    /\ Load(u) \/ Run(u) \/ SignalHalt(u) \/ SignalYield(u)

\* A guest that has asked for its halt has nothing left to do: should it get control
\* back, it spins.  (Solo5's exit, external)
Guest(u) ==
    /\ fault = "none"
    /\ cpu = u
    /\ status # "halting" \/ "CallsAfterHalt" \in Liberties
    /\ GuestPoll(u) \/ GuestRead(u) \/ GuestWrite(u) \/ GuestHalt(u)

Next == RunTask \/ \E u \in Umi : Interrupt(u) \/ Client(u) \/ Guest(u)

Spec == Init /\ [][Next]_vars

\* The event loop keeps running events, a timer that is armed goes off, and an
\* executing guest keeps making hypercalls until it polls or asks for its halt.
TimerInterrupt(u) ==
    /\ fault = "none"
    /\ cpu = NoUmi
    /\ Fire(u)

FairSpec ==
    /\ Spec
    /\ WF_vars(RunTask)
    /\ \A u \in Umi : WF_vars(TimerInterrupt(u)) /\ WF_vars(Guest(u))

-----------------------------------------------------------------------------
(* Safety *)

\* Pending(t): positions of the pending events equal to t.
Pending(t) == {i \in DOMAIN tasks : tasks[i] = t}
PendingOnce(t) == \E i \in DOMAIN tasks : Pending(t) = {i}

\* No assertion fails, nothing aborts, Yield never unloads an empty slot.
\* (kassert, kabort and kbugon in UmManager.cc and UmProxy.cc)
NoFault == fault = "none"

\* The queue and the map hold the same instances, each once, and never the
\* loaded one: Yield, Load and SignalHalt update them together.
QueueMatchesMap ==
    /\ IsInjective(idle_umi_queue)
    /\ Range(idle_umi_queue) = inactive_umi_map
    /\ active_umi \notin inactive_umi_map

\* A guest executes exactly while the slot is active, and then it is the loaded
\* instance: a context activated before a swap does not enter (request_slot_entry).
SlotMatchesCpu ==
    /\ cpu # NoUmi => cpu = active_umi /\ status \in {"active", "halting"}
    /\ status = "active" => cpu = active_umi
    /\ status = "empty" <=> active_umi = NoUmi

\* An instance whose Load was accepted and that has not started either waits in
\* the queue with a promise, or is loaded with exactly one Start pending.
BootOnce ==
    \A u \in Umi :
        phase[u] = "loaded" =>
            \/ /\ u \in activation_promise_map \cap inactive_umi_map
               /\ Pending(StartTask(u)) = {}
            \/ /\ u \notin activation_promise_map
               /\ active_umi = u
               /\ status = "loaded"
               /\ PendingOnce(StartTask(u))

\* A started instance that is not executing either is parked, so that a Kick can
\* wake it, or has exactly one activation pending: none is lost, none is doubled.
\* (blocked_ and ActivateContext in UmInstance.cc)
OneWakeupEach ==
    \A u \in Umi :
        phase[u] \in {"started", "ran"} =>
            IF blocked[u] \/ cpu = u THEN Pending(ResumeTask(u)) = {}
                                    ELSE PendingOnce(ResumeTask(u))

\* An active instance asleep in the slot has its timer armed, however often it was
\* swapped out, kicked and parked again.  ("When blocking, instance remains loaded
\* and a timer is set", UmInstance.h)
ArmedWhileAsleep ==
    \A u \in Umi :
        active_umi = u /\ status = "idle" /\ blocked[u] /\ is_active[u] => timer_set[u]

\* A halt request is remembered until the instance is done: the slot is halting it,
\* or it is flagged; and a halting slot has exactly one Halt event.
HaltRemembered ==
    /\ \A u \in Umi :
          halts[u] > 0 /\ phase[u] # "done" =>
              (active_umi = u /\ status = "halting") \/ u \in inactive_umi_halt_map
    /\ inactive_umi_halt_map \subseteq inactive_umi_map
    /\ IF status = "halting" THEN PendingOnce(HaltTask) ELSE Pending(HaltTask) = {}

\* The proxy's active instance is the loaded one, or while the slot is empty one
\* that still exists: ProcessOutgoing never dereferences a dead instance.
ProxyFollowsSlot ==
    IF active_umi # NoUmi THEN umi_id = active_umi
    ELSE umi_id = NoUmi \/ umi_id \in inactive_umi_map

-----------------------------------------------------------------------------
(* The promise to the clients *)

\* Where instance u is; nowhere, if neither the slot nor the map has it while it is
\* neither new nor done.
Whereabouts(u) ==
    CASE active_umi = u            -> "slot"
      [] u \in inactive_umi_map    -> "waiting"
      [] phase[u] \in {"new", "done"} -> phase[u]
      [] OTHER                     -> "nowhere"

Promise == INSTANCE SlotAbs WITH
    place <- [u \in Umi |-> Whereabouts(u)],
    running <- cpu,
    working <- {u \in Umi : is_active[u]},
    asked <- {u \in Umi : halts[u] > 0}

\* Refinement: however events, timers, packets, yields and halts interleave, no
\* instance gets lost; "if loaded, an active instance can not be unloaded. If not loaded,
\* an inactive will not be swapped in" (UmInstance.h); a guest executes in the slot only,
\* never again once its halt is requested; and it goes only when that was requested.
SlotPromise == Promise!Spec

-----------------------------------------------------------------------------
(* Liveness *)

\* The halt of the loaded instance comes to an end.
HaltCompletes ==
    \A u \in Umi : (active_umi = u /\ status = "halting") ~> phase[u] = "done"

\* A started instance in the slot that is active, or that has data to read,
\* gets to execute unless it leaves the slot or is halted first.
OccupantWakes ==
    \A u \in Umi :
        (/\ active_umi = u
         /\ phase[u] \in {"started", "ran"}
         /\ is_active[u] \/ umi_recv_queue[u] > 0)
            ~> (cpu = u \/ active_umi # u \/ status = "halting")

\* While the slot is empty an active instance does not wait for ever: it is loaded
\* or another one is.
EmptySlotIsFilled ==
    \A u \in Umi :
        (status = "empty" /\ u \in inactive_umi_map /\ is_active[u])
            ~> (status # "empty" \/ u \notin inactive_umi_map)

=============================================================================
