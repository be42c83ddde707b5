# Umm: a verification development

Umm runs unikernel instances (UMIs) under the EbbRT library OS. Each core has one
*execution slot*, a fixed range of virtual addresses in which one instance at a
time executes; the instances of a core take turns. An instance is created from a
*state vector* (SV): registers, memory regions and a page table; an SV comes from an
ELF file or from a snapshot of a running instance, which later instances share
copy-on-write. Instances reach the network through a per-core proxy that rewrites
addresses and ports.

## Inventory

| Component (src/src/) | State | Operations | What makes it correct |
|---|---|---|---|
| `UmManager`: slot and scheduling | slot status, loaded instance, queue and map of waiting instances, halt flags, activation promises | Load, Start, Run, Block, Halt, Yield, SignalHalt/Yield/Resume, request_slot_entry | slot, queue, map and promises agree along every path; an active occupant is not preempted; an accepted instance starts once; a halt request is carried out; a free slot is filled |
| `UmInstance`: blocking, timers, packets | active/blocked flags, saved context, timer, receive queue | Sleep, Kick, block_execution, Fire, SetActive/SetInactive, ReadPacket, WritePacket | every sleeping instance can be woken, and is woken once |
| `umm-solo5`: hypercalls | none of its own | poll, netread, netwrite, halt | a poll returns when data is there or time is up |
| `UmProxy`, `LoopbackDriver`: network | active instance per core, NAT ports (one map under a lock, one cache per core), internal ports | ProcessIncoming, ProcessOutgoing, SetActiveInstance, RemoveInstanceState, RegisterInternalPort | a reply reaches the connection whose packet it answers, on every core; no port is shared; a host connection keeps its instance |
| `UmPgTblMgr`, `UmPth`, `UmSV`, `UmRegion`: address spaces | page tables, frames, region lists | page fault, snapshot, copy of an SV, load/unload of the slot's root, destruction | instances see only their own writes and their snapshot; a snapshot never changes; no frame is freed while mapped, none twice |
| `InvocationSession`: HTTP to an instance | five promises, two flags, statistics | Connected, Receive, Close, Abort, SendHttpRequest | outcome recorded is the outcome that happened; hooks fire once |
| `UmLoader`: ELF files | region list | createSVFromElf | each loaded address is in one region with its section's permission, and finds there what the linker put there |
| `UmSyscall`, `syscall.S` | descriptor tables, MSRs | one-time set-up, user/kernel switch, dispatch of hypercalls | a guest's hypercall is handled for that guest |
| `Counter`, headers, build | profiling counters | | not modelled |

How they interact. Everything on one core happens in *events*, which the EbbRT event
manager runs one at a time: handlers call each other directly (the proxy calls
`GetInstance`, `SetActive` and `WritePacket`; `WritePacket` calls `SignalResume`, which
may `Yield`, which may `Halt`), or spawn a later event (`SpawnLocal`, `ActivateContext`),
or resolve a promise whose continuation runs at once. What is hard: an event is atomic
but the world changes between the moment it is spawned and the moment it runs; a saved
context is activated in one event and checks in another one whether it still may run;
`Halt` and `Yield` are re-entered from several handlers; timers, packets, clients and the
guest wake or stop the same instance. Between cores only the NAT's master map and the
snapshots are shared.

## Plan

1. `UmSlot` (this is the heart of the system), its types and the inductive invariant
   behind its safety properties: done.
2. `SlotAbs`: what a slot promises its clients (an instance is submitted, waits,
   occupies the slot alone, is done), and `UmSlot` shown to implement it: done.
3. `UmMemory`: frames, page tables, copy on write, snapshots, the slot's root and the
   TLB, refining `AddressSpaces` (each instance and each snapshot has a memory of its
   own), with proofs of both: done.
4. `UmNat`: master map, per-core caches, remote delivery, port exhaustion; internal ports;
   with proofs: done.
5. `UmPgTbl`: multi-level tables and the recursive walkers over them, refining `UmMemory`:
   done.
6. `UmCore`: slot and memory composed, so that the manager's events drive load, unload,
   checkpoint and destruction: done.
7. `UmSession`: the invocation session's hooks and status: done.
8. `UmElf`: the section loop, the regions it makes and the pages they back: done.
9. Proofs of the remaining invariants of `UmSlot`, of the refinement of `SlotAbs`, of
   `UmSession`'s invariants, of `UmCore`'s properties and of `UmElf`'s: done (below, under
   "Proofs").
10. Proofs about `UmPgTbl`'s tables and walkers and of its refinement of `UmMemory`, for any
    number of entries per table: done.

How the modules depend on each other:

- `UmSlot` implements `SlotAbs`; `UmSlotInv` and `UmSlotProofs`
  extend it. `EventQueue` names what is pending in a queue of spawned
  events; `UmSlotInv` and `UmSessionInv` extend it, and `EventQueueProofs` has its lemmas.
- `UmMemory` implements `AddressSpaces`; `UmMemoryInv` and `UmMemoryProofs` extend it.
- `UmPgTbl` implements `UmMemory`; `UmPgTblCounters` extends it with the counters, and
  `UmPgTblInv` and `UmPgTblProofs` with the invariants and the proofs. `UmPgTblProofs` also
  instantiates `UmMemoryProofs`, for what is true of the tables because it is of `UmMemory`.
- `UmCore` extends `UmSlot` and instantiates `UmMemory` (`UmMemoryInv`), whose slot is
  `UmSlot`'s; `UmCoreInv` extends it, and `UmCoreProofs` uses the theorems of both parts.
- `UmNat` (`UmNatInv`, `UmNatProofs`), `UmSession` (`UmSessionInv`, `UmSessionProofs`) and
  `UmElf` (`UmElfInv`, `UmElfProofs`) stand alone.

## UmSlot

`UmSlot.tla` models one core: the `UmManager`, the blocking part of its `UmInstance`s, the
proxy's `umi_id_`, and the event queue. State variables carry the names of the members
(`idle_umi_queue`, `inactive_umi_map`, ...; the maps are modelled by their key sets, the
instances they own being the keys). `tasks` holds the spawned events (a `Start`, `Halt`
or `Yield` call, the activation of a saved context, an outgoing packet), `cpu` is the
instance whose guest is executing, `phase` how far a client has brought an instance,
`fault` the first failed assertion, abort or undefined behaviour, after which nothing
happens.

Each action is one event or one hypercall, with everything it calls:

| Action | Code |
|---|---|
| `RunStart`, `RunHalt`, `RunYield`, `RunResume`, `RunOutgoing` | the spawned events: `Start` up to the guest's entry, `Halt`, `Yield`, the rest of `block_execution` and `Block`, `ProcessOutgoing` |
| `Fire`, `PacketIn` | `UmInstance::Fire`; `ProcessIncoming`, `WritePacket`, `SignalResume` |
| `Load`, `Run`, `SignalHalt`, `SignalYield` | the client calls |
| `GuestPoll`, `GuestRead`, `GuestWrite`, `GuestHalt` | the hypercalls |

`Yield` and `Halt` are operators over the values their callers have already changed
(`q`, `hm`, `act`, `ts`), since four handlers call them halfway. The `int3` of `Halt` does not
return to its caller: `process_gateway` restores the frame that `Start` or `Run` saved, so
`ReturnFromSlot` is the rest of *that* call, and whatever the caller of `Halt` had left to do
is dropped (`PacketIn` loses its packet then). `Halt` consults `QueueLength()`: external to
the source, taken as the number of events spawned and not yet run. Whether events run in
the order spawned is EbbRT's business too: the safety runs let any pending event run
next (`Fifo = FALSE`), the liveness run uses the order spawned, as starvation of one
event by others is not what it is about.

`SlotAbs.tla` says what all this is for. Its state is where each instance is (`place`:
new, waiting, in the slot, done), which guest executes, which instances may not be
preempted, and which were asked to halt. An instance moves from waiting to the slot only
if it is active and back only if it is not and its guest does not execute; the slot has one
at a time; an instance is done only if somebody asked for its halt; and from then on its
guest is not entered. `SlotPromise` is that specification under the mapping `Whereabouts`,
which makes an instance that neither the slot nor the map holds be "nowhere", a place
`SlotAbs` does not have.

Not in the model: packet contents (only whether a packet carries payload), the wake-up
time (a timer goes off at or after it, or, with the liberty `EarlyTimer`, too early: its
duration is cut to microseconds, the time it is compared with is not), blocking hypercalls with a zero timeout (they return
at once), `Print` and counters, the checkpoint and page faults (they are in `UmMemory`).

### Clients

The calls of clients and what they do beyond the protocol are parameters. `Calls` says
which calls are made; `Liberties` names the misuses: halting an instance whose `Start` has
not run, calling `SignalHalt` on an empty slot, halting twice, calling `Run` on a busy
slot, and `CallsAfterHalt`, a guest that makes hypercalls after its halt returned to it; and
what else may happen: `GuestHalt`, the guest's own halt, and `EarlyTimer`. The passing runs
exclude the misuses, which fail assertions of the code (UmManager.cc:674, 162, 712, and 148
for a guest that polls while the slot is halting) or never end (two halts wait for each other). The hypercalls
themselves check nothing of this. A guest that is given control back after it asked for its
halt is taken to spin, as Solo5's exit does (external to src/): the action `Guest` says so, once.

The guest's own halt is no misuse: `slot_safety` has it, and nothing that is wanted for safety
fails. But it need not complete (finding 1), so `slot_live` leaves it out: its halts are
those that clients ask for, which come between events and so never return to a guest.

### Runs

| Run | What it asks | Bounds |
|---|---|---|
| `slot_safety` | `Load` and `Run` mixed, yields, client and guest halts, early timers, events in any order: the inductive invariant `SlotInv` (of which queue = map and proxy = slot are parts) and what it is for (no assertion fails, slot = cpu, each accepted instance boots once, one wake-up each), halts are remembered, and the slot keeps the promise of `SlotAbs` | 3 instances are the fewest with an occupant, a target and one that is skipped; 2 events pending when a client or guest adds one; 1 packet per queue |
| `slot_live` | halts that clients ask for complete, the occupant wakes, an empty slot is filled, the timer is armed while an active occupant sleeps | 2 instances, 2 packets that the instance has not read, events in order, timers on time, no `GuestHalt` |
| `slot_guest_halt` | a halt comes to an end, for a guest that halts itself (violated) | 1 instance |

`MaxTasks` bounds only the events that guests and clients add (`SignalYield`, `GuestWrite`);
events the manager spawns itself are never cut off. `MaxRecv` bounds unread packets. The
runs switch TLC's deadlock check off because the core may stop: every instance may be done, and
after a fault nothing runs.

### Fairness

`FairSpec` asks that the event loop goes on running events while no guest executes
(`WF RunTask`), that an armed timer goes off (`WF TimerInterrupt`), and that an executing
guest goes on making hypercalls until it polls or asks for its halt (`WF Guest`). Nothing is
assumed of when clients call and packets arrive, but for one thing that `MaxRecv` assumes of the
network: each packet for a halting occupant activates its context, and `Halt`, which sees that
event pending, respawns itself; the occupant, which no longer reads, is sent at most `MaxRecv` of
them in the model. A stream of packets that never ends, each at the right moment, could postpone
the halt for ever: `HaltCompletes` does not speak of that.

### Findings

1. A guest that halts while an event is pending, say a packet it wrote just before, never
   leaves the slot, and its core runs no event any more: `Halt` only spawns itself and returns to
   the guest, which spins (`slot_guest_halt`). UmManager.h:88 says "Immediately halt the active
   instance".

Remarks without a run. Two halt requests for one instance do not end either: they spawn two
`Halt` events, each of which sees the other pending and respawns itself (`Liberties =
{"HaltTwice"}` in `UmSlotGuestHalt.cfg` shows it). An instance swapped out while inactive is
skipped by `Yield`
(UmManager.cc:334), so data without a payload for the proxy to see (an acknowledgement, say)
does not wake it, though umm-solo5.cc:8 speaks of blocking until I/O is possible; a flagged
instance that waits inactive is not loaded, and so not halted, even when the slot is free,
though UmManager.h:91 promises "the next opportunity". A packet is charged to the instance
loaded when it is processed, not to the one that wrote it. `Run` aborts on a slot that is
not empty, while UmManager.h:78 speaks of queueing. `Run` spawns no `Yield` when it returns:
instances that were queued meanwhile wait for the next client call.

## UmMemory

`AddressSpaces.tla` states the promise: every instance and every snapshot has a memory of its
own; an instance starts with the image or with what a snapshot holds, only its own stores
change its memory, and a snapshot never changes. `UmMemory.tla` models how the code keeps it,
and its property `PrivateMemories` is that specification under a refinement mapping: what an
owner finds in a page is what the frame its table maps contains, or the image if it maps none.

State: `table`, the leaf entries (`frame`, `rw`, `dirty`) of the page table in the `UmPth` of
each instance and each snapshot (its *owner*); `root`, whether `UmPth::root_` is set, which is
not the case for an instance made from the ELF image; `slot`, whose table hangs off each core's PML4
slot entry; `tlb`, the translations a core has cached; `mem`, what frames and pages of the
image contain; `allocated`, the page allocator's side; `life` and `snap_addr`, where clients
are. `lost` is a history variable: frames whose last table is gone and that nobody frees.

| Action | Code |
|---|---|
| `Boot`, `Deploy` | `UmInstance(sv)` for an SV from the ELF image and from a snapshot: `UmSV` copy, `UmPth::operator=`, `walkPgTblCOW` |
| `slot_load_instance` | of the same name: the root is installed, or left for the first fault |
| `SwapOut`, `Halt` | `slot_unload_instance` from `Yield`, and when the instance halts: the entry is cleared, the TLB flushed |
| `PageFault` | `process_pagefault` with `GetBackingPage`, `mapIntoPgTbl` and `invlpg` |
| `SetCheckpoint`, `Checkpoint` | `SetCheckpoint`; `process_checkpoint`, `copyInPages`, `walkPgTblCopyDirtyCOW` |
| `Destroy` | `~UmPth`, `freePageTable` |
| `Store`, `Cache`, `Evict` | the processor, external to src/: a store sets the dirty bit of the entry, a walk may fill the TLB at any time, and what is cached may be dropped at any time |

Cores interleave, each action being one handler; a page fault on one core may fall between
any two steps of another.

What is taken for granted, because it lies outside src/ or is stated by the code: guests do not
store to .text and .rodata (`GetBackingPage` stops the core if they do); kernel code on behalf
of a guest obeys the write bit (CR0.WP); clients keep a snapshot until no table shares its
pages (`InUse`, since there is no reference count: the action `Destroy` has this guard and
`SharedHasOwner` says what it protects); a checkpoint is reached once per instance, by an
instance with a dirty page; an instance leaves the slot only after the slot has a root, which
the code asserts; frames do not run out (`GetBackingPage` aborts).

`SwapBooted` says whether instances booted from the image may be swapped out. The code allows
it, and then they lose their memory: run `core_swap_booted`, below. With it, `PrivateMemories`
fails, everything else holds, and the proofs say so: only the refinement and
`RemapInvisible` have the premise `~SwapBooted`.

The refinement alone would let a fault or a copy that changed a page pass for a store of the
instance: `RemapInvisible` closes that gap. Whenever the frame behind a page changes while its
owner lives, the page's contents do not.

### Runs

| Run | What it asks | Bounds |
|---|---|---|
| `memory_chain` | one writer per frame, every shared page has a living owner, frames accounted for, TLB coherent, `PrivateMemories` | 1 core, 2 instances and 2 snapshots (a snapshot of an instance made from a snapshot), 2 writable pages, 4 frames, 2 values |
| `memory_cores` | the inductive invariant `MemInv` and `RemapInvisible`, with two cores | 2 cores, 2 instances, 1 snapshot, one writable and one image page, 4 frames |

Two writable pages tell apart what is copied, shared and skipped in one checkpoint; two values
tell a private page from a shared one. Where frames run short the guest waits in the model, so
runs with few frames cut behaviours off but invent none. The symmetry of frames, owners and
cores is sound: the properties are safety properties that name none of them. Deadlock is not
checked because with all frames lost or used the model, unlike the code, stops.

A remark without a run: UmInstance.cc:309 says that only dirty pages are freed, while every
page mapped writable is, and rightly so: otherwise pages that were only read would leak.

## UmPgTbl

`UmPgTbl.tla` models one core with page tables as they are: `heap.tables` maps each table page
to its entries, `heap.data` and `heap.mem` are the other pages given out and what they contain,
`root_` is the member of `UmPth`, `pml4` the core's PML4 entry of the slot. A walker goes from a heap
and a root to a heap and a root. Since tables have three levels, the recursion of the code is
unrolled: `walkPdpt` calls `walkDir`, which calls `walkTbl`, each a loop over the entries of
one table (`EachEntry`), and so for `freePageTable`, `freeDir` and `freeTbl`, and for the traversals. The two
copying walkers (which differ in the leaf only, `CopyLeaf`) extend the copy while they walk the
source, each page by `mapIntoPgTbl`, which allocates tables on the way down (`Descend`). The
code enters a new table into its parent after filling it; nothing looks at it between. The
counters are in `UmPgTblCounters`, as recursive as in the code. The actions are those of
`UmMemory` without the TLB. The allocator gives out `Null` when it has nothing left, and then the code
stops the core (`kbugon`): steps in which that happens are not taken (`RanOut`).

`FlatTables` is the specification `UmMemory` under a refinement mapping: a table is the map
from pages to what the processor's walk finds, an instance's table being the one in the
PML4 entry while it is loaded, and `lost` the data pages that no table may write. So the
one-line operators of `UmMemory` (`mapIntoPgTbl`, `walkPgTblCOW`, `walkPgTblCopyDirtyCOW`,
`freePageTable`), about which `UmMemoryProofs` is, are what the walkers compute.

| Run | What it asks | Bounds |
|---|---|---|
| `page_tables` | `FlatTables`; types, and tables are trees that no two address spaces share; traversals visit what the processor finds; the two families of counters agree; no table is lost but with a booted instance; `CountOwnedPages` is what destruction gives back | 1 instance, 2 snapshots; 3 levels with 2 entries per table (512 in the code); 3 pages: two writable with a common directory, one of the image in tables of its own; 18 pages of memory |

The instance may be booted, checkpointed, destroyed, deployed from the snapshot, checkpointed
again: with 18 pages a second snapshot that shares one page with the first and owns the other still
fits, and an instance made from it, and tables lost with a booted instance.
`Shape`, the view under which TLC compares states, forgets the names of pages and what free pages
contain; the allocator's choice is not otherwise significant, and new pages are always written
first. Deadlock is not checked, since memory may be exhausted by lost tables.

Left out: the MAPS bit and large pages (never set; the walkers assert level 1), the
execute-disable bit, the printers, the deep copy under `NOCOW`, and the software translations
that nothing calls (`getPhysAddrRec`, `getPhysAddrLamb`: they overwrite the frame with what
`injectOffset` returns, whose bits above the offset are uninitialized, so a caller would not get
an address).

One hazard is out of this model's sight: the code keeps the indices of a walk in one array that
all levels overwrite, and puts the address of a leaf together from it
(`reconstructLinAddrPgFromOffsets`), where the model passes the tuple from level to level by value. That
no level reads an index of the leaf before it before writing its own was checked by reading
(UmPgTblMgr.cc:1066, 1103, 1156).

## UmNat

`UmNat.tla` models the proxy's address translation on all cores: `ProxyRoot` (the ports left,
`port_set`, and `master_port_map`) and each core's `UmProxy` (`umi_id`, `port_map_cache`,
`host_src_port_map_cache`). A connection is what the code calls an internal port: instance, core, port of
the guest. The maps are boost bimaps: `insert` does nothing when either side has an entry.
`sent`, the ports and connections of packets that went out, `host_conn`, the instance that
answers the host's connection, and `refused`, the ports on whose registration for an instance the
proxy reported a conflict, are history variables for the properties;
`outgoing` and `remote` are the spawned events.

| Action | Code |
|---|---|
| `SetActiveInstance`, `RemoveInstanceState` | of the same names, called by the manager on load and `Halt` |
| `RegisterPort` | `UmInstance::RegisterPort`, `RegisterInternalPort` |
| `GuestWrite`, `ProcessOutgoing` | `solo5_hypercall_netwrite`, and the event it spawns: `nat_masquerade_out`, `swizzle_port_out`, `SetupExternalPortMapping`, `allocate_port` |
| `Arrive`, `PassedOn` | `ProcessIncoming` from outside, when the packet arrives and after `SpawnRemote`: `external_portmap_lookup`, the decision to drop, pass on or deliver |
| `HostConnect`, `HostClose` | `ProcessIncoming` of a SYN from the host, with the implicit mapping; the host's own side |

An event takes the root's lock at most once with an effect, and touches nothing else that
another core does, so it is one step. Packets arrive on any core, in any order, any number
of times, also for ports not handed out. Then the code, built as the Makefile does with
assertions off (Makefile.common:34), caches the null mapping on that core for good, and answers
that arrive there later are dropped although the port has been handed out since:
`ReplyReachesWriter` states what remains true, namely that they reach nobody else.

A client may register any host port for its instance, also one that another instance has: then
`RegisterInternalPort` prints an error and leaves the mapping alone (the `kabort` is commented out),
but `UmInstance::RegisterPort` has no way to know and enters the port in `src_ports_` all the
same. When that instance halts, `RemoveInstanceState` unmaps the port by its number, whoever has it
by then. `HostConnectionKept` states what remains true: a host connection keeps its
instance until an instance halts that was `refused` the port. Without such conflicts it keeps it for
as long as it lives.

Port 0 is what `allocate_port` answers when no port is left: connections then share it, each
core keeping its own in its cache, and the properties exempt it, except that packets for it do
not travel between cores for ever either. A mapping made implicitly is not removed when its instance
halts, as UmProxy.cc:352 does not add it to `src_ports_`: the host's next connection from that
port is dropped. The model does the same; `HostConnectionKept` speaks of living instances.

| Run | What it asks | Bounds |
|---|---|---|
| `nat` | the inductive invariant `NatInv`; ports are unique; replies reach their writers; caches agree; packets are passed on once; host connections keep their instance, but for conflicts | 2 instances on one core and 1 on another, one guest port each, so 3 connections for 2 ports of the machine: one gets port 0; 2 host ports, which instances register also when they are another's; `OneDirection` |

The bound `OneDirection`: connections to the outside and connections from the host share only
which instance is active and which have halted, so the run explores states in which one kind or
the other has left a trace, not both; the proofs below have no bounds, this one included.
All properties are safety properties; the symmetry of instances that share a core, and of host
ports, is sound. Deadlock is not checked: when all instances are gone the core may rest.

## UmCore

`UmCore.tla` puts slot and memory together: it extends `UmSlot` and instantiates `UmMemory` with
one core, whose `slot` is `active_umi`. Each handler of `UmSlot` is one step together with
`Unload`, which says what the step does to memory: every instance that leaves the slot
(`Leavers`: the old occupant, and one that `Yield` loaded only to halt it) goes through
`slot_unload_instance`, with the loss of its table if that hung off the PML4 entry only; the TLB
is flushed; an instance that halted is handed back. While a guest executes it stores, faults
and takes its checkpoint (`Accesses`, the actions of `UmMemory`), and it makes a hypercall only
once the page it executes is mapped (`Hypercall`), as on the machine. Clients make instances from
the image or a snapshot before they submit them (`Make`), and destroy those that come back
(`Destroy`, with the destructor's stop of the timer): the name then stands for a new instance, so
a stale timer, context, or translation of its predecessor would meet it.

| Run | What it asks | Bounds |
|---|---|---|
| `core` | `CoreInv`, the inductive invariant; `MemoryFollowsSlot`: the assertion of `slot_unload_instance` that the slot has a root never fails, and an instance's memory changes only while its own guest executes; `GuestsKeepMemory`: the refinement of `AddressSpaces` under the manager's scheduling | 2 instances, made anew any number of times; 1 snapshot; a code and a data page; 3 frames: the copies of the data page of both instances and of the snapshot; 2 values; events in order, 1 added event, 1 packet |
| `core_swap_booted` | an instance that yields keeps its memory (violated) | the same, clients submit whatever they like |

`BootAlone` is how the tests use the system: an instance booted from the image gets a core
to itself (`generateBaseEnvtSnapshot`), everything else is deployed from snapshots. `MaySubmit`
and `MaySwap` restrict the clients accordingly; the run `core_swap_booted` lifts that.
Only stores fill the TLB here (which page walks may do it is `UmMemory`'s business), and halts come
without the liberties, which `slot_safety` has. The view `Shape` leaves out what free and
lost frames contain: a free one is filled by the fault or checkpoint that takes it, and no table
maps a lost one. The
symmetry of instances, frames and snapshots is sound for these safety properties. Deadlock is not
checked, since all may be done and the memory used up.

### Findings

2. An instance booted from the image that has written to the network may be preempted;
   when it yields, its page table is cleared from the PML4 entry, the only pointer to it: its
   memory and its frames are lost (`core_swap_booted`).

## UmSession

`UmSession.tla` models one `InvocationSession`: the handlers that EbbRT's TCP stack calls, the
events they spawn, the five promises (`fired` counts how often each is resolved; EbbRT's
promises may be resolved once), the statistics (`exec`), and the continuations that the clients in
warm_hot_test.cc attach: a cold client sends its code and then runs it, a warm client runs
at once, an init client only sends code. The connection and the guest's HTTP server are external: a
reliable stream of replies, each in one segment, that either side may end at any moment and that may
be reset, with the loss of what was on its way. A reply is what `Receive` tells apart: the status
line, and whether the text from the first "{" on is `{"OK":true}`. Without a "{" `substr` throws
(`fault`).

| Action | Code |
|---|---|
| `Connected`, `Close`, `Abort`, `Receive` | the handlers of the same names |
| `RunConnect` | `regConnect` |
| `RunConnected`, `RunInitialized`, `RunClosed`, `RunAborted` | the spawned events, with the continuations `regSendInitOnConnect`, `regSendRunOnConnect`, `regSendRunOnInit`, `regHaltOnClose` |
| `RunHalt` | the client's spawned `Halt` |
| `Answer`, `Shut` | the guest's server, external |

| Run | What it asks | Bounds |
|---|---|---|
| `session` | the inductive invariant `SessionInv`; every reply received completes an init or a run, and not both; promises are resolved once, but for `aborted` after a failure; no function runs unless its code was accepted, and none twice; every session ends with a halt or an abort, or an accepted init, unless `Receive` threw | none: a session has at most two requests; three kinds of client; events in any order; an init is answered with `{"OK":true}` or an error, a run with anything, either also with what makes `Receive` throw |
| `session_outcome` | a session that disconnected because its request failed says so in its statistics (violated) | a cold and a warm client |

Fairness (`FairSpec`): the event loop runs events, the stack delivers what has arrived or resets the
connection (a connection that nobody answers is aborted), the guest answers a request and closes
after the session's FIN. Nothing makes a reset or an early close happen. Deadlock is not checked: a session ends.

### Findings

3. A failed invocation is recorded as a success (`session_outcome`).

## UmElf

`UmElf.tla` is the section loop of `createSVFromElf`, one section per step, then the `usr` region, and
then first faults on pages: `GetRegionOfAddr`, `GetOffset` and `GetBackingPage`. The region being made
is the variable `reg`; while there is one (`Making`), the loop is in its inner loop, which includes
specialty sections (`IncludeSection`) until another one ends it (`AddRegion`). Addresses and offsets are numbers; a byte of the file is its offset, cleared
memory is 0, so that a page from the wrong place shows.

| Run | What it asks | Bounds |
|---|---|---|
| `elf` | each loaded address is in exactly one region, with its section's permission, and no assertion fails; what a page contains after its first fault is what the linker put there | 432 images, with pages of 4 bytes: .rodata ends at, before or after a page's end; no, one or two specialty sections behind it, empty or not, aligned or not; .data with its file offset shifted by a page or not, with a specialty section behind it or not; .bss of two sizes; 11 pages; 2 faults |

The loader asserts that sections begin at pages (UmLoader.cc:89) and relies, without checking, on more;
`LaidOut` says on what: loaded sections come in the order of their addresses, a specialty
section continues the one in front of it, what is read-only is `.text` or `.rodata` and at
a page in the file (the fault handler spins, or asserts, otherwise: UmInstance.cc:286, UmInstance.cc:294),
`.bss` is the one section without contents (UmInstance.cc:325) and the last one, and the last
section of all is not loaded (otherwise the search for specialty sections reads a
header behind the last, UmLoader.cc:109). Images that are not laid out like this are outside the
model. Two faults suffice, since a fault reads the regions only. Nothing happens after the
last fault: deadlock is not checked.

`valid_address` excludes the slot's last byte (`<` in UmManager.h:62) while the region `usr` includes
it (UmLoader.cc:141): only a fault on that very byte, first on its page, would be refused.

## Proofs

The only assumptions are those on the constants: `SlotAssumption`, `MemoryAssumption`,
`PgTblAssumption`, `FrameAssumption` (memory is finite, so that pages can be counted),
`NatAssumption`, `SessionAssumption`, `CoreAssumption` and `ElfAssumption`, which contains
`LaidOut`, what the loader relies on in an image. Where a theorem has a premise
(`Protocol`, `OneHalt`, `~SwapBooted`, `Consistent`, `BootAlone`), it speaks of clients or
guests, and is discussed below with what happens without it.

Only model-checked:

- the liveness properties `HaltCompletes`, `OccupantWakes`, `EmptySlotIsFilled` and
  `EverySessionEnds`: they rest on fairness, which is out of the prover's reach;
- `CountersAgree`: the counters are recursive operators, about which the provers can say
  nothing, and their sums are counted, an induction over data.

### The slot

`UmSlotProofs` proves `TypeCorrect`, `Spec => []TypeOK`, for every set of instances, all
liberties and bounds. `TypeOK` is inductive by itself. The proof has one lemma for each
kind of step (`RunTaskType`, `InterruptType`, `ClientType`, `GuestType`), which rest on one
lemma each for the operators several handlers share (`KickType`, `HaltType`, `YieldType`)
and on facts about sequences (`RemoveAtProperties`, `GetPosInDomain`, `QueueType`).

It also proves the safety invariants for every number of instances and pending
events, under the premise `Protocol`: clients halt only started instances, and only while
some instance is loaded, and call `Run` on an empty slot only, and a guest makes no hypercall
after its halt. The premise is necessary: the four misuses fail assertions of `Start`
(UmManager.cc:674), `SignalHalt` (UmManager.cc:162), `Run` (UmManager.cc:712) and `Block`
(UmManager.cc:148). Halting twice, the guest's own halt and early
timers are allowed.

| Theorem | Property |
|---|---|
| `SlotInvariance` | `SlotInv`, the inductive invariant (module `UmSlotInv`) |
| `NoAssertionFails` | `NoFault` |
| `QueueAndMapAgree` | `QueueMatchesMap` |
| `SlotAndCpuAgree` | `SlotMatchesCpu` |
| `ProxyIsCurrent` | `ProxyFollowsSlot` |
| `WakeupsMatch` | `OneWakeupEach` |
| `BootsOnce` | `BootOnce` |

The argument. None of these is inductive alone. That `Start` finds its slot "loaded" and
the instance in it depends on the one pending `Start` event naming the occupant
(`StartInv`), which depends on `Load` spawning it exactly when the instance enters the slot
with its promise unanswered (`PhaseInv`). That a saved context is activated once, and for an
instance that still exists, depends on `ResumeInv`: exactly one pending activation for each
instance in service that is neither parked nor executing; that `Yield` finds an instance to
swap in, and the proxy an instance to charge, on `EventInv`. `SlotInv` is the conjunction.
The part about events is stated of a sequence `ts` rather than of the variable `tasks`,
because `Halt` and `Yield` are called in the middle of handlers: `HaltSafe` and `YieldSafe`
are proved once, of the values their callers pass, and cited by every handler that
reaches them. Then there is one lemma for each event, call and hypercall, and
`SlotInvariance` puts them together.

`UmSlotProofs` goes on to what needs more than one state.

| Theorem | Property |
|---|---|
| `HaltInvariance` | `HaltInv`, on top of `SlotInv` |
| `HaltsAreRemembered` | `HaltRemembered` |
| `SlotKeepsPromise` | `SlotPromise`, the refinement of `SlotAbs` |
| `SleepersAreArmed` | `ArmedWhileAsleep`, if timers are not early |

A halt that was asked for is flagged, under way or done (`FlagInv`); while it is under way one
`Halt` event is pending and no second one (`HaltingInv`), since a second one would respawn
the first for ever. That needs the premise `OneHalt`: nobody halts an instance twice,
and such a second request never ends (see `UmSlot`). Every step moves instances between slot,
map and client as `SlotAbs` allows: the action lemmas state it as `MoveOK` and `CpuOK`, conditions on a state and its
successor in terms of the model's own variables, and `MovePromised`, `ExecutionPromised` map
those to the steps of `SlotAbs` once. `SleepersAreArmed` excludes the liberty
`EarlyTimer`: a timer that goes off early leaves its instance asleep without one.

### The memory

`UmMemoryProofs` proves `MemInv` (module `UmMemoryInv`) inductive, for any number of cores,
owners, pages and frames, and from it the invariants and the refinement.

| Theorem | Property |
|---|---|
| `MemoryInvariance` | `MemInv`, the inductive invariant, types included |
| `WritersAlone` | `OneWriter` |
| `SharingIsSafe` | `SharedHasOwner` |
| `FramesAreAccounted` | `FramesAccounted` |
| `TlbIsCoherent` | `TlbCoherent` |
| `MemoriesArePrivate` | `PrivateMemories`, if booted instances are not swapped out |
| `RemapsAreInvisible` | `RemapInvisible`, if booted instances are not swapped out |

The argument. Ownership is the write bit: a frame is freed by the table that may write it
(`freePageTableLamb`), so nothing may be writable twice (`OneWriter`), what is read-only needs
a snapshot that owns it (`SharedHasOwner`), and then what a table maps is allocated
(`MappedAllocated`), so that a new frame is mapped by nobody. `EntryInv` says what entries there are:
image pages only for pages that are not writable, shared frames always dirty, nothing clean
in a snapshot. `CleanIsImage` is why a checkpoint may skip clean pages: they still contain what
the image does. Two lemmas, `PageFaultEffect` and `CheckpointEffect`, say once what those handlers
do to tables and memory; invariance and refinement both cite them. For the refinement there is one lemma for each
action that is a step of `AddressSpaces` (`BootRefines`, `DeployRefines`, `StoreRefines`,
`CheckpointRefines`, `DestroyRefines`, `UnloadRefines`); page faults, which allocate, copy and
remap, are shown to be invisible (`PageFaultViews`).

### The page tables

`UmPgTblProofs` proves `PgInv` (module `UmPgTblInv`) inductive, for any number of address spaces, pages,
and entries per table.

| Theorem | Property |
|---|---|
| `PgInvHolds` | `PgInv`, the inductive invariant, types included |
| `TablesAreTreesHolds` | `TablesAreTrees` |
| `TraversalMeetsWalkHolds` | `TraversalMeetsWalk` |
| `TablesKeptHolds` | `TablesKept` |
| `OwnedPagesComeBackHolds` | `OwnedPagesComeBack` |
| `FlatInvHolds` | `FlatInv`, on top of `PgInv` |
| `FlatTablesHolds` | `FlatTables`, the refinement of `UmMemory` |
| `LeavesAreSafe` | `OneWriter`, `SharedHasOwner` and `FramesAccounted`, of these tables |
| `TablesKeepMemory` | `PrivateMemories` of these tables, if booted instances are not swapped out |

The argument. That tables are trees cannot be carried from step to step by comparing walks with
each other: while a walker works, tables hang together that no root reaches yet, and a lost table
still points somewhere. `Forest` says instead that every table kept can be given a place, that is an
owner, a level and an address, such that entries of a table point to kept tables one level below at
the address they extend (`Trees`). Two walks that meet in a table meet in its place, so they agree on
owner and path (`TreesAreTrees`). A new table gets the place it is linked from
(`LinkForest`), and mapping a page leaves the walks of every other page where they were (`MapOK`); a freed
table loses its place (`ForestWithout`). The loops are
handled by induction on the number of entries visited, over the naturals: `Copied` says what a copy has
after the leaves of a set `D` of addresses have been visited, and each turn of each of the three loops adds
the addresses below its entry; `Frees` says that what a loop has freed so far is what hangs below the entries
it has passed (`Hanging`), which needs the accessed bit of each entry. `WritersOK`, that a page that may be
written belongs to one address of one space, is what keeps freeing the pages of one table from freeing
another's. From these follow, once, the effects of the operations on what the processor finds: `DeployEffect`,
`CheckpointEffect`, `DestroyEffect`, `StoreEffect`, `FaultEffect`.

The refinement. `FlatTables` needs two facts more, which `FlatInv` adds: every root has a page below it
(`slot_unload_instance` asserts its root, `UmMemory` asks for a page), and nobody writes the image. There is one
lemma for each action (`StoreFlat`, `FaultFlat`, `DeployFlat`, `CheckpointFlat`, `DestroyFlat`, ...): the
effect of the walkers on every walk is that of `UmMemory`'s operator on the map, and the data pages that no
table may write change as `lost` does (`FreeStepFlat`, `FaultStepFlat`, `CopyStepFlat`). A checkpoint gives the
copied pages names one by one, as the loops reach them; `ClonedFlat` shows that they are the injection `fresh` of
`UmMemory`'s `Checkpoint`. `TablesKeptHolds` rests on two facts: a walker links
every table it makes (`GrownKeeps`), and a table no root reaches any more has been freed (`FreedKeeps`).
For `OwnedPagesComeBackHolds`, `OwnedLeaves` is a bijection between the pages a destruction frees and the
leaves that `CountOwnedPages` counts: it is one since `WritersOK` lets a page hang below one address only.
That is the one place where memory has to be finite.

`LeavesAreSafe` and `TablesKeepMemory` then cost little: `UmMemoryProofs`, instantiated with these tables,
shows its invariant and its refinement of `AddressSpaces` for every step that is one of
`UmMemory`. `TablesKeepMemory` closes the chain from the recursive walkers to memories that guests have to
themselves.

### The NAT

`UmNatProofs` proves `NatInv` (module `UmNatInv`) inductive for any number of cores, instances
and ports, and from it the properties of the run.

| Theorem | Property |
|---|---|
| `NatInvariance` | `NatInv`, the inductive invariant, types included |
| `PortsAreUnique` | `PortPerConnection` |
| `RepliesReachWriters` | `ReplyReachesWriter` |
| `CachesNeverStale` | `CachesAgree` |
| `PassedOnAtMostOnce` | `PassedOnOnce` |
| `HostConnectionsAreKept` | `HostConnectionKept` |

The argument. The master map is one-to-one and has nothing for ports that may still be
allocated (`MasterInv`), so an entry, once made, is never changed: that is what makes caches
without invalidation right (`CacheInv`). Port 0 escapes it, as the map's entry for it is whoever
came first while other cores cache their own; `CacheInv` says that such an entry belongs to
the core that has it, and `PacketInv` that a packet passed on is on the core the master map
names, and both together stop it there. For the host's side, `HostInv` says that a port which a
living instance registered is mapped to it, or was refused to it, or was taken away by the halt of an
instance that had been refused it: so what `RemoveInstanceState` erases was the halting instance's
own, or this halt is one that `RefusedHalted` speaks of from now on. Refusals are not forgotten
(`RefusedHaltedStays`). That the lowest of the free ports exists (`FirstIsMember`) rests on the
well-foundedness of `<` on the naturals.

### The session

`UmSessionProofs` proves `SessionInv` (module `UmSessionInv`) inductive, for every set of clients
and of replies, those included that make `Receive` throw or contradict themselves.

| Theorem | Property |
|---|---|
| `SessionInvariance` | `SessionInv`, the inductive invariant |
| `AllRepliesAccounted` | `RepliesAccounted` |
| `PromisesOnce` | `HooksOnce` |
| `RunsOnlyAfterInit` | `RunsOnceAfterInit`, if replies to an init are consistent |

The argument. There is one exchange under way at a time: its token is the spawned event that
will send a request, or the request with the server, or its reply on the wire, or the spawned
event the reply leads to. What is where decides which promises are still to be resolved.
`Consistent` excludes a reply to an init whose status line is an error and whose text is
`{"OK":true}`: `Receive` resolves `aborted` for it and then takes the init for completed
(the fall-through of finding 3), so that the function is sent to a guest that refused the code.

### The core

`UmCoreProofs` proves the properties of `UmCore` for any number of instances, snapshots, pages and
frames, from the theorems about its parts.

| Theorem | Property |
|---|---|
| `CoreInvariance` | `CoreInv`, the inductive invariant (module `UmCoreInv`) |
| `TablesFollowTheSlot` | `MemoryFollowsSlot` |
| `YieldersKeepMemory` | `YieldKeepsMemory` |
| `GuestMemoriesArePrivate` | `GuestsKeepMemory`, the refinement of `AddressSpaces` |

Premises: `Protocol`, as for the slot, and `BootAlone`, without which `core_swap_booted` refutes
`YieldKeepsMemory`.

The argument. `CoreInv` is `SlotInv` and `MemInv` and what relates them: the manager's phase of an
instance and its life in memory agree (`LifeAgrees`), so that what is submitted can be loaded and
what is destroyed is not on the core; an instance that has executed has its code page
mapped (`CodeFetched`), so that it has a root to unload; an instance whose table only
the slot's entry has is alone on the core and nothing pending will make it yield (`BootedIsAlone`).
The handlers of `UmSlot` are cut down to what memory can tell apart: nobody moves, the occupant
halts, instances are swapped, or one is submitted (`SlotMoves`, proved of each
handler in `HandlersMove`), and a guest leaves the processor only by a hypercall (`CpuMoves`). From
these alone follow who leaves the slot, and with what (`Served`, `Finishers`), that a table is lost
only with an instance that halts (`OnlyTheHaltedLose`), and that `Unload`, which may
unload one instance and load the next in one step, preserves `MemInv` and is a
`Discard` of `AddressSpaces` or nothing (`MemoryFollows`, `UnloadRefinesSpaces`). What clients and guests do
to memory are actions of `UmMemory`, so its step lemmas, instantiated as `M`, say the rest
(`ActionsRefine`).

### The loader

`UmElfProofs` proves the properties of `UmElf` for every image that is `LaidOut`, with any number of
sections, and for every page size and slot.

| Theorem | Property |
|---|---|
| `ElfInvariance` | `ElfInv`, the inductive invariant (module `UmElfInv`) |
| `SectionsBecomeRegions` | `RegionsMatchSections` |
| `PagesAreAsLinked` | `LoadedAsLinked` |

The argument. `RegionsMatchSections` says nothing before the loop is over. `ElfInv` says of every turn
of it what the regions made so far, with the one being made, have to do with the sections
seen so far: the regions are in order and begin at pages; every section seen is held by a
region (`SectionsHeld`), each region ends where a section does (`RegionsEnd`), so that the next
section is behind all of them; the region being made goes on as the last section did
(`InnerLoop`), so that the next specialty section may be included; and the outer loop never
meets a specialty section (`OuterLoop`), which need not begin at a page. That `.bss` is last
makes `next_page_ptr` the first page behind everything (`BehindBss`). `Include` is proved once, for a region
that begins and for one that grows. For a fault: regions begin at pages and do not overlap, so the
region that has one address of a page has the whole page as far as anything was linked
there (`PageInRegion`, `InOneRegion`), and its bytes are those of each section it holds (`PageOfLinked`). About
pages the provers are given quotient and remainder only; `DivModUnique` and the lemmas around it
are the arithmetic that is needed. TLC finds `ElfInv` to hold of the images of the run `elf`.

## Not modelled

Rewriting of packet headers and checksums (they keep no state); descriptor tables, model-specific
registers and the switch of stacks (`UmSyscall`, `syscall.S`: written once, or taken from the
loaded instance); registers (a saved context is only "parked" or "activated"); boot arguments
(`SetArguments`); the checks of an ELF file's identification and the symbol lookup; counters,
printing and constants. Of `InvocationSession`, `reset_pcb_internal`, which overwrites
the connection object and belongs to the stack. Clients that call `Halt` themselves, which halts
whichever instance is loaded: the models' clients name the instance (`SignalHalt`), as the
tests that call `Halt` keep one instance per core.
