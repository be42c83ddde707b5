------------------------------ MODULE UmMemory ------------------------------
(***************************************************************************)
(* The memory of instances and snapshots: page tables (UmPgTblMgr.cc,      *)
(* UmPth.cc), the copy of a state vector (UmSV.cc), page faults, the       *)
(* checkpoint and the slot's root (UmManager.cc), backing pages            *)
(* (UmInstance.cc), and the processors' TLBs.                              *)
(*                                                                         *)
(* A page table is a map from the pages of the slot to its leaf entries;   *)
(* the interior tables, which only hold the leaves, are left out.  A page  *)
(* of memory holds one abstract value.  Pages that are not writable are    *)
(* mapped straight from the ELF image: their frame is the page itself.     *)
(***************************************************************************)
CONSTANTS
    Core,       \* processor cores, each with one slot and one TLB
    Inst,       \* instances (a UmInstance; an index may be used again)
    Snap,       \* snapshots (a UmSV made by a checkpoint)
    NoInst,     \* an empty slot
    Page,       \* the pages of the slot
    Writable,   \* those in writable regions (.data, .bss, usr)
    Frame,      \* physical frames of the page allocator
    NoFrame,    \* an entry that maps nothing
    Val,        \* what a page may contain
    Image,      \* what each page contains in the ELF image (zero for .bss and usr)
    SwapBooted  \* TRUE: instances booted from the ELF image may be swapped out

Owner == Inst \cup Snap
Elf == Page \ Writable

ASSUME MemoryAssumption ==
    /\ Inst \cap Snap = {}
    /\ NoInst \notin Inst
    /\ Writable \subseteq Page
    /\ Frame \cap Page = {}
    /\ NoFrame \notin Frame \cup Page
    /\ Image \in [Page -> Val]
    /\ SwapBooted \in BOOLEAN

VARIABLES
    life,       \* of an instance or a snapshot: does it exist, has its guest halted
    root,       \* UmPth::root_ is not null
    table,      \* the leaf entries of its page table
    snap_addr,  \* of an instance: no checkpoint asked for, asked for, taken
    slot,       \* the instance whose table hangs off the core's PML4 slot entry
    tlb,        \* the translations each core has cached
    mem,        \* what frames and image pages contain
    allocated,  \* frames the page allocator has given out
    lost        \* frames allocated that no table maps and nobody will free

vars == <<life, root, table, snap_addr, slot, tlb, mem, allocated, lost>>

(***************************************************************************)
(* Page table entries and tables.                                          *)
(***************************************************************************)
Pte == [frame : Frame \cup Elf \cup {NoFrame}, rw : BOOLEAN, dirty : BOOLEAN]

Entry(f, rw, dirty) == [frame |-> f, rw |-> rw, dirty |-> dirty]
Absent == Entry(NoFrame, FALSE, FALSE)
Empty == [p \in Page |-> Absent]

exists(pte) == pte.frame # NoFrame

\* The pages that have an entry.  Every entry is made with its accessed bit set, at all
\* levels, so this is what traverseAccessedPages visits too.
Leaves(t) == {p \in Page : exists(t[p])}

mapIntoPgTbl(t, p, pte) == [t EXCEPT ![p] = pte]

\* Faulty variants of findAndSetPTECOW: the copy may write the shared page; the copy
\* is not marked dirty.
SharedWritable(pte) == Entry(pte.frame, TRUE, TRUE)
SharedClean(pte) == Entry(pte.frame, FALSE, FALSE)

\* The entry of a page shared with a snapshot: read-only, and dirty so that snapshots
\* of the copy keep it.
findAndSetPTECOW(pte) == Entry(pte.frame, FALSE, TRUE)

\* The table of an instance made from a snapshot whose table is t.
walkPgTblCOW(t) ==
    [p \in Page |-> IF t[p].dirty THEN findAndSetPTECOW(t[p]) ELSE Absent]

\* The pages of table t that a checkpoint must copy, and those it may share.
\* Faulty variant: a page that is dirty is shared, even if its instance owns it.
CopyNothing(t) == {}
ToCopy(t) == {p \in Page : t[p].dirty /\ t[p].rw}

\* The table of a snapshot of t, whose owned dirty pages are copied to frames fresh.
walkPgTblCopyDirtyCOW(t, fresh) ==
    [p \in Page |-> IF p \in ToCopy(t) THEN Entry(fresh[p], TRUE, TRUE)
                    ELSE IF t[p].dirty THEN findAndSetPTECOW(t[p])
                    ELSE Absent]

\* Faulty variant of freePageTable: it frees the dirty pages only.
FreesDirty(t) == {t[p].frame : p \in {q \in Leaves(t) : t[q].rw /\ t[q].dirty}}

\* The frames freed with a table: those it may write.
freePageTable(t) == {t[p].frame : p \in {q \in Leaves(t) : t[q].rw}}

(***************************************************************************)
(* The slot.                                                               *)
(***************************************************************************)
Loaded(u) == \E c \in Core : slot[c] = u
Running(c) == slot[c] # NoInst

\* The core's PML4 slot entry exists: a root was installed, or a fault made one.  The
\* code asserts it when it unloads the slot; a guest that has run has faulted.
SlotRoot(c) == \E p \in Page : exists(table[slot[c]][p])

\* Faulty variant of FlushedAll: the cached translations survive.
FlushNothing(c) == tlb
FlushedAll(c) == [tlb EXCEPT ![c] = Empty]

\* Faulty variant of FlushedPage.
KeepPage(c, p) == tlb
FlushedPage(c, p) == [tlb EXCEPT ![c] = [@ EXCEPT ![p] = Absent]]

\* How the processor translates an access: a cached translation, else the table.
Translation(c, p) ==
    IF exists(tlb[c][p]) THEN tlb[c][p] ELSE table[slot[c]][p]

(***************************************************************************)
(* Clients: creation and destruction of instances and snapshots.           *)
(***************************************************************************)
Init ==
    /\ life = [o \in Owner |-> "none"]
    /\ root = [o \in Owner |-> FALSE]
    /\ table = [o \in Owner |-> Empty]
    /\ snap_addr = [u \in Inst |-> "unset"]
    /\ slot = [c \in Core |-> NoInst]
    /\ tlb = [c \in Core |-> Empty]
    /\ mem \in [Frame \cup Elf -> Val]
    /\ \A p \in Elf : mem[p] = Image[p]
    /\ allocated = {}
    /\ lost = {}

\* UmInstance(sv), sv made from the ELF image: its table is null.
Boot(u) ==
    /\ life[u] = "none"
    /\ life' = [life EXCEPT ![u] = "live"]
    /\ UNCHANGED <<root, table, snap_addr, slot, tlb, mem, allocated, lost>>

\* UmInstance(sv), sv a snapshot: the state vector is copied, its pages are shared.
Deploy(u, s) ==
    /\ life[u] = "none"
    /\ life[s] = "live"
    /\ life' = [life EXCEPT ![u] = "live"]
    /\ table' = [table EXCEPT ![u] = walkPgTblCOW(table[s])]
    /\ root' = [root EXCEPT ![u] = \E p \in Page : table[s][p].dirty]
    /\ UNCHANGED <<snap_addr, slot, tlb, mem, allocated, lost>>

\* The client asks for a checkpoint before the instance is loaded.
SetCheckpoint(u) ==
    /\ life[u] = "live"
    /\ ~Loaded(u)
    /\ snap_addr[u] = "unset"
    /\ snap_addr' = [snap_addr EXCEPT ![u] = "set"]
    /\ UNCHANGED <<life, root, table, slot, tlb, mem, allocated, lost>>

\* Another table maps a frame that snapshot s owns.
InUse(s) ==
    \E o \in Owner \ {s} : \E p \in Page :
        table[o][p].frame \in freePageTable(table[s])

\* The destructor of an instance that has halted, or of a snapshot no table depends on.
Destroy(o) ==
    /\ \/ o \in Inst /\ life[o] = "halted"
       \/ o \in Snap /\ life[o] = "live" /\ ~InUse(o)
    /\ life' = [life EXCEPT ![o] = "none"]
    /\ allocated' = IF root[o] THEN allocated \ freePageTable(table[o]) ELSE allocated
    /\ root' = [root EXCEPT ![o] = FALSE]
    /\ table' = [table EXCEPT ![o] = Empty]
    /\ snap_addr' = [u \in Inst |-> IF u = o THEN "unset" ELSE snap_addr[u]]
    /\ UNCHANGED <<slot, tlb, mem, lost>>

(***************************************************************************)
(* The slot's occupant changes.                                            *)
(***************************************************************************)
slot_load_instance(c, u) ==
    /\ ~Running(c)
    /\ life[u] = "live"
    /\ ~Loaded(u)
    /\ slot' = [slot EXCEPT ![c] = u]
    /\ UNCHANGED <<life, root, table, snap_addr, tlb, mem, allocated, lost>>

\* slot_unload_instance: the table stays with the instance's UmPth, if that has the
\* root; otherwise the slot entry was the only pointer to it.
slot_unload_instance(c) ==
    LET u == slot[c] IN
    /\ SlotRoot(c)
    /\ slot' = [slot EXCEPT ![c] = NoInst]
    /\ tlb' = FlushedAll(c)
    /\ IF root[u]
       THEN UNCHANGED <<table, lost>>
       ELSE /\ table' = [table EXCEPT ![u] = Empty]
            /\ lost' = lost \cup freePageTable(table[u])
    /\ UNCHANGED <<root, snap_addr, mem, allocated>>

\* The instance yields the slot and will be loaded again.
SwapOut(c) ==
    /\ Running(c)
    /\ root[slot[c]] \/ SwapBooted
    /\ slot_unload_instance(c)
    /\ UNCHANGED life

\* The instance halts: Start or Run returns it to the client.
Halt(c) ==
    /\ Running(c)
    /\ slot_unload_instance(c)
    /\ life' = [life EXCEPT ![slot[c]] = "halted"]

(***************************************************************************)
(* The guest's accesses.  A translation is cached when it is used, or      *)
(* earlier: the processor may walk the table at any time, and may drop     *)
(* what it has cached.                                                     *)
(***************************************************************************)
Cache(c, p) ==
    /\ Running(c)
    /\ ~exists(tlb[c][p])
    /\ exists(table[slot[c]][p])
    /\ tlb' = [tlb EXCEPT ![c] = [@ EXCEPT ![p] = table[slot[c]][p]]]
    /\ UNCHANGED <<life, root, table, snap_addr, slot, mem, allocated, lost>>

Evict(c, p) ==
    /\ exists(tlb[c][p])
    /\ tlb' = [tlb EXCEPT ![c] = [@ EXCEPT ![p] = Absent]]
    /\ UNCHANGED <<life, root, table, snap_addr, slot, mem, allocated, lost>>

\* A store the translation permits; the processor marks the entry dirty, and may keep
\* the translation.
Store(c, p, v) ==
    LET u == slot[c]
        t == Translation(c, p)
    IN
    /\ Running(c)
    /\ t.rw
    /\ mem' = [mem EXCEPT ![t.frame] = v]
    /\ table' = [table EXCEPT ![u] =
                   mapIntoPgTbl(table[u], p, [table[u][p] EXCEPT !.dirty = TRUE])]
    /\ \E cached \in {[t EXCEPT !.dirty = TRUE], Absent} :
          tlb' = [tlb EXCEPT ![c] = [@ EXCEPT ![p] = cached]]
    /\ UNCHANGED <<life, root, snap_addr, slot, allocated, lost>>

\* GetBackingPage: the frames that may back page p, the image's for a page that is not
\* writable and a new one otherwise.
BackingFrames(p) == IF p \in Writable THEN Frame \ allocated ELSE {p}

\* Faulty variant of BackingContent: a copied page starts as the image has it.
ContentOfImage(c, p) == Image[p]

\* GetBackingPage: what a new backing page contains, the page mapped so far (copy on
\* write) or the image's.
BackingContent(c, p) ==
    LET t == Translation(c, p) IN IF exists(t) THEN mem[t.frame] ELSE Image[p]

\* process_pagefault, for a page that is not mapped or a store to one mapped
\* read-only.  A guest that stores to .text or .rodata stops its core; guests do not.
\* The copy reads the old page through its address and may cache that translation.
PageFault(c, p, write) ==
    LET u == slot[c]
        t == Translation(c, p)
    IN
    /\ Running(c)
    /\ ~exists(t) \/ (write /\ ~t.rw)
    /\ write => p \in Writable
    /\ \E f \in BackingFrames(p) :
          /\ table' = [table EXCEPT ![u] =
                         mapIntoPgTbl(table[u], p, Entry(f, p \in Writable, write))]
          /\ allocated' = allocated \cup ({f} \cap Frame)
          /\ mem' = [g \in DOMAIN mem |-> IF g = f THEN BackingContent(c, p) ELSE mem[g]]
    /\ tlb' = IF exists(t) THEN FlushedPage(c, p) ELSE tlb
    /\ UNCHANGED <<life, root, snap_addr, slot, lost>>

\* The memory after the pages of t that must be copied are copied to frames fresh.
copyDirtyPages(t, fresh) ==
    [f \in DOMAIN mem |->
        IF \E p \in ToCopy(t) : fresh[p] = f
        THEN mem[t[CHOOSE p \in ToCopy(t) : fresh[p] = f].frame]
        ELSE mem[f]]

\* process_checkpoint: the guest reaches the address its client asked for.
Checkpoint(c, s) ==
    LET u == slot[c] IN
    /\ Running(c)
    /\ snap_addr[u] = "set"
    /\ life[s] = "none"
    /\ \E p \in Page : table[u][p].dirty
    /\ snap_addr' = [snap_addr EXCEPT ![u] = "taken"]
    /\ life' = [life EXCEPT ![s] = "live"]
    /\ root' = [root EXCEPT ![s] = TRUE]
    /\ tlb' = FlushedAll(c)
    /\ \E fresh \in [ToCopy(table[u]) -> Frame \ allocated] :
          /\ \A p, q \in ToCopy(table[u]) : fresh[p] = fresh[q] => p = q
          /\ table' = [table EXCEPT ![s] = walkPgTblCopyDirtyCOW(table[u], fresh)]
          /\ allocated' = allocated \cup {fresh[p] : p \in ToCopy(table[u])}
          /\ mem' = copyDirtyPages(table[u], fresh)
    /\ UNCHANGED <<slot, lost>>

Client ==
    \/ \E u \in Inst : Boot(u) \/ SetCheckpoint(u)
    \/ \E u \in Inst, s \in Snap : Deploy(u, s)
    \/ \E o \in Owner : Destroy(o)

Slot ==
    \E c \in Core :
        \/ \E u \in Inst : slot_load_instance(c, u)
        \/ SwapOut(c)
        \/ Halt(c)

Guest ==
    \E c \in Core :
        \/ \E p \in Page : Cache(c, p) \/ Evict(c, p)
        \/ \E p \in Page, v \in Val : Store(c, p, v)
        \/ \E p \in Page, write \in BOOLEAN : PageFault(c, p, write)
        \/ \E s \in Snap : Checkpoint(c, s)

Next == Client \/ Slot \/ Guest

Spec == Init /\ [][Next]_vars

(***************************************************************************)
(* Properties.                                                             *)
(***************************************************************************)
TypeOK ==
    /\ life \in [Owner -> {"none", "live", "halted"}]
    /\ root \in [Owner -> BOOLEAN]
    /\ table \in [Owner -> [Page -> Pte]]
    /\ snap_addr \in [Inst -> {"unset", "set", "taken"}]
    /\ slot \in [Core -> Inst \cup {NoInst}]
    /\ tlb \in [Core -> [Page -> Pte]]
    /\ mem \in [Frame \cup Elf -> Val]
    /\ allocated \subseteq Frame
    /\ lost \subseteq Frame

\* A frame that an address space may write is in no other address space, except, shared
\* read-only, where the owner is a snapshot, which never runs (freePageTableLamb frees
\* by this rule, and a guest's store would be seen by another otherwise).
OneWriter ==
    \A o1, o2 \in Owner : \A p1, p2 \in Page :
        /\ table[o1][p1].rw
        /\ table[o2][p2].frame = table[o1][p1].frame
        /\ <<o1, p1>> # <<o2, p2>>
        => o1 \in Snap /\ ~table[o2][p2].rw /\ p1 = p2

\* A page shared copy-on-write belongs to a snapshot that still exists, or is the
\* image's: no table points to a freed frame.
SharedHasOwner ==
    \A o \in Owner : \A p \in Page :
        table[o][p].frame \in Frame /\ ~table[o][p].rw =>
            \E s \in Snap : /\ life[s] = "live"
                            /\ table[s][p].rw
                            /\ table[s][p].frame = table[o][p].frame

\* Every frame is free, mapped by a table that will free it, or lost with the table of
\* an instance booted from the image: nothing else leaks, nothing is freed twice, and
\* nothing is freed while it is mapped.
Mapped == UNION {freePageTable(table[o]) : o \in Owner}
FramesAccounted == allocated = Mapped \cup lost /\ Mapped \cap lost = {}

\* No core uses a translation that its occupant's table does not have (the flushes of
\* slot_unload_instance and process_pagefault).
TlbCoherent ==
    \A c \in Core : \A p \in Page :
        exists(tlb[c][p]) =>
            /\ Running(c)
            /\ tlb[c][p].frame = table[slot[c]][p].frame
            /\ tlb[c][p].rw = table[slot[c]][p].rw

\* What an instance or a snapshot finds in its memory.
View(o) ==
    [p \in Page |-> IF life[o] = "live" /\ exists(table[o][p])
                    THEN mem[table[o][p].frame] ELSE Image[p]]

\* The memory system keeps the promise of AddressSpaces: sharing, copy-on-write, lazy
\* population, swapping and checkpoints are invisible to guests.
AS == INSTANCE AddressSpaces WITH
        living <- {o \in Owner : life[o] = "live"},
        content <- [o \in Owner |-> View(o)]
PrivateMemories == AS!Spec

\* Whenever the frame behind a page changes (a fault, a copy, a swap), what the page
\* contains does not (GetBackingPage).
RemapInvisible ==
    [][\A o \in Owner : \A p \in Page :
          /\ life[o] = "live" /\ life'[o] = "live"
          /\ table'[o][p].frame # table[o][p].frame
          => View(o)'[p] = View(o)[p]]_vars

=============================================================================
