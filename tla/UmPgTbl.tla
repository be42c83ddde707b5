------------------------------- MODULE UmPgTbl -------------------------------
(***************************************************************************)
(* Page tables as the machine has them: pages of entries that point to     *)
(* pages, with the recursive walkers of UmPgTblMgr.cc that map a page,     *)
(* copy a table and free it, for one core.  UmMemory takes a table as a    *)
(* map from pages to entries; this module implements it (FlatTables).      *)
(*                                                                         *)
(* A page of the slot is the tuple of its indices, so that p[lvl] is       *)
(* lin_addr::operator[].  Tables have three levels, so that a recursive    *)
(* walker is one operator for each.  Walkers take the heap and the root of *)
(* a table and return both as a record.  The TLB is UmMemory's subject and *)
(* left out here.                                                          *)
(***************************************************************************)
EXTENDS Naturals, FiniteSets

CONSTANTS
    Inst, Snap, NoInst,
    Fanout,     \* entries per table (512)
    Page,       \* pages of the slot in use, <<TAB, DIR, PDPT>>
    Writable,   \* those in writable regions
    Frame,      \* physical pages of the page allocator
    Null,       \* no page: nullptr, an entry that is zero
    Val, Image, \* what pages contain, and what the ELF image has for each
    SwapBooted  \* TRUE: instances booted from the ELF image may be swapped out

TBL_LEVEL == 1
DIR_LEVEL == 2
PDPT_LEVEL == 3

Index == 0 .. Fanout - 1
Addr == [TBL_LEVEL .. PDPT_LEVEL -> Index]
Zero == [lvl \in TBL_LEVEL .. PDPT_LEVEL |-> 0]
Owner == Inst \cup Snap
Elf == Page \ Writable

ASSUME PgTblAssumption ==
    /\ Fanout \in Nat \ {0}
    /\ Page \subseteq Addr
    /\ Writable \subseteq Page
    /\ Inst \cap Snap = {}
    /\ NoInst \notin Inst \cup Snap
    /\ Frame \cap Page = {}
    /\ Null \notin Frame \cup Page
    /\ Val # {}
    /\ Image \in [Page -> Val]
    /\ SwapBooted \in BOOLEAN

\* For counting pages: there are only so many.
ASSUME FrameAssumption == IsFiniteSet(Frame)

VARIABLES
    life,       \* of an instance or a snapshot: does it exist, has its guest halted
    root_,      \* UmPth::root_
    pml4,       \* the core's PML4 entry of the slot: a table or Null
    snap_addr,  \* of an instance: no checkpoint asked for, asked for, taken
    slot,       \* the instance in the core's slot
    heap        \* the pages given out: the tables, the data, and what data pages contain

vars == <<life, root_, pml4, snap_addr, slot, heap>>

(***************************************************************************)
(* Entries and the page allocator.                                         *)
(***************************************************************************)
Pte == [frame : Frame \cup Elf \cup {Null}, rw : BOOLEAN, dirty : BOOLEAN, acc : BOOLEAN]

Entry(f, rw, dirty) == [frame |-> f, rw |-> rw, dirty |-> dirty, acc |-> TRUE]
Absent == [frame |-> Null, rw |-> FALSE, dirty |-> FALSE, acc |-> FALSE]
exists(pte) == pte.frame # Null

\* The page that an entry points to: the next table or, in a leaf, what is mapped
\* (pageTabEntToAddr makes no difference between levels without large pages).
nextTableOrFrame(pte) == pte.frame

\* Faulty variant of Interior: the accessed bit is forgotten.
NotAccessed(tab) == [Entry(tab, TRUE, FALSE) EXCEPT !.acc = FALSE]

\* The entry of a table that points to the table below it.
Interior(tab) == Entry(tab, TRUE, FALSE)

FreePages(h) == Frame \ (DOMAIN h.tables \cup h.data)

\* Which free page the allocator gives out does not matter; Pfn::None() if there is none.
Alloc(h) == IF FreePages(h) = {} THEN Null ELSE CHOOSE f \in FreePages(h) : TRUE

\* A walker found no free page: kbugon stops the core, and the step is not taken.
RanOut(h) == Null \in DOMAIN h.tables \cup h.data

Free(h, f) ==
    [h EXCEPT !.data = @ \ {f},
              !.tables = [t \in DOMAIN h.tables \ {f} |-> h.tables[t]]]

\* A new table, all of it zero.
NewTable(h) ==
    LET f == Alloc(h) IN
    [root |-> f,
     heap |-> [h EXCEPT !.tables = [t \in DOMAIN h.tables \cup {f} |->
                                      IF t = f THEN [i \in Index |-> Absent]
                                      ELSE h.tables[t]]]]

setPte(h, tab, i, pte) == [h EXCEPT !.tables[tab][i] = pte]

(***************************************************************************)
(* The walkers.  No entry has the MAPS bit (setPte never sets it, and      *)
(* large pages do not occur), so that the leaves are in the tables of      *)
(* TBL_LEVEL.                                                              *)
(***************************************************************************)
\* The table that entry i of table tab points to, made if there is none.
\* mapIntoPgTblHelper links a new table when the call that fills it returns; nothing
\* looks at the table between.
Descend(h, tab, i) ==
    LET old == h.tables[tab][i]
        new == NewTable(h)
    IN IF exists(old) THEN [root |-> nextTableOrFrame(old), heap |-> h]
       ELSE [root |-> new.root, heap |-> setPte(new.heap, tab, i, Interior(new.root))]

\* Map virt to pte below root, creating the tables on the way.
mapIntoPgTbl(h, root, virt, pte) ==
    LET top == IF root = Null THEN NewTable(h) ELSE [root |-> root, heap |-> h]
        dir == Descend(top.heap, top.root, virt[PDPT_LEVEL])
        tbl == Descend(dir.heap, dir.root, virt[DIR_LEVEL])
    IN [root |-> top.root, heap |-> setPte(tbl.heap, tbl.root, virt[TBL_LEVEL], pte)]

\* Map the page of an entry of another table, read-only and dirty.
findAndSetPTECOW(h, root, orig, virt) ==
    mapIntoPgTbl(h, root, virt, Entry(nextTableOrFrame(orig), FALSE, TRUE))

\* Map a copy of the page of an entry of another table.
copyDirtyPage(h, root, orig, virt) ==
    LET f == Alloc(h)
        copied == [h EXCEPT !.data = @ \cup {f}, !.mem[f] = h.mem[nextTableOrFrame(orig)]]
    IN mapIntoPgTbl(copied, root, virt, Entry(f, TRUE, TRUE))

\* Faulty variant of CopyLeaf: a checkpoint shares the pages that its instance owns.
ShareLeaf(c, pte, virt, deep) ==
    IF pte.dirty THEN findAndSetPTECOW(c.heap, c.root, pte, virt) ELSE c

\* What becomes of a leaf entry in the copy c: clean ones are left out, owned ones are
\* copied if the copy is deep.
CopyLeaf(c, pte, virt, deep) ==
    IF ~pte.dirty THEN c
    ELSE IF deep /\ pte.rw THEN copyDirtyPage(c.heap, c.root, pte, virt)
    ELSE findAndSetPTECOW(c.heap, c.root, pte, virt)

\* Visit the entries of table tab that exist, in their order, starting with the heap c.heap.
EachEntry(tab, visit(_, _, _), c) ==
    LET f[n \in 0 .. Fanout] ==
          IF n = 0 THEN c
          ELSE LET d == f[n - 1]
                   pte == d.heap.tables[tab][n - 1]
               IN IF exists(pte) THEN visit(d, pte, n - 1) ELSE d
    IN f[Fanout]

\* Copy what hangs off table tab, found along the indices idx, into the copy c, whose
\* root may still be null: walkPgTblCOWHelper, and deep walkPgTblCopyDirtyCOWHelper.
walkTbl(c, tab, idx, deep) ==
    EachEntry(tab, LAMBDA d, pte, i :
                      CopyLeaf(d, pte, [idx EXCEPT ![TBL_LEVEL] = i], deep), c)
walkDir(c, tab, idx, deep) ==
    EachEntry(tab, LAMBDA d, pte, i :
                      walkTbl(d, nextTableOrFrame(pte), [idx EXCEPT ![DIR_LEVEL] = i], deep), c)
walkPdpt(c, tab, idx, deep) ==
    EachEntry(tab, LAMBDA d, pte, i :
                      walkDir(d, nextTableOrFrame(pte), [idx EXCEPT ![PDPT_LEVEL] = i], deep), c)

walkPgTbl(h, root, deep) == walkPdpt([heap |-> h, root |-> Null], root, Zero, deep)

\* Faulty variant of walkPgTblCOW: the copy is the table itself.
SameTable(h, root) == [heap |-> h, root |-> root]

walkPgTblCOW(h, root) == walkPgTbl(h, root, FALSE)
walkPgTblCopyDirtyCOW(h, root) == walkPgTbl(h, root, TRUE)

\* Free the pages that table tab may write, what hangs off it, and the table.  Only
\* accessed entries are followed.
freeTbl(h, tab) ==
    Free(EachEntry(tab, LAMBDA c, pte, i :
                           IF pte.acc /\ pte.rw
                           THEN [heap |-> Free(c.heap, nextTableOrFrame(pte))] ELSE c,
                   [heap |-> h]).heap, tab)
freeDir(h, tab) ==
    Free(EachEntry(tab, LAMBDA c, pte, i :
                           IF pte.acc THEN [heap |-> freeTbl(c.heap, nextTableOrFrame(pte))]
                           ELSE c,
                   [heap |-> h]).heap, tab)

\* Faulty variant of freePageTable: it frees the top table only.
FreeTop(h, tab) == Free(h, tab)

freePageTable(h, tab) ==
    Free(EachEntry(tab, LAMBDA c, pte, i :
                           IF pte.acc THEN [heap |-> freeDir(c.heap, nextTableOrFrame(pte))]
                           ELSE c,
                   [heap |-> h]).heap, tab)

\* The table of level lvl that a walk of virt from root comes to, Null if there is none.
Below(h, tab, i) == IF tab \in DOMAIN h.tables THEN h.tables[tab][i].frame ELSE Null
TableAt(h, root, virt, lvl) ==
    CASE lvl = PDPT_LEVEL -> root
      [] lvl = DIR_LEVEL -> Below(h, root, virt[PDPT_LEVEL])
      [] lvl = TBL_LEVEL -> Below(h, Below(h, root, virt[PDPT_LEVEL]), virt[DIR_LEVEL])

\* The entry with which the processor translates virt.
Walk(h, root, virt) ==
    LET tab == TableAt(h, root, virt, TBL_LEVEL)
    IN IF tab \in DOMAIN h.tables THEN h.tables[tab][virt[TBL_LEVEL]] ELSE Absent

\* What the leaf function of a traversal is called with: traverseValidPages, and, if only
\* accessed entries are followed, traverseAccessedPages.
Followed(h, tab, accessed) ==
    {i \in Index : exists(h.tables[tab][i]) /\ (accessed => h.tables[tab][i].acc)}
traverseTbl(h, tab, idx, accessed) ==
    {<<[idx EXCEPT ![TBL_LEVEL] = i], h.tables[tab][i]>> : i \in Followed(h, tab, accessed)}
traverseDir(h, tab, idx, accessed) ==
    UNION {traverseTbl(h, nextTableOrFrame(h.tables[tab][i]), [idx EXCEPT ![DIR_LEVEL] = i],
                       accessed) : i \in Followed(h, tab, accessed)}
traversePageTable(h, tab, accessed) ==
    UNION {traverseDir(h, nextTableOrFrame(h.tables[tab][i]), [Zero EXCEPT ![PDPT_LEVEL] = i],
                       accessed) : i \in Followed(h, tab, accessed)}

\* countWritablePagesLamb.
countWritablePages(h, tab) ==
    Cardinality({l \in traversePageTable(h, tab, TRUE) : l[2].rw})

(***************************************************************************)
(* The operations, as in UmMemory.                                         *)
(***************************************************************************)
Loaded(u) == slot = u
Running == slot # NoInst

\* The root of the table of o: an instance booted from the image has one only while it
\* is loaded, in the PML4 entry.
RootOf(o) == IF slot = o THEN pml4 ELSE root_[o]

Translation(o, p) == Walk(heap, RootOf(o), p)

\* The data pages that are freed with the table of o.
Owned(o) == {Translation(o, p).frame : p \in {q \in Page : Translation(o, q).rw}}

\* The address spaces that have tables, and the tables that walks come to.  Walks come to
\* the same table of level lvl if they agree on the indices above it.
Live == {o \in Owner : RootOf(o) # Null}
Spots == {s \in Addr \X (TBL_LEVEL .. PDPT_LEVEL) :
             \A lvl \in TBL_LEVEL .. PDPT_LEVEL : lvl <= s[2] => s[1][lvl] = 0}
TableOf(o, s) == TableAt(heap, RootOf(o), s[1], s[2])
Reached == {TableOf(o, s) : o \in Live, s \in Spots} \ {Null}

\* Tables given out that no walk comes to.
LostTables == DOMAIN heap.tables \ Reached

CountOwnedPages(o) == countWritablePages(heap, root_[o])

\* What free pages contain is read by nobody (UmMemory's runs vary it): one value.
Init ==
    /\ life = [o \in Owner |-> "none"]
    /\ root_ = [o \in Owner |-> Null]
    /\ pml4 = Null
    /\ snap_addr = [u \in Inst |-> "unset"]
    /\ slot = NoInst
    /\ heap = [tables |-> [t \in {} |-> Null], data |-> {},
               mem |-> [f \in Frame \cup Elf |->
                          IF f \in Elf THEN Image[f] ELSE CHOOSE v \in Val : TRUE]]

\* UmInstance(sv), sv made from the ELF image.
Boot(u) ==
    /\ life[u] = "none"
    /\ life' = [life EXCEPT ![u] = "live"]
    /\ UNCHANGED <<root_, pml4, snap_addr, slot, heap>>

\* UmInstance(sv), sv a snapshot: UmPth::operator= walks its table.
Deploy(u, s) ==
    /\ life[u] = "none"
    /\ life[s] = "live"
    /\ life' = [life EXCEPT ![u] = "live"]
    /\ LET copy == walkPgTblCOW(heap, root_[s])
       IN root_' = [root_ EXCEPT ![u] = copy.root] /\ heap' = copy.heap
    /\ ~RanOut(heap')
    /\ UNCHANGED <<pml4, snap_addr, slot>>

SetCheckpoint(u) ==
    /\ life[u] = "live"
    /\ ~Loaded(u)
    /\ snap_addr[u] = "unset"
    /\ snap_addr' = [snap_addr EXCEPT ![u] = "set"]
    /\ UNCHANGED <<life, root_, pml4, slot, heap>>

\* Another table maps a page that snapshot s owns.
InUse(s) == \E o \in Owner \ {s} : \E p \in Page : Translation(o, p).frame \in Owned(s)

\* The destructor of an instance that has halted, or of a snapshot no table depends on.
Destroy(o) ==
    /\ \/ o \in Inst /\ life[o] = "halted"
       \/ o \in Snap /\ life[o] = "live" /\ ~InUse(o)
    /\ life' = [life EXCEPT ![o] = "none"]
    /\ heap' = IF root_[o] = Null THEN heap ELSE freePageTable(heap, root_[o])
    /\ root_' = [root_ EXCEPT ![o] = Null]
    /\ snap_addr' = [u \in Inst |-> IF u = o THEN "unset" ELSE snap_addr[u]]
    /\ UNCHANGED <<pml4, slot>>

slot_load_instance(u) ==
    /\ ~Running
    /\ life[u] = "live"
    /\ slot' = u
    /\ pml4' = root_[u]
    /\ UNCHANGED <<life, root_, snap_addr, heap>>

slot_unload_instance ==
    /\ pml4 # Null
    /\ pml4' = Null
    /\ slot' = NoInst
    /\ UNCHANGED <<root_, snap_addr, heap>>

SwapOut ==
    /\ Running
    /\ root_[slot] # Null \/ SwapBooted
    /\ slot_unload_instance
    /\ UNCHANGED life

Halt ==
    /\ Running
    /\ slot_unload_instance
    /\ life' = [life EXCEPT ![slot] = "halted"]

\* The heap after the processor has marked the entry of virt dirty.
MarkDirty(h, root, virt) ==
    setPte(h, TableAt(h, root, virt, TBL_LEVEL), virt[TBL_LEVEL],
           [Walk(h, root, virt) EXCEPT !.dirty = TRUE])

Store(p, v) ==
    /\ Running
    /\ Translation(slot, p).rw
    /\ heap' = [MarkDirty(heap, pml4, p)
                   EXCEPT !.mem[Translation(slot, p).frame] = v]
    /\ UNCHANGED <<life, root_, pml4, snap_addr, slot>>

\* GetBackingPage: the page that backs p from now on, and the heap with its contents.
GetBackingPage(p) ==
    LET old == Translation(slot, p)
        new == Alloc(heap)
    IN IF p \notin Writable THEN [page |-> p, heap |-> heap]
       ELSE [page |-> new,
             heap |-> [heap EXCEPT !.data = @ \cup {new},
                                   !.mem[new] = IF exists(old) THEN heap.mem[old.frame]
                                                ELSE Image[p]]]

\* process_pagefault, for a page that is not mapped or a store to one mapped read-only.
PageFault(p, write) ==
    LET old == Translation(slot, p)
        backing == GetBackingPage(p)
        mapped == mapIntoPgTbl(backing.heap, pml4, p,
                               Entry(backing.page, p \in Writable, write))
    IN
    /\ Running
    /\ ~exists(old) \/ (write /\ ~old.rw)
    /\ write => p \in Writable
    /\ heap' = mapped.heap
    /\ ~RanOut(heap')
    /\ pml4' = IF pml4 = Null THEN mapped.root ELSE pml4
    /\ UNCHANGED <<life, root_, snap_addr, slot>>

\* process_checkpoint: UmPth::copyInPages walks the table in the slot, and asserts that
\* the walk has made one.
Checkpoint(s) ==
    LET copy == walkPgTblCopyDirtyCOW(heap, pml4) IN
    /\ Running
    /\ snap_addr[slot] = "set"
    /\ life[s] = "none"
    /\ \E p \in Page : Translation(slot, p).dirty
    /\ snap_addr' = [snap_addr EXCEPT ![slot] = "taken"]
    /\ life' = [life EXCEPT ![s] = "live"]
    /\ root_' = [root_ EXCEPT ![s] = copy.root]
    /\ heap' = copy.heap
    /\ ~RanOut(heap')
    /\ UNCHANGED <<pml4, slot>>

Next ==
    \/ \E u \in Inst : Boot(u) \/ SetCheckpoint(u) \/ slot_load_instance(u)
    \/ \E u \in Inst, s \in Snap : Deploy(u, s)
    \/ \E o \in Owner : Destroy(o)
    \/ SwapOut
    \/ Halt
    \/ \E p \in Page, v \in Val : Store(p, v)
    \/ \E p \in Page, write \in BOOLEAN : PageFault(p, write)
    \/ \E s \in Snap : Checkpoint(s)

Spec == Init /\ [][Next]_vars

(***************************************************************************)
(* Properties.                                                             *)
(***************************************************************************)
TypeOK ==
    /\ life \in [Owner -> {"none", "live", "halted"}]
    /\ root_ \in [Owner -> Frame \cup {Null}]
    /\ pml4 \in Frame \cup {Null}
    /\ ~Running => pml4 = Null
    /\ snap_addr \in [Inst -> {"unset", "set", "taken"}]
    /\ slot \in Inst \cup {NoInst}
    /\ DOMAIN heap.tables \subseteq Frame
    /\ \A t \in DOMAIN heap.tables : heap.tables[t] \in [Index -> Pte]
    /\ heap.data \subseteq Frame
    /\ heap.mem \in [Frame \cup Elf -> Val]

\* Tables are trees of their own: no two walks that differ above a table come to it, no
\* two address spaces have one in common, and none that is reached is free or used for
\* data (walkPgTblCOW and freePageTableLamb would disturb or free another's otherwise).
TablesAreTrees ==
    /\ TypeOK
    /\ \A o1, o2 \in Live : \A s1, s2 \in Spots :
          TableOf(o1, s1) = TableOf(o2, s2) /\ TableOf(o1, s1) # Null => o1 = o2 /\ s1 = s2
    /\ Reached \subseteq DOMAIN heap.tables
    /\ DOMAIN heap.tables \cap heap.data = {}

\* What a traversal visits under the addresses it reconstructs is what the processor
\* finds there (reconstructLinAddrPgFromOffsets against lin_addr::operator[]), whether it
\* follows all entries, as the walkers that copy do, or the accessed ones, as the one that
\* frees does.
TraversalMeetsWalk ==
    \A o \in Live : \A accessed \in BOOLEAN :
        traversePageTable(heap, RootOf(o), accessed) =
            {<<p, Translation(o, p)>> : p \in {q \in Page : exists(Translation(o, q))}}

\* No step loses a table but the unloading of an instance booted from the image: what is
\* no longer reached has been freed, though only accessed entries are followed, and what
\* a walker creates is reached.
TablesKept ==
    [][\/ LostTables' \subseteq LostTables
       \/ Running /\ slot' = NoInst /\ root_[slot] = Null]_vars

\* The pages that a snapshot's CountOwnedPages reports (UmSV.cc:66) are those that come
\* back when it is destroyed.
OwnedPagesComeBack ==
    [][\A s \in Snap : life[s] = "live" /\ life'[s] = "none" =>
          Cardinality(heap.data) - Cardinality(heap'.data) = CountOwnedPages(s)]_vars

\* A table is what UmMemory takes it for.
FlatTable(o) ==
    [p \in Page |-> LET pte == Translation(o, p)
                    IN [frame |-> pte.frame, rw |-> pte.rw, dirty |-> pte.dirty]]
NoTlb == [p \in Page |-> [frame |-> Null, rw |-> FALSE, dirty |-> FALSE]]

\* The walkers implement UmMemory, whose operators work on all entries at once: mapping,
\* copying and freeing recursively do what they should for every table they meet.
Memory == INSTANCE UmMemory WITH
    Core <- {"core"},
    NoFrame <- Null,
    root <- [o \in Owner |-> root_[o] # Null],
    table <- [o \in Owner |-> FlatTable(o)],
    slot <- [c \in {"core"} |-> slot],
    tlb <- [c \in {"core"} |-> NoTlb],
    mem <- heap.mem,
    allocated <- heap.data,
    lost <- heap.data \ UNION {Owned(o) : o \in Owner}
FlatTables == Memory!Spec

=============================================================================
