----------------------------- MODULE UmPgTblInv -----------------------------
(***************************************************************************)
(* The inductive invariant of UmPgTbl.  Every table that is not lost has a *)
(* place: the address space it belongs to, its level, and the indices that *)
(* lead to it.  The places are not in the code; that they can be assigned  *)
(* consistently is what makes the tables trees.                            *)
(***************************************************************************)
EXTENDS UmPgTbl

Tabs(h) == DOMAIN h.tables
Level == TBL_LEVEL .. PDPT_LEVEL

\* What the walkers assume of a heap.
HeapOK(h) ==
    /\ h = [tables |-> h.tables, data |-> h.data, mem |-> h.mem]
    /\ h.tables \in [Tabs(h) -> [Index -> Pte]]
    /\ Tabs(h) \subseteq Frame
    /\ h.data \subseteq Frame
    /\ Tabs(h) \cap h.data = {}
    /\ h.mem \in [Frame \cup Elf -> Val]

\* The indices of virt above a level: what it has in common with all addresses whose
\* walks come to the same table of that level.
Path(virt, l) == [k \in Level |-> IF k > l THEN virt[k] ELSE 0]

\* The tables kept have a place each: entries point to tables one level below, under the
\* address they are reached by; leaves are below pages of the slot.
PlacedEntry(h, kept, own, lvl, at, t, i) ==
    LET pte == h.tables[t][i]
        u == nextTableOrFrame(pte)
        virt == [at[t] EXCEPT ![lvl[t]] = i]
    IN \/ pte = Absent
       \/ /\ exists(pte)
          /\ pte.acc
          /\ lvl[t] = TBL_LEVEL => virt \in Page
          /\ lvl[t] # TBL_LEVEL => /\ u \in kept
                                   /\ own[u] = own[t]
                                   /\ lvl[u] = lvl[t] - 1
                                   /\ at[u] = virt

PlacedRoot(root, o, kept, own, lvl, at) ==
    root # Null => /\ root \in kept
                   /\ own[root] = o
                   /\ lvl[root] = PDPT_LEVEL
                   /\ at[root] = Zero

Trees(h, R, kept, own, lvl, at) ==
    /\ kept \subseteq Tabs(h)
    /\ own \in [kept -> Owner]
    /\ lvl \in [kept -> Level]
    /\ at \in [kept -> Addr]
    /\ \A o \in Owner : PlacedRoot(R[o], o, kept, own, lvl, at)
    /\ \A t \in kept : at[t] = Path(at[t], lvl[t])
    /\ \A t \in kept, i \in Index : PlacedEntry(h, kept, own, lvl, at, t, i)

Forest(h, R) ==
    \E kept \in SUBSET Tabs(h) :
        \E own \in [kept -> Owner], lvl \in [kept -> Level], at \in [kept -> Addr] :
            Trees(h, R, kept, own, lvl, at)

Roots == [o \in Owner |-> RootOf(o)]

\* Who has a root: nobody who does not exist, every snapshot, and the instance in the slot
\* the one that the slot has.
LifeInv ==
    /\ Running => life[slot] = "live"
    /\ \A o \in Owner : life[o] = "none" => root_[o] = Null
    /\ \A s \in Snap : life[s] # "none" => life[s] = "live" /\ root_[s] # Null
    /\ Running /\ root_[slot] # Null => pml4 = root_[slot]

\* Pages that an address space may write are data, and its own, each for one address.
WritersOK(h, R) ==
    /\ \A o \in Owner, v \in Addr :
          Walk(h, R[o], v).rw => Walk(h, R[o], v).frame \in h.data
    /\ \A o, q \in Owner, v, w \in Addr :
          /\ Walk(h, R[o], v).rw /\ Walk(h, R[q], w).rw
          /\ Walk(h, R[o], v).frame = Walk(h, R[q], w).frame
          => o = q /\ v = w

\* Heap and roots together.
HeapInv(h, R) == HeapOK(h) /\ Forest(h, R) /\ WritersOK(h, R)

PgInv ==
    /\ TypeOK
    /\ LifeInv
    /\ HeapInv(heap, Roots)

\* What FlatTables needs besides: a root has a page below it (the unloading of the slot
\* asserts its root, and UmMemory asks for a page), and nobody writes the image.
RootsUseful(h, R) ==
    \A o \in Owner : R[o] # Null => \E p \in Page : exists(Walk(h, R[o], p))
ImageKept(h) == \A p \in Elf : h.mem[p] = Image[p]

FlatInv ==
    /\ PgInv
    /\ RootsUseful(heap, Roots)
    /\ ImageKept(heap)

=============================================================================
