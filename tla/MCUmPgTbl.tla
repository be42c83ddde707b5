----------------------------- MODULE MCUmPgTbl -----------------------------
EXTENDS UmPgTblCounters, TLC

CONSTANTS v0, v1

\* The first two pages have a common directory and a table each, at a PDPT index other
\* than 0; the third, which is not writable, has tables of its own.
PageA == <<0, 0, 1>>
PageB == <<0, 1, 1>>
PageC == <<1, 0, 0>>
TwoPages == {PageA, PageB}
ThreePages == {PageA, PageB, PageC}

\* The pages of the image differ.
TwoImages == [p \in Page |-> IF p = PageA THEN v0 ELSE v1]

\* Which snapshot is which does not matter.
Snapshots == Permutations(Snap)

\* States that differ in the names of the pages given out and in what free pages
\* contain go on alike: a state is what every address space looks like, which pages
\* are shared, and how many pages are in use.
Leaf(o, p) ==
    LET pte == Translation(o, p)
    IN [rw |-> pte.rw, dirty |-> pte.dirty, acc |-> pte.acc,
        content |-> IF exists(pte) THEN <<heap.mem[pte.frame]>> ELSE <<>>,
        sharers |-> {w \in Owner \X Page : Translation(w[1], w[2]).frame = pte.frame}]
Shape ==
    <<life, [o \in Owner |-> root_[o] = Null], pml4 = Null, snap_addr, slot,
      [o \in Owner |-> [p \in Page |-> Leaf(o, p)]],
      [o \in Owner |-> Cardinality(TablesOf(o))], Cardinality(Reached),
      Cardinality(DOMAIN heap.tables), Cardinality(heap.data)>>

=============================================================================
