--------------------------- MODULE UmPgTblProofs ---------------------------
(***************************************************************************)
(* Theorems about UmPgTbl for any number of instances, snapshots, pages    *)
(* and entries per table: the walkers that map, copy and free keep the     *)
(* tables trees, and do what UmMemory's operators say.                     *)
(***************************************************************************)
EXTENDS UmPgTblInv, FiniteSetTheorems, WellFoundedInduction, TLAPS

USE DEF TBL_LEVEL, DIR_LEVEL, PDPT_LEVEL, Level

(***************************************************************************)
(* Addresses and paths.                                                    *)
(***************************************************************************)
LEMMA Levels == Level = {1, 2, 3}
  OBVIOUS

\* The indices of an address.
LEMMA AddrIndex ==
    ASSUME NEW v \in Addr
    PROVE  v[1] \in Index /\ v[2] \in Index /\ v[3] \in Index
  BY DEF Addr

\* The index of an address at a level.
LEMMA AddrAt ==
    ASSUME NEW v \in Addr, NEW l \in Level
    PROVE  v[l] \in Index
  BY DEF Addr

\* Addresses with the same indices are the same.
LEMMA AddrEqual ==
    ASSUME NEW v \in Addr, NEW w \in Addr, v[1] = w[1], v[2] = w[2], v[3] = w[3]
    PROVE  v = w
<1>1. \A k \in 1 .. 3 : v[k] = w[k]
  OBVIOUS
<1>. QED
  BY <1>1 DEF Addr

\* The first address.
LEMMA ZeroIndex == 0 \in Index /\ Zero \in Addr
<1>1. 0 \in Index
  BY PgTblAssumption DEF Index
<1>. QED
  BY <1>1 DEF Zero, Addr

\* An address with another index at one level.
LEMMA SetIndex ==
    ASSUME NEW v \in Addr, NEW l \in Level, NEW i \in Index
    PROVE  /\ [v EXCEPT ![l] = i] \in Addr
           /\ [v EXCEPT ![l] = i][l] = i
           /\ \A k \in Level : k # l => [v EXCEPT ![l] = i][k] = v[k]
  BY DEF Addr

\* A path is the address with zeros from a level down.
LEMMA PathType ==
    ASSUME NEW v \in Addr, NEW l \in Level
    PROVE  /\ Path(v, l) \in Addr
           /\ \A k \in Level : Path(v, l)[k] = IF k > l THEN v[k] ELSE 0
<1>1. \A k \in Level : (IF k > l THEN v[k] ELSE 0) \in Index
  BY ZeroIndex DEF Addr
<1>. QED
  BY <1>1 DEF Path, Addr

\* Nothing is above the top level.
LEMMA PathTop ==
    ASSUME NEW v \in Addr
    PROVE  Path(v, 3) = Zero
<1>1. \A k \in Level : ~(k > 3)
  OBVIOUS
<1>. QED
  BY <1>1 DEF Path, Zero

\* One more index.
LEMMA PathStep ==
    ASSUME NEW v \in Addr, NEW l \in {2, 3}
    PROVE  [Path(v, l) EXCEPT ![l] = v[l]] = Path(v, l - 1)
<1>1. /\ l \in Level /\ l - 1 \in Level /\ v[l] \in Index
      /\ \A k \in Level : k > l - 1 <=> k > l \/ k = l
  BY AddrIndex
<1>. DEFINE a == [Path(v, l) EXCEPT ![l] = v[l]]
            b == Path(v, l - 1)
<1>2. a \in Addr /\ b \in Addr
  BY <1>1, PathType, SetIndex
<1>3. \A k \in Level : a[k] = b[k]
  <2>. SUFFICES ASSUME NEW k \in Level
                PROVE  a[k] = b[k]
    OBVIOUS
  <2>1. a[k] = IF k = l THEN v[l] ELSE Path(v, l)[k]
    <3>1. Path(v, l) \in Addr
      BY <1>1, PathType
    <3>2. a[l] = v[l] /\ \A j \in Level : j # l => a[j] = Path(v, l)[j]
      BY <1>1, <3>1 DEF Addr
    <3>. HIDE DEF a
    <3>. QED
      BY <3>2
  <2>2. Path(v, l)[k] = (IF k > l THEN v[k] ELSE 0) /\ b[k] = IF k > l - 1 THEN v[k] ELSE 0
    BY <1>1, PathType
  <2>. QED
    BY ONLY <1>1, <2>1, <2>2
<1>. HIDE DEF a, b
<1>4. a[1] = b[1] /\ a[2] = b[2] /\ a[3] = b[3]
  BY <1>3
<1>5. a = b
  BY <1>2, <1>4, AddrEqual
<1>. QED
  BY <1>5 DEF a, b

\* An address is its path to the lowest table and its lowest index.
LEMMA PathWhole ==
    ASSUME NEW v \in Addr
    PROVE  [Path(v, 1) EXCEPT ![1] = v[1]] = v
<1>. DEFINE a == [Path(v, 1) EXCEPT ![1] = v[1]]
<1>1. a \in Addr /\ a[1] = v[1] /\ a[2] = Path(v, 1)[2] /\ a[3] = Path(v, 1)[3]
  BY PathType, AddrIndex, SetIndex
<1>2. Path(v, 1)[2] = v[2] /\ Path(v, 1)[3] = v[3]
  BY PathType
<1>. HIDE DEF a
<1>3. a = v
  BY <1>1, <1>2, AddrEqual
<1>. QED
  BY <1>3 DEF a

\* Addresses that go the same way down to an entry have the same path below it.
LEMMA PathAgree ==
    ASSUME NEW v \in Addr, NEW w \in Addr, NEW l \in {2, 3},
           Path(v, l) = Path(w, l), v[l] = w[l]
    PROVE  Path(v, l - 1) = Path(w, l - 1)
  BY PathStep

\* Addresses with the same path to a level agree above it too, and in its index.
LEMMA PathSplit ==
    ASSUME NEW v \in Addr, NEW w \in Addr, NEW l \in {2, 3},
           Path(v, l - 1) = Path(w, l - 1)
    PROVE  Path(v, l) = Path(w, l) /\ v[l] = w[l]
<1>1. l \in Level /\ l - 1 \in Level /\ l > l - 1 /\ \A k \in Level : k > l => k > l - 1
  OBVIOUS
<1>2. \A k \in Level : k > l - 1 => v[k] = w[k]
  BY <1>1, PathType
<1>3. \A k \in Level : (IF k > l THEN v[k] ELSE 0) = (IF k > l THEN w[k] ELSE 0)
  BY <1>1, <1>2
<1>. QED
  BY <1>1, <1>2, <1>3 DEF Path

(***************************************************************************)
(* Walks.                                                                  *)
(***************************************************************************)
LEMMA TableAtIs ==
    ASSUME NEW h, NEW r, NEW v
    PROVE  /\ TableAt(h, r, v, 3) = r
           /\ TableAt(h, r, v, 2) = Below(h, TableAt(h, r, v, 3), v[3])
           /\ TableAt(h, r, v, 1) = Below(h, TableAt(h, r, v, 2), v[2])
  BY DEF TableAt

\* How a walk goes down one level.
LEMMA TableBelow ==
    ASSUME NEW h, NEW r, NEW v, NEW l \in {2, 3}
    PROVE  TableAt(h, r, v, l - 1) = Below(h, TableAt(h, r, v, l), v[l])
<1>1. CASE l = 2
  <2>1. l - 1 = 1
    BY <1>1
  <2>. QED
    BY ONLY <1>1, <2>1, TableAtIs
<1>2. CASE l = 3
  <2>1. l - 1 = 2
    BY <1>2
  <2>. QED
    BY ONLY <1>2, <2>1, TableAtIs
<1>. QED
  BY <1>1, <1>2

\* Null is not a page given out.
LEMMA NullNoTable ==
    ASSUME NEW h, HeapOK(h)
    PROVE  Null \notin Tabs(h) /\ Null \notin h.data
  BY PgTblAssumption DEF HeapOK

\* Entries of tables have their type.
LEMMA EntryType ==
    ASSUME NEW h, HeapOK(h), NEW t \in Tabs(h), NEW i \in Index
    PROVE  h.tables[t][i] \in Pte
  BY DEF HeapOK

\* From a table that has its place, an entry leads to one that has it.
LEMMA PlacedBelow ==
    ASSUME NEW h, NEW R, NEW kept, NEW own, NEW lvl, NEW at,
           Trees(h, R, kept, own, lvl, at),
           NEW v \in Addr, NEW l \in {2, 3}, NEW t \in kept, lvl[t] = l, at[t] = Path(v, l),
           h.tables[t][v[l]].frame # Null,
           NEW u, u = h.tables[t][v[l]].frame
    PROVE  u \in kept /\ own[u] = own[t] /\ lvl[u] = l - 1 /\ at[u] = Path(v, l - 1)
<1>1. v[l] \in Index /\ l # 1
  BY AddrIndex
<1>2. PlacedEntry(h, kept, own, lvl, at, t, v[l])
  BY <1>1 DEF Trees
<1>3. u \in kept /\ own[u] = own[t] /\ lvl[u] = l - 1 /\ at[u] = [Path(v, l) EXCEPT ![l] = v[l]]
  BY <1>1, <1>2 DEF PlacedEntry, exists, nextTableOrFrame, Absent
<1>. QED
  BY <1>3, PathStep

\* A walk from a root comes to tables with the place of its address.
LEMMA Placing ==
    ASSUME NEW h, HeapOK(h), NEW R, NEW kept, NEW own, NEW lvl, NEW at,
           Trees(h, R, kept, own, lvl, at), NEW o \in Owner, NEW v \in Addr, NEW l \in Level,
           TableAt(h, R[o], v, l) # Null
    PROVE  LET t == TableAt(h, R[o], v, l)
           IN t \in kept /\ own[t] = o /\ lvl[t] = l /\ at[t] = Path(v, l)
<1>. DEFINE T(k) == TableAt(h, R[o], v, k)
            Ok(k) == T(k) # Null => /\ T(k) \in kept /\ own[T(k)] = o
                                    /\ lvl[T(k)] = k /\ at[T(k)] = Path(v, k)
<1>1. Ok(3)
  <2>1. T(3) = R[o]
    BY TableAtIs
  <2>2. PlacedRoot(R[o], o, kept, own, lvl, at)
    BY DEF Trees
  <2>3. Path(v, 3) = Zero
    BY PathTop
  <2>. HIDE DEF T
  <2>. QED
    BY <2>1, <2>2, <2>3 DEF PlacedRoot
<1>2. ASSUME NEW k \in {2, 3}, Ok(k)
      PROVE  Ok(k - 1)
  <2>1. T(k - 1) = Below(h, T(k), v[k])
    BY TableBelow
  <2>. HIDE DEF T
  <2>. SUFFICES ASSUME T(k - 1) # Null
                PROVE  /\ T(k - 1) \in kept /\ own[T(k - 1)] = o
                       /\ lvl[T(k - 1)] = k - 1 /\ at[T(k - 1)] = Path(v, k - 1)
    OBVIOUS
  <2>2. T(k) \in Tabs(h) /\ T(k - 1) = h.tables[T(k)][v[k]].frame
    BY <2>1 DEF Below, Tabs
  <2>3. T(k) # Null
    BY <2>2, NullNoTable
  <2>4. T(k) \in kept /\ own[T(k)] = o /\ lvl[T(k)] = k /\ at[T(k)] = Path(v, k)
    BY <1>2, <2>3
  <2>. QED
    BY <2>2, <2>4, PlacedBelow
<1>3. Ok(2)
  <2>1. 2 = 3 - 1
    OBVIOUS
  <2>. HIDE DEF Ok
  <2>. QED
    BY <1>1, <1>2, <2>1
<1>4. Ok(1)
  <2>1. 1 = 2 - 1
    OBVIOUS
  <2>. HIDE DEF Ok
  <2>. QED
    BY <1>3, <1>2, <2>1
<1>5. Ok(l)
  <2>. HIDE DEF Ok
  <2>. QED
    BY <1>1, <1>3, <1>4, Levels
<1>. QED
  BY <1>5

\* Entries that translate are in pages of the slot, and have been accessed.
LEMMA WalkFound ==
    ASSUME NEW h, HeapOK(h), NEW R, NEW kept, NEW own, NEW lvl, NEW at,
           Trees(h, R, kept, own, lvl, at), NEW o \in Owner, NEW v \in Addr,
           exists(Walk(h, R[o], v)), NEW t, t = TableAt(h, R[o], v, 1)
    PROVE  /\ t \in kept /\ own[t] = o /\ lvl[t] = 1 /\ at[t] = Path(v, 1)
           /\ Walk(h, R[o], v) = h.tables[t][v[1]]
           /\ Walk(h, R[o], v).acc
           /\ v \in Page
<1>1. t \in Tabs(h) /\ Walk(h, R[o], v) = h.tables[t][v[1]]
  BY DEF Walk, exists, Absent, Tabs
<1>2. t # Null
  BY <1>1, NullNoTable
<1>3. t \in kept /\ own[t] = o /\ lvl[t] = 1 /\ at[t] = Path(v, 1)
  BY <1>2, Placing
<1>4. PlacedEntry(h, kept, own, lvl, at, t, v[1])
  BY <1>3, AddrIndex DEF Trees
<1>5. h.tables[t][v[1]].acc /\ [Path(v, 1) EXCEPT ![1] = v[1]] \in Page
  BY <1>1, <1>3, <1>4 DEF PlacedEntry, exists, Absent
<1>. QED
  BY <1>1, <1>3, <1>5, PathWhole

\* Two walks that come to the same table have the same indices above it.
LEMMA TreesAreTrees ==
    ASSUME NEW h, HeapOK(h), NEW R, Forest(h, R),
           NEW o1 \in Owner, NEW v1 \in Addr, NEW l1 \in Level,
           NEW o2 \in Owner, NEW v2 \in Addr, NEW l2 \in Level,
           TableAt(h, R[o1], v1, l1) = TableAt(h, R[o2], v2, l2),
           TableAt(h, R[o1], v1, l1) # Null
    PROVE  o1 = o2 /\ l1 = l2 /\ Path(v1, l1) = Path(v2, l2)
<1>1. PICK kept \in SUBSET Tabs(h) :
         \E own \in [kept -> Owner], lvl \in [kept -> Level], at \in [kept -> Addr] :
            Trees(h, R, kept, own, lvl, at)
  BY DEF Forest
<1>2. PICK own \in [kept -> Owner], lvl \in [kept -> Level], at \in [kept -> Addr] :
            Trees(h, R, kept, own, lvl, at)
  BY <1>1
<1>. DEFINE t == TableAt(h, R[o1], v1, l1)
<1>3. own[t] = o1 /\ lvl[t] = l1 /\ at[t] = Path(v1, l1)
  BY <1>2, Placing
<1>4. own[t] = o2 /\ lvl[t] = l2 /\ at[t] = Path(v2, l2)
  BY <1>2, Placing
<1>. QED
  BY <1>3, <1>4

(***************************************************************************)
(* What the primitives do to a heap.                                       *)
(***************************************************************************)
Shape(h) == h = [tables |-> h.tables, data |-> h.data, mem |-> h.mem]

\* Nothing is given back.
Grows(h, g) == Shape(g) /\ Tabs(h) \subseteq Tabs(g) /\ h.data \subseteq g.data

\* A heap from its three parts.
LEMMA HeapShape ==
    ASSUME NEW T, NEW D, NEW m
    PROVE  LET h == [tables |-> T, data |-> D, mem |-> m]
           IN Shape(h) /\ h.tables = T /\ h.data = D /\ h.mem = m
  BY DEF Shape

\* Growth adds up.
LEMMA GrowsTrans ==
    ASSUME NEW f, NEW g, NEW h, Grows(f, g), Grows(g, h)
    PROVE  Grows(f, h)
  BY DEF Grows

\* Nothing has happened.
LEMMA GrowsSelf ==
    ASSUME NEW h, Shape(h)
    PROVE  Grows(h, h)
  BY DEF Grows

\* If memory has not run out after growth, it had not before.
LEMMA GrowsRanOut ==
    ASSUME NEW g, NEW h, Grows(g, h), ~RanOut(h)
    PROVE  ~RanOut(g)
  BY DEF Grows, RanOut, Tabs

\* What setPte leaves alone.
LEMMA SetPteShape ==
    ASSUME NEW h, Shape(h), NEW tab, NEW i, NEW pte
    PROVE  LET g == setPte(h, tab, i, pte)
           IN Shape(g) /\ Tabs(g) = Tabs(h) /\ g.data = h.data /\ g.mem = h.mem
<1>. DEFINE T == [h.tables EXCEPT ![tab] = [h.tables[tab] EXCEPT ![i] = pte]]
            g == setPte(h, tab, i, pte)
<1>1. g = [h EXCEPT !.tables = T]
  BY DEF setPte
<1>2. DOMAIN T = DOMAIN h.tables
  OBVIOUS
<1>. HIDE DEF T, g
<1>3. g = [tables |-> T, data |-> h.data, mem |-> h.mem]
  BY <1>1 DEF Shape
<1>4. Shape(g) /\ g.tables = T /\ g.data = h.data /\ g.mem = h.mem
  BY ONLY <1>3 DEF Shape
<1>5. Shape(g) /\ Tabs(g) = Tabs(h) /\ g.data = h.data /\ g.mem = h.mem
  BY <1>2, <1>4 DEF Tabs
<1>. QED
  BY <1>5 DEF g

\* setPte frees nothing.
LEMMA SetPteGrows ==
    ASSUME NEW h, Shape(h), NEW tab, NEW i, NEW pte
    PROVE  Grows(h, setPte(h, tab, i, pte))
  BY SetPteShape DEF Grows

\* One entry changes.
LEMMA SetPteEffect ==
    ASSUME NEW h, HeapOK(h), NEW tab \in Tabs(h), NEW i \in Index, NEW pte \in Pte
    PROVE  LET g == setPte(h, tab, i, pte)
           IN /\ HeapOK(g)
              /\ Tabs(g) = Tabs(h) /\ g.data = h.data /\ g.mem = h.mem
              /\ g.tables[tab][i] = pte
              /\ \A t \in Tabs(h), j \in Index :
                    t # tab \/ j # i => g.tables[t][j] = h.tables[t][j]
<1>. DEFINE row == [h.tables[tab] EXCEPT ![i] = pte]
            T == [h.tables EXCEPT ![tab] = row]
            g == setPte(h, tab, i, pte)
<1>1. g = [h EXCEPT !.tables = T]
  BY DEF setPte
<1>2. /\ row \in [Index -> Pte] /\ row[i] = pte
      /\ \A j \in Index : j # i => row[j] = h.tables[tab][j]
  BY DEF HeapOK
<1>. HIDE DEF row
<1>3. /\ T \in [Tabs(h) -> [Index -> Pte]] /\ T[tab] = row
      /\ \A t \in Tabs(h) : t # tab => T[t] = h.tables[t]
  BY <1>2 DEF HeapOK
<1>. HIDE DEF T, g
<1>4. g = [tables |-> T, data |-> h.data, mem |-> h.mem]
  BY <1>1 DEF HeapOK
<1>5. g = [tables |-> g.tables, data |-> g.data, mem |-> g.mem]
      /\ g.tables = T /\ g.data = h.data /\ g.mem = h.mem
  BY ONLY <1>4
<1>6. Tabs(g) = Tabs(h)
  BY <1>3, <1>5 DEF Tabs
<1>7. HeapOK(g)
  BY <1>3, <1>5, <1>6 DEF HeapOK
<1>8. /\ g.tables[tab][i] = pte
      /\ \A t \in Tabs(h), j \in Index :
            t # tab \/ j # i => g.tables[t][j] = h.tables[t][j]
  BY <1>2, <1>3, <1>5
<1>. QED
  BY <1>5, <1>6, <1>7, <1>8 DEF g

\* A new table: what is in it, and what stays.
LEMMA NewTableEffect ==
    ASSUME NEW h, Shape(h), NEW f, f = NewTable(h).root, NEW g, g = NewTable(h).heap
    PROVE  /\ Shape(g)
           /\ f = Alloc(h)
           /\ Tabs(g) = Tabs(h) \cup {f}
           /\ g.tables = [t \in Tabs(h) \cup {f} |-> IF t = f THEN [i \in Index |-> Absent]
                                                     ELSE h.tables[t]]
           /\ g.data = h.data
           /\ g.mem = h.mem
<1>1. /\ f = Alloc(h)
      /\ g = [h EXCEPT !.tables = [t \in DOMAIN h.tables \cup {f} |->
                                     IF t = f THEN [i \in Index |-> Absent]
                                     ELSE h.tables[t]]]
  BY DEF NewTable
<1>. DEFINE T == [t \in DOMAIN h.tables \cup {f} |->
                     IF t = f THEN [i \in Index |-> Absent] ELSE h.tables[t]]
<1>2. DOMAIN T = DOMAIN h.tables \cup {f}
  OBVIOUS
<1>. HIDE DEF T
<1>3. g = [tables |-> T, data |-> h.data, mem |-> h.mem]
  BY <1>1 DEF Shape, T
<1>4. Shape(g) /\ g.tables = T /\ g.data = h.data /\ g.mem = h.mem
  BY ONLY <1>3 DEF Shape
<1>. QED
  BY <1>1, <1>2, <1>4 DEF T, Tabs

\* A new table frees nothing.
LEMMA NewTableGrows ==
    ASSUME NEW h, Shape(h)
    PROVE  Grows(h, NewTable(h).heap)
<1>. DEFINE f == NewTable(h).root
            g == NewTable(h).heap
<1>1. Shape(g) /\ g.data = h.data /\ Tabs(g) = Tabs(h) \cup {f}
  BY NewTableEffect
<1>. HIDE DEF f, g
<1>2. Grows(h, g)
  BY <1>1 DEF Grows
<1>. QED
  BY <1>2 DEF g

\* The allocator gives out a free page, if any.
LEMMA AllocFree ==
    ASSUME NEW h, Alloc(h) # Null
    PROVE  Alloc(h) \in Frame /\ Alloc(h) \notin Tabs(h) /\ Alloc(h) \notin h.data
  BY DEF Alloc, FreePages, Tabs

\* Freeing a page takes it from tables and data.
LEMMA FreeEffect ==
    ASSUME NEW h, Shape(h), NEW f, NEW g, g = Free(h, f)
    PROVE  /\ Shape(g)
           /\ Tabs(g) = Tabs(h) \ {f}
           /\ g.tables = [t \in Tabs(h) \ {f} |-> h.tables[t]]
           /\ g.data = h.data \ {f}
           /\ g.mem = h.mem
<1>. DEFINE T == [t \in DOMAIN h.tables \ {f} |-> h.tables[t]]
<1>1. DOMAIN T = DOMAIN h.tables \ {f}
  OBVIOUS
<1>2. g = [[h EXCEPT !.data = h.data \ {f}] EXCEPT !.tables = T]
  BY DEF Free
<1>. HIDE DEF T
<1>3. g = [tables |-> T, data |-> h.data \ {f}, mem |-> h.mem]
  BY <1>2 DEF Shape
<1>4. Shape(g) /\ g.tables = T /\ g.data = h.data \ {f} /\ g.mem = h.mem
  BY ONLY <1>3 DEF Shape
<1>. QED
  BY <1>1, <1>4 DEF T, Tabs

\* Going down frees nothing.
LEMMA DescendGrows ==
    ASSUME NEW h, Shape(h), NEW tab, NEW i
    PROVE  Grows(h, Descend(h, tab, i).heap)
<1>. DEFINE new == NewTable(h)
<1>1. Grows(h, new.heap) /\ Shape(new.heap)
  BY NewTableGrows DEF Grows
<1>2. Grows(h, setPte(new.heap, tab, i, Interior(new.root)))
  BY <1>1, SetPteGrows, GrowsTrans
<1>3. CASE exists(h.tables[tab][i])
  BY <1>3, GrowsSelf DEF Descend
<1>4. CASE ~exists(h.tables[tab][i])
  BY <1>2, <1>4 DEF Descend
<1>. QED
  BY <1>3, <1>4

\* mapIntoPgTbl, step by step.
MapTop(h, root) == IF root = Null THEN NewTable(h) ELSE [root |-> root, heap |-> h]

\* mapIntoPgTbl, one level at a time.
LEMMA MapSteps ==
    ASSUME NEW h, NEW root, NEW virt, NEW pte
    PROVE  LET top == MapTop(h, root)
               dir == Descend(top.heap, top.root, virt[3])
               tbl == Descend(dir.heap, dir.root, virt[2])
           IN /\ mapIntoPgTbl(h, root, virt, pte).root = top.root
              /\ mapIntoPgTbl(h, root, virt, pte).heap = setPte(tbl.heap, tbl.root, virt[1], pte)
  BY DEF mapIntoPgTbl, MapTop

\* Mapping frees nothing.
LEMMA MapGrows ==
    ASSUME NEW h, Shape(h), NEW root, NEW virt, NEW pte
    PROVE  Grows(h, mapIntoPgTbl(h, root, virt, pte).heap)
<1>. DEFINE top == MapTop(h, root)
            dir == Descend(top.heap, top.root, virt[3])
            tbl == Descend(dir.heap, dir.root, virt[2])
<1>1. Grows(h, top.heap)
  BY NewTableGrows, GrowsSelf DEF MapTop
<1>. HIDE DEF top
<1>2. Grows(top.heap, dir.heap)
  BY <1>1, DescendGrows DEF Grows
<1>. HIDE DEF dir
<1>3. Grows(dir.heap, tbl.heap)
  BY <1>2, DescendGrows DEF Grows
<1>. HIDE DEF tbl
<1>4. Grows(tbl.heap, setPte(tbl.heap, tbl.root, virt[1], pte))
  BY <1>3, SetPteGrows DEF Grows
<1>5. mapIntoPgTbl(h, root, virt, pte).heap = setPte(tbl.heap, tbl.root, virt[1], pte)
  BY MapSteps DEF top, dir, tbl
<1>6. Grows(h, dir.heap)
  BY <1>1, <1>2, GrowsTrans
<1>7. Grows(h, tbl.heap)
  BY <1>3, <1>6, GrowsTrans
<1>. QED
  BY <1>4, <1>5, <1>7, GrowsTrans

(***************************************************************************)
(* Walks before and after a change.                                        *)
(***************************************************************************)
\* A walk goes on as before at a table whose entry has not changed.
LEMMA BelowStays ==
    ASSUME NEW h, NEW g, NEW t, NEW i,
           t \in Tabs(h) <=> t \in Tabs(g),
           t \in Tabs(h) => g.tables[t][i].frame = h.tables[t][i].frame
    PROVE  Below(g, t, i) = Below(h, t, i)
  BY DEF Below, Tabs

\* Walks that end at the same table with the same entry find the same.
LEMMA WalkStays ==
    ASSUME NEW h, NEW g, NEW r, NEW s, NEW v,
           NEW t, t = TableAt(h, r, v, 1), t = TableAt(g, s, v, 1),
           t \in Tabs(h) <=> t \in Tabs(g),
           t \in Tabs(h) => g.tables[t][v[1]] = h.tables[t][v[1]]
    PROVE  Walk(g, s, v) = Walk(h, r, v)
  BY DEF Walk, Tabs

\* A walk meets the same tables and the same entry.
SameWalk(h, g, r, v) ==
    /\ \A l \in Level : TableAt(g, r, v, l) = TableAt(h, r, v, l)
    /\ Walk(g, r, v) = Walk(h, r, v)

\* All tables that a walk meets have the entries it follows as before.
Unmoved(h, g, r, v) ==
    \A l \in Level : LET t == TableAt(h, r, v, l) IN
        t # Null => /\ t \in Tabs(h) /\ t \in Tabs(g)
                    /\ g.tables[t][v[l]] = h.tables[t][v[l]]

\* A walk none of whose tables has changed.
LEMMA WalkUnchanged ==
    ASSUME NEW h, HeapOK(h), NEW g, HeapOK(g), NEW r, NEW v, Unmoved(h, g, r, v)
    PROVE  SameWalk(h, g, r, v)
<1>1. TableAt(g, r, v, 3) = TableAt(h, r, v, 3)
  BY TableAtIs
<1>2. ASSUME NEW l \in Level, NEW t, t = TableAt(h, r, v, l)
      PROVE  /\ t \in Tabs(h) <=> t \in Tabs(g)
             /\ t \in Tabs(h) => g.tables[t][v[l]] = h.tables[t][v[l]]
  BY <1>2, NullNoTable DEF Unmoved
<1>3. ASSUME NEW l \in {2, 3}, TableAt(g, r, v, l) = TableAt(h, r, v, l)
      PROVE  TableAt(g, r, v, l - 1) = TableAt(h, r, v, l - 1)
  <2>. DEFINE t == TableAt(h, r, v, l)
  <2>1. l \in Level /\ t = TableAt(h, r, v, l) /\ t = TableAt(g, r, v, l)
    BY <1>3
  <2>. HIDE DEF t
  <2>2. /\ t \in Tabs(h) <=> t \in Tabs(g)
        /\ t \in Tabs(h) => g.tables[t][v[l]] = h.tables[t][v[l]]
    BY <1>2, <2>1
  <2>3. t \in Tabs(h) => g.tables[t][v[l]].frame = h.tables[t][v[l]].frame
    BY <2>2
  <2>4. Below(g, t, v[l]) = Below(h, t, v[l])
    BY <2>2, <2>3, BelowStays
  <2>5. TableAt(h, r, v, l - 1) = Below(h, TableAt(h, r, v, l), v[l])
    BY TableBelow
  <2>6. TableAt(g, r, v, l - 1) = Below(g, TableAt(g, r, v, l), v[l])
    BY TableBelow
  <2>. QED
    BY ONLY <2>1, <2>4, <2>5, <2>6
<1>4. TableAt(g, r, v, 2) = TableAt(h, r, v, 2)
  <2>1. 3 - 1 = 2 /\ 3 \in {2, 3}
    OBVIOUS
  <2>. QED
    BY <1>1, <1>3, <2>1
<1>5. TableAt(g, r, v, 1) = TableAt(h, r, v, 1)
  <2>1. 2 - 1 = 1 /\ 2 \in {2, 3}
    OBVIOUS
  <2>. QED
    BY <1>4, <1>3, <2>1
<1>6. Walk(g, r, v) = Walk(h, r, v)
  <2>. DEFINE t == TableAt(h, r, v, 1)
  <2>1. 1 \in Level /\ t = TableAt(h, r, v, 1) /\ t = TableAt(g, r, v, 1)
    BY <1>5
  <2>. HIDE DEF t
  <2>2. /\ t \in Tabs(h) <=> t \in Tabs(g)
        /\ t \in Tabs(h) => g.tables[t][v[1]] = h.tables[t][v[1]]
    BY <1>2, <2>1
  <2>. QED
    BY <2>1, <2>2, WalkStays
<1>. QED
  BY <1>1, <1>4, <1>5, <1>6, Levels DEF SameWalk

\* Nothing hangs off an entry that is zero, or off no table.
LEMMA NothingBelow ==
    ASSUME NEW h, HeapOK(h), NEW r, NEW v \in Addr, NEW l \in Level,
           LET t == TableAt(h, r, v, l)
           IN t = Null \/ (t \in Tabs(h) /\ h.tables[t][v[l]].frame = Null)
    PROVE  /\ \A k \in Level : k < l => TableAt(h, r, v, k) = Null
           /\ l > 1 => Walk(h, r, v) = Absent
           /\ TableAt(h, r, v, l) = Null => Walk(h, r, v) = Absent
<1>. DEFINE T(k) == TableAt(h, r, v, k)
            Dead(k) == T(k) = Null \/ (T(k) \in Tabs(h) /\ h.tables[T(k)][v[k]].frame = Null)
<1>1. T(1) = Null => Walk(h, r, v) = Absent
  BY NullNoTable DEF Walk, Tabs
<1>2. Dead(2) => T(1) = Null
  <2>1. T(1) = Below(h, T(2), v[2])
    BY TableAtIs
  <2>. HIDE DEF T
  <2>. QED
    BY <2>1, NullNoTable DEF Below, Tabs
<1>3. Dead(3) => T(2) = Null
  <2>1. T(2) = Below(h, T(3), v[3])
    BY TableAtIs
  <2>. HIDE DEF T
  <2>. QED
    BY <2>1, NullNoTable DEF Below, Tabs
<1>4. Dead(l)
  OBVIOUS
<1>. HIDE DEF T
<1>5. CASE l = 1
  BY <1>1, <1>5, Levels DEF T
<1>6. CASE l = 2
  BY <1>1, <1>2, <1>4, <1>6, Levels DEF T
<1>7. CASE l = 3
  BY <1>1, <1>2, <1>3, <1>4, <1>7, Levels DEF T
<1>. QED
  BY <1>5, <1>6, <1>7, Levels

(***************************************************************************)
(* A table is added to a forest.                                           *)
(***************************************************************************)
LEMMA FreshTable ==
    ASSUME NEW h, HeapOK(h), NEW f, f = NewTable(h).root, NEW g, g = NewTable(h).heap,
           ~RanOut(g)
    PROVE  /\ HeapOK(g)
           /\ f \in Frame /\ f # Null /\ f \notin Tabs(h)
           /\ Tabs(g) = Tabs(h) \cup {f}
           /\ g.data = h.data /\ g.mem = h.mem
           /\ \A t \in Tabs(h) : g.tables[t] = h.tables[t]
           /\ \A i \in Index : g.tables[f][i] = Absent
<1>1. Shape(h)
  BY DEF HeapOK, Shape
<1>2. /\ Shape(g)
      /\ f = Alloc(h)
      /\ Tabs(g) = Tabs(h) \cup {f}
      /\ g.tables = [t \in Tabs(h) \cup {f} |-> IF t = f THEN [i \in Index |-> Absent]
                                                ELSE h.tables[t]]
      /\ g.data = h.data
      /\ g.mem = h.mem
  BY <1>1, NewTableEffect
<1>3. f # Null
  BY <1>2 DEF RanOut, Tabs
<1>4. f \in Frame /\ f \notin Tabs(h) /\ f \notin h.data
  BY <1>2, <1>3, AllocFree
<1>5. /\ \A t \in Tabs(h) : g.tables[t] = h.tables[t]
      /\ g.tables[f] = [i \in Index |-> Absent]
  BY <1>2, <1>4
<1>6. Absent \in Pte
  BY DEF Absent, Pte
<1>7. [i \in Index |-> Absent] \in [Index -> Pte]
  BY <1>6
<1>8. \A t \in Tabs(h) : h.tables[t] \in [Index -> Pte]
  BY DEF HeapOK
<1>9. g.tables \in [Tabs(g) -> [Index -> Pte]]
  BY <1>2, <1>4, <1>7, <1>8
<1>10. Tabs(g) \subseteq Frame /\ g.data \subseteq Frame /\ Tabs(g) \cap g.data = {}
       /\ g.mem \in [Frame \cup Elf -> Val]
  BY <1>2, <1>4 DEF HeapOK
<1>11. HeapOK(g)
  BY <1>2, <1>9, <1>10 DEF HeapOK, Shape
<1>. QED
  BY <1>2, <1>3, <1>4, <1>5, <1>11

\* The new table f, all of it zero, has its place at the end of path a of o's tree.
Grafted(h, R, g, S, kept, own, lvl, at, o, f, k, a) ==
    /\ f \notin Tabs(h) /\ f # Null /\ Tabs(g) = Tabs(h) \cup {f}
    /\ \A i \in Index : g.tables[f][i] = Absent
    /\ \A q \in Owner : \/ S[q] = R[q]
                        \/ q = o /\ S[q] = f /\ k = 3 /\ a = Zero
    /\ \A t \in kept, i \in Index :
          \/ g.tables[t][i] = h.tables[t][i]
          \/ /\ g.tables[t][i] = Interior(f)
             /\ own[t] = o /\ lvl[t] = k + 1
             /\ [at[t] EXCEPT ![lvl[t]] = i] = a

\* A table made and linked where nothing was: the tables still have places.
LEMMA Graft ==
    ASSUME NEW h, HeapOK(h), NEW R, NEW kept, NEW own, NEW lvl, NEW at,
           Trees(h, R, kept, own, lvl, at),
           NEW g, NEW f, NEW o \in Owner, NEW k \in Level, NEW a \in Addr, a = Path(a, k),
           NEW S, Grafted(h, R, g, S, kept, own, lvl, at, o, f, k, a)
    PROVE  Forest(g, S)
<1>. /\ f \notin Tabs(h) /\ f # Null /\ Tabs(g) = Tabs(h) \cup {f}
     /\ \A i \in Index : g.tables[f][i] = Absent
     /\ \A q \in Owner : \/ S[q] = R[q]
                         \/ q = o /\ S[q] = f /\ k = 3 /\ a = Zero
     /\ \A t \in kept, i \in Index :
           \/ g.tables[t][i] = h.tables[t][i]
           \/ /\ g.tables[t][i] = Interior(f)
              /\ own[t] = o /\ lvl[t] = k + 1
              /\ [at[t] EXCEPT ![lvl[t]] = i] = a
  BY DEF Grafted
<1>. DEFINE kept2 == kept \cup {f}
            own2 == [t \in kept2 |-> IF t = f THEN o ELSE own[t]]
            lvl2 == [t \in kept2 |-> IF t = f THEN k ELSE lvl[t]]
            at2 == [t \in kept2 |-> IF t = f THEN a ELSE at[t]]
<1>1. kept \subseteq Tabs(h) /\ f \notin kept
  BY DEF Trees
<1>2. own \in [kept -> Owner] /\ lvl \in [kept -> Level] /\ at \in [kept -> Addr]
  BY DEF Trees
<1>3. /\ own2 \in [kept2 -> Owner] /\ own2[f] = o
      /\ \A t \in kept : t \in kept2 /\ own2[t] = own[t]
  BY <1>1, <1>2
<1>4. /\ lvl2 \in [kept2 -> Level] /\ lvl2[f] = k
      /\ \A t \in kept : lvl2[t] = lvl[t]
  BY <1>1, <1>2
<1>5. /\ at2 \in [kept2 -> Addr] /\ at2[f] = a
      /\ \A t \in kept : at2[t] = at[t]
  BY <1>1, <1>2
<1>6. kept2 = kept \cup {f} /\ f \in kept2
  OBVIOUS
<1>. HIDE DEF kept2, own2, lvl2, at2
<1>7. kept2 \in SUBSET Tabs(g)
  BY <1>1, <1>6
<1>8. ASSUME NEW q \in Owner
      PROVE  PlacedRoot(S[q], q, kept2, own2, lvl2, at2)
  <2>1. PlacedRoot(R[q], q, kept, own, lvl, at)
    BY DEF Trees
  <2>2. CASE S[q] = R[q]
    BY <2>1, <2>2, <1>3, <1>4, <1>5 DEF PlacedRoot
  <2>3. CASE q = o /\ S[q] = f /\ k = 3 /\ a = Zero
    BY <2>3, <1>3, <1>4, <1>5, <1>6 DEF PlacedRoot
  <2>. QED
    BY <2>2, <2>3
<1>9. ASSUME NEW t \in kept2
      PROVE  at2[t] = Path(at2[t], lvl2[t])
  <2>1. CASE t = f
    BY <2>1, <1>4, <1>5
  <2>2. CASE t \in kept
    <3>1. at[t] = Path(at[t], lvl[t])
      BY <2>2 DEF Trees
    <3>. QED
      BY <2>2, <3>1, <1>4, <1>5
  <2>. QED
    BY <2>1, <2>2, <1>6
<1>10. ASSUME NEW t \in kept2, NEW i \in Index
       PROVE  PlacedEntry(g, kept2, own2, lvl2, at2, t, i)
  <2>1. CASE t = f
    BY <2>1 DEF PlacedEntry
  <2>2. CASE t \in kept /\ g.tables[t][i] = h.tables[t][i]
    <3>1. PlacedEntry(h, kept, own, lvl, at, t, i)
      BY <2>2 DEF Trees
    <3>. DEFINE u == nextTableOrFrame(g.tables[t][i])
                b == [at[t] EXCEPT ![lvl[t]] = i]
    <3>2. own2[t] = own[t] /\ lvl2[t] = lvl[t] /\ b = [at2[t] EXCEPT ![lvl2[t]] = i]
      BY <2>2, <1>3, <1>4, <1>5
    <3>. HIDE DEF b
    <3>3. CASE g.tables[t][i] = Absent
      BY <3>3 DEF PlacedEntry
    <3>4. CASE /\ exists(g.tables[t][i]) /\ g.tables[t][i].acc
               /\ lvl[t] = TBL_LEVEL => b \in Page
               /\ lvl[t] # TBL_LEVEL => u \in kept /\ own[u] = own[t]
                                        /\ lvl[u] = lvl[t] - 1 /\ at[u] = b
      <4>1. u \in kept => /\ u \in kept2 /\ own2[u] = own[u]
                          /\ lvl2[u] = lvl[u] /\ at2[u] = at[u]
        BY <1>3, <1>4, <1>5
      <4>. HIDE DEF u
      <4>2. /\ lvl2[t] = TBL_LEVEL => b \in Page
            /\ lvl2[t] # TBL_LEVEL => u \in kept2 /\ own2[u] = own2[t]
                                        /\ lvl2[u] = lvl2[t] - 1 /\ at2[u] = b
        BY ONLY <3>2, <3>4, <4>1
      <4>. QED
        BY <3>2, <3>4, <4>2 DEF PlacedEntry, u
    <3>. QED
      BY <2>2, <3>1, <3>3, <3>4 DEF PlacedEntry, b
  <2>3. CASE /\ t \in kept
             /\ g.tables[t][i] = Interior(f)
             /\ own[t] = o /\ lvl[t] = k + 1
             /\ [at[t] EXCEPT ![lvl[t]] = i] = a
    <3>1. own2[t] = o /\ lvl2[t] = k + 1 /\ at2[t] = at[t]
      BY <2>3, <1>3, <1>4, <1>5
    <3>2. Interior(f).frame = f /\ Interior(f).acc
      BY DEF Interior, Entry
    <3>3. k + 1 # 1 /\ (k + 1) - 1 = k
      OBVIOUS
    <3>4. [at2[t] EXCEPT ![lvl2[t]] = i] = a
      BY <2>3, <3>1
    <3>. QED
      BY <2>3, <3>1, <3>2, <3>3, <3>4, <1>3, <1>4, <1>5, <1>6
      DEF PlacedEntry, exists, nextTableOrFrame
  <2>. QED
    BY <2>1, <2>2, <2>3, <1>6
<1>11. Trees(g, S, kept2, own2, lvl2, at2)
  BY <1>3, <1>4, <1>5, <1>7, <1>8, <1>9, <1>10 DEF Trees
<1>. QED
  BY <1>3, <1>4, <1>5, <1>7, <1>11 DEF Forest

\* What walks find in a forest.
LEMMA ForestWalk ==
    ASSUME NEW h, HeapOK(h), NEW R, Forest(h, R), NEW o \in Owner, NEW v \in Addr
    PROVE  /\ \A l \in Level : TableAt(h, R[o], v, l) # Null => TableAt(h, R[o], v, l) \in Tabs(h)
           /\ Walk(h, R[o], v) \in Pte
           /\ Walk(h, R[o], v) = Absent \/ /\ exists(Walk(h, R[o], v))
                                           /\ Walk(h, R[o], v).acc
                                           /\ v \in Page
<1>1. PICK kept \in SUBSET Tabs(h) :
         \E own \in [kept -> Owner], lvl \in [kept -> Level], at \in [kept -> Addr] :
            Trees(h, R, kept, own, lvl, at)
  BY DEF Forest
<1>2. PICK own \in [kept -> Owner], lvl \in [kept -> Level], at \in [kept -> Addr] :
            Trees(h, R, kept, own, lvl, at)
  BY <1>1
<1>3. ASSUME NEW l \in Level, TableAt(h, R[o], v, l) # Null
      PROVE  TableAt(h, R[o], v, l) \in Tabs(h)
  <2>1. TableAt(h, R[o], v, l) \in kept
    BY <1>2, <1>3, Placing
  <2>. QED
    BY <2>1
<1>. DEFINE t == TableAt(h, R[o], v, 1)
<1>4. CASE t \notin Tabs(h)
  <2>1. Walk(h, R[o], v) = Absent
    BY <1>4 DEF Walk, Tabs
  <2>. QED
    BY <1>3, <2>1 DEF Absent, Pte
<1>5. CASE t \in Tabs(h)
  <2>1. Walk(h, R[o], v) = h.tables[t][v[1]]
    BY <1>5 DEF Walk, Tabs
  <2>2. t # Null /\ v[1] \in Index
    BY <1>5, NullNoTable, AddrIndex
  <2>3. t \in kept /\ lvl[t] = 1 /\ at[t] = Path(v, 1)
    BY <1>2, <2>2, Placing
  <2>. HIDE DEF t
  <2>4. PlacedEntry(h, kept, own, lvl, at, t, v[1])
    BY <1>2, <2>2, <2>3 DEF Trees
  <2>5. [Path(v, 1) EXCEPT ![1] = v[1]] = v
    BY PathWhole
  <2>6. h.tables[t][v[1]] = Absent \/ /\ exists(h.tables[t][v[1]])
                                      /\ h.tables[t][v[1]].acc
                                      /\ v \in Page
    BY <2>3, <2>4, <2>5 DEF PlacedEntry
  <2>7. h.tables[t][v[1]] \in Pte
    BY <2>2, <1>5, EntryType DEF t
  <2>8. Walk(h, R[o], v) \in Pte
    BY ONLY <2>1, <2>7 DEF t
  <2>9. Walk(h, R[o], v) = Absent \/ /\ exists(Walk(h, R[o], v))
                                     /\ Walk(h, R[o], v).acc
                                     /\ v \in Page
    BY ONLY <2>1, <2>6 DEF t
  <2>. QED
    BY <1>3, <2>8, <2>9
<1>. QED
  BY <1>4, <1>5

\* An entry above the leaves.
LEMMA ForestEntry ==
    ASSUME NEW h, HeapOK(h), NEW R, Forest(h, R), NEW o \in Owner, NEW v \in Addr,
           NEW l \in {2, 3}, TableAt(h, R[o], v, l) # Null
    PROVE  LET t == TableAt(h, R[o], v, l) IN
           /\ t \in Tabs(h)
           /\ TableAt(h, R[o], v, l - 1) = h.tables[t][v[l]].frame
           /\ h.tables[t][v[l]] = Absent \/ (exists(h.tables[t][v[l]]) /\ h.tables[t][v[l]].acc)
<1>. DEFINE t == TableAt(h, R[o], v, l)
<1>1. PICK kept \in SUBSET Tabs(h) :
         \E own \in [kept -> Owner], lvl \in [kept -> Level], at \in [kept -> Addr] :
            Trees(h, R, kept, own, lvl, at)
  BY DEF Forest
<1>2. PICK own \in [kept -> Owner], lvl \in [kept -> Level], at \in [kept -> Addr] :
            Trees(h, R, kept, own, lvl, at)
  BY <1>1
<1>3. t \in kept
  BY <1>2, Placing, l \in Level
<1>4. PlacedEntry(h, kept, own, lvl, at, t, v[l])
  BY <1>2, <1>3, AddrIndex DEF Trees
<1>5. TableAt(h, R[o], v, l - 1) = Below(h, TableAt(h, R[o], v, l), v[l])
  BY TableBelow
<1>6. Below(h, t, v[l]) = h.tables[t][v[l]].frame
  BY <1>3 DEF Below, Tabs
<1>7. TableAt(h, R[o], v, l - 1) = h.tables[t][v[l]].frame
  BY ONLY <1>5, <1>6
<1>8. h.tables[t][v[l]] = Absent \/ (exists(h.tables[t][v[l]]) /\ h.tables[t][v[l]].acc)
  BY <1>4 DEF PlacedEntry
<1>9. t \in Tabs(h)
  BY <1>3
<1>. QED
  BY <1>7, <1>8, <1>9

\* Parts of it.
LEMMA TableIn ==
    ASSUME NEW h, HeapOK(h), NEW R, Forest(h, R), NEW o \in Owner, NEW v \in Addr,
           NEW l \in Level, NEW t, t = TableAt(h, R[o], v, l), t # Null
    PROVE  t \in Tabs(h)
<1>1. TableAt(h, R[o], v, l) # Null => TableAt(h, R[o], v, l) \in Tabs(h)
  BY ForestWalk
<1>. QED
  BY <1>1

\* Entries above the leaves point to tables, or nowhere.
LEMMA EntryIn ==
    ASSUME NEW h, HeapOK(h), NEW R, Forest(h, R), NEW o \in Owner, NEW v \in Addr,
           NEW l \in {2, 3}, NEW t, t = TableAt(h, R[o], v, l), t # Null,
           NEW e, e = h.tables[t][v[l]]
    PROVE  e = Absent \/ (exists(e) /\ e.acc)
<1>. DEFINE y == TableAt(h, R[o], v, l)
<1>1. h.tables[y][v[l]] = Absent \/ (exists(h.tables[y][v[l]]) /\ h.tables[y][v[l]].acc)
  BY ForestEntry
<1>2. y = t
  OBVIOUS
<1>. HIDE DEF y
<1>. QED
  BY ONLY <1>1, <1>2, e = h.tables[t][v[l]]


\* A walk goes as far as the entries that it follows have not changed.
UnmovedTo(h, g, r, v, n) ==
    \A k \in Level : LET t == TableAt(h, r, v, k) IN
        k > n /\ t # Null => /\ t \in Tabs(h) /\ t \in Tabs(g)
                             /\ g.tables[t][v[k]].frame = h.tables[t][v[k]].frame

\* A walk unchanged down to a level comes to the same tables there.
LEMMA WalkDown ==
    ASSUME NEW h, HeapOK(h), NEW g, HeapOK(g), NEW r, NEW v \in Addr, NEW n \in Level,
           UnmovedTo(h, g, r, v, n)
    PROVE  \A k \in Level : k >= n => TableAt(g, r, v, k) = TableAt(h, r, v, k)
<1>. \A k \in Level : LET t == TableAt(h, r, v, k) IN
        k > n /\ t # Null => /\ t \in Tabs(h) /\ t \in Tabs(g)
                             /\ g.tables[t][v[k]].frame = h.tables[t][v[k]].frame
  BY DEF UnmovedTo
<1>1. TableAt(g, r, v, 3) = TableAt(h, r, v, 3)
  BY TableAtIs
<1>2. ASSUME NEW k \in {2, 3}, k > n, TableAt(g, r, v, k) = TableAt(h, r, v, k)
      PROVE  TableAt(g, r, v, k - 1) = TableAt(h, r, v, k - 1)
  <2>. DEFINE t == TableAt(h, r, v, k)
  <2>1. k \in Level /\ t = TableAt(h, r, v, k) /\ t = TableAt(g, r, v, k)
    BY <1>2
  <2>2. t # Null => /\ t \in Tabs(h) /\ t \in Tabs(g)
                    /\ g.tables[t][v[k]].frame = h.tables[t][v[k]].frame
    BY <1>2
  <2>. HIDE DEF t
  <2>3. Below(g, t, v[k]) = Below(h, t, v[k])
    BY <2>2, BelowStays, NullNoTable
  <2>5. TableAt(h, r, v, k - 1) = Below(h, TableAt(h, r, v, k), v[k])
    BY TableBelow
  <2>6. TableAt(g, r, v, k - 1) = Below(g, TableAt(g, r, v, k), v[k])
    BY TableBelow
  <2>. QED
    BY ONLY <2>1, <2>3, <2>5, <2>6
<1>3. n < 3 => TableAt(g, r, v, 2) = TableAt(h, r, v, 2)
  <2>1. 3 - 1 = 2 /\ 3 \in {2, 3}
    OBVIOUS
  <2>. QED
    BY <1>1, <1>2, <2>1
<1>4. n < 2 => TableAt(g, r, v, 1) = TableAt(h, r, v, 1)
  <2>1. 2 - 1 = 1 /\ 2 \in {2, 3}
    OBVIOUS
  <2>. QED
    BY <1>3, <1>2, <2>1
<1>. QED
  BY <1>1, <1>3, <1>4, Levels

\* The address spaces of others look as before.
OthersSame(h, g, R, o) ==
    \A q \in Owner : q # o => \A v \in Addr : SameWalk(h, g, R[q], v)

\* The tree below r in heap h has become the one below s in heap g by adding tables.
GrownTree(h, r, g, s) ==
    /\ \A v \in Addr, l \in Level :
          TableAt(h, r, v, l) # Null => TableAt(g, s, v, l) = TableAt(h, r, v, l)
    /\ Tabs(h) \subseteq Tabs(g)
    /\ \A t \in Tabs(g) :
          t \in Tabs(h) \/ \E v \in Addr, l \in Level : t = TableAt(g, s, v, l)

\* Trees that grow twice have grown.
LEMMA GrownTrans ==
    ASSUME NEW f, NEW r, NEW g, NEW s, NEW h, NEW t, HeapOK(g),
           GrownTree(f, r, g, s), GrownTree(g, s, h, t)
    PROVE  GrownTree(f, r, h, t)
<1>1. ASSUME NEW v \in Addr, NEW l \in Level, TableAt(f, r, v, l) # Null
      PROVE  TableAt(h, t, v, l) = TableAt(f, r, v, l)
  BY <1>1 DEF GrownTree
<1>2. Tabs(f) \subseteq Tabs(h)
  BY DEF GrownTree
<1>3. ASSUME NEW x \in Tabs(h), x \notin Tabs(f)
      PROVE  \E v \in Addr, l \in Level : x = TableAt(h, t, v, l)
  <2>1. CASE x \in Tabs(g)
    <3>1. PICK v \in Addr, l \in Level : x = TableAt(g, s, v, l)
      BY <1>3, <2>1 DEF GrownTree
    <3>2. x # Null
      BY <2>1, NullNoTable
    <3>. QED
      BY <3>1, <3>2 DEF GrownTree
  <2>2. CASE x \notin Tabs(g)
    BY <2>2 DEF GrownTree
  <2>. QED
    BY <2>1, <2>2
<1>. QED
  BY <1>1, <1>2, <1>3 DEF GrownTree

\* What two steps leave alone for others, both do together.
LEMMA OthersTrans ==
    ASSUME NEW f, NEW g, NEW h, NEW R, NEW S, NEW o, \A q \in Owner : q # o => S[q] = R[q],
           OthersSame(f, g, R, o), OthersSame(g, h, S, o)
    PROVE  OthersSame(f, h, R, o)
<1>. SUFFICES ASSUME NEW q \in Owner, q # o, NEW v \in Addr
              PROVE  SameWalk(f, h, R[q], v)
  BY DEF OthersSame
<1>1. SameWalk(f, g, R[q], v) /\ SameWalk(g, h, S[q], v) /\ S[q] = R[q]
  BY DEF OthersSame
<1>. QED
  BY <1>1 DEF SameWalk

\* Where there is no root there is nothing.
LEMMA NoTree ==
    ASSUME NEW h, HeapOK(h), NEW v \in Addr
    PROVE  /\ \A l \in Level : TableAt(h, Null, v, l) = Null
           /\ Walk(h, Null, v) = Absent
<1>1. TableAt(h, Null, v, 3) = Null
  BY TableAtIs
<1>2. \A k \in Level : k < 3 => TableAt(h, Null, v, k) = Null
  BY <1>1, NothingBelow
<1>3. Walk(h, Null, v) = Absent
  BY <1>1, NothingBelow
<1>. QED
  BY <1>1, <1>2, <1>3, Levels

\* A walk that does not use the entries that change.
LEMMA WalkElsewhere ==
    ASSUME NEW h, HeapOK(h), NEW g, HeapOK(g), NEW R, Forest(h, R), Tabs(h) \subseteq Tabs(g),
           NEW q \in Owner, NEW v \in Addr,
           \A l \in Level : LET t == TableAt(h, R[q], v, l) IN
               t # Null => g.tables[t][v[l]] = h.tables[t][v[l]]
    PROVE  SameWalk(h, g, R[q], v)
<1>1. ASSUME NEW l \in Level, NEW t, t = TableAt(h, R[q], v, l), t # Null
      PROVE  /\ t \in Tabs(h) /\ t \in Tabs(g)
             /\ g.tables[t][v[l]] = h.tables[t][v[l]]
  BY <1>1, TableIn
<1>2. Unmoved(h, g, R[q], v)
  BY <1>1 DEF Unmoved
<1>. QED
  BY <1>2, WalkUnchanged

\* A null root is given a table.
LEMMA NewRootOK ==
    ASSUME NEW h, HeapOK(h), NEW R, Forest(h, R), NEW o \in Owner, R[o] = Null,
           NEW f, f = NewTable(h).root, NEW g, g = NewTable(h).heap, ~RanOut(g),
           NEW S, S[o] = f, \A q \in Owner : q # o => S[q] = R[q]
    PROVE  /\ HeapOK(g) /\ Forest(g, S) /\ f # Null
           /\ g.data = h.data /\ g.mem = h.mem
           /\ OthersSame(h, g, R, o)
           /\ GrownTree(h, R[o], g, f)
           /\ \A v \in Addr : Walk(g, f, v) = Walk(h, R[o], v)
<1>1. /\ HeapOK(g)
      /\ f \in Frame /\ f # Null /\ f \notin Tabs(h)
      /\ Tabs(g) = Tabs(h) \cup {f}
      /\ g.data = h.data /\ g.mem = h.mem
      /\ \A t \in Tabs(h) : g.tables[t] = h.tables[t]
      /\ \A i \in Index : g.tables[f][i] = Absent
  BY FreshTable
<1>2. Forest(g, S)
  <2>1. PICK kept \in SUBSET Tabs(h) :
           \E own \in [kept -> Owner], lvl \in [kept -> Level], at \in [kept -> Addr] :
              Trees(h, R, kept, own, lvl, at)
    BY DEF Forest
  <2>2. PICK own \in [kept -> Owner], lvl \in [kept -> Level], at \in [kept -> Addr] :
              Trees(h, R, kept, own, lvl, at)
    BY <2>1
  <2>3. \A t \in kept, i \in Index : g.tables[t][i] = h.tables[t][i]
    BY <1>1
  <2>4. Zero \in Addr /\ Zero = Path(Zero, 3) /\ 3 \in Level
    BY ZeroIndex, PathTop
  <2>5. PICK k, a : k = 3 /\ a = Zero
    OBVIOUS
  <2>6. \A q \in Owner : \/ S[q] = R[q]
                         \/ q = o /\ S[q] = f /\ k = 3 /\ a = Zero
    BY <2>5
  <2>7. k \in Level /\ a \in Addr /\ a = Path(a, k)
    BY <2>4, <2>5
  <2>8. \A t \in kept, i \in Index :
              \/ g.tables[t][i] = h.tables[t][i]
              \/ /\ g.tables[t][i] = Interior(f)
                 /\ own[t] = o /\ lvl[t] = k + 1
                 /\ [at[t] EXCEPT ![lvl[t]] = i] = a
    BY <2>3
  <2>. QED
    <3>1. Grafted(h, R, g, S, kept, own, lvl, at, o, f, k, a)
      BY ONLY <1>1, <2>6, <2>8 DEF Grafted
    <3>. QED
      BY ONLY <2>2, <2>7, <3>1, Graft, HeapOK(h), o \in Owner
<1>3. OthersSame(h, g, R, o)
  <2>1. ASSUME NEW q \in Owner, NEW v \in Addr
        PROVE  SameWalk(h, g, R[q], v)
    <3>1. \A l \in Level : LET t == TableAt(h, R[q], v, l) IN
             t # Null => g.tables[t][v[l]] = h.tables[t][v[l]]
      BY <1>1, ForestWalk
    <3>. QED
      BY <1>1, <3>1, WalkElsewhere
  <2>. QED
    BY <2>1 DEF OthersSame
<1>4. ASSUME NEW v \in Addr
      PROVE  Walk(g, f, v) = Absent /\ TableAt(g, f, v, 3) = f
  <2>1. TableAt(g, f, v, 3) = f
    BY TableAtIs
  <2>2. f \in Tabs(g) /\ g.tables[f][v[3]].frame = Null
    BY <1>1, AddrIndex DEF Absent
  <2>3. 3 \in Level /\ 3 > 1
    OBVIOUS
  <2>. QED
    BY <1>1, <2>1, <2>2, <2>3, NothingBelow
<1>5. \A v \in Addr : Walk(h, R[o], v) = Absent /\ \A l \in Level : TableAt(h, R[o], v, l) = Null
  BY NoTree
<1>6. GrownTree(h, R[o], g, f)
  BY <1>1, <1>4, <1>5, ZeroIndex DEF GrownTree
<1>. QED
  BY <1>1, <1>2, <1>3, <1>4, <1>5, <1>6

\* A table is made below entry i of table tab.
LEMMA LinkEffect ==
    ASSUME NEW h, HeapOK(h), NEW tab \in Tabs(h), NEW i \in Index,
           NEW u, u = NewTable(h).root,
           NEW g, g = setPte(NewTable(h).heap, tab, i, Interior(u)), ~RanOut(g)
    PROVE  /\ HeapOK(g)
           /\ u # Null /\ u \notin Tabs(h)
           /\ Tabs(g) = Tabs(h) \cup {u}
           /\ g.data = h.data /\ g.mem = h.mem
           /\ g.tables[tab][i] = Interior(u)
           /\ \A t \in Tabs(h), j \in Index :
                 t # tab \/ j # i => g.tables[t][j] = h.tables[t][j]
           /\ \A j \in Index : g.tables[u][j] = Absent
<1>. DEFINE n == NewTable(h).heap
<1>1. Shape(h) /\ Shape(n)
  BY NewTableEffect DEF HeapOK, Shape
<1>2. ~RanOut(n)
  BY <1>1, SetPteGrows, GrowsRanOut
<1>3. /\ HeapOK(n)
      /\ u \in Frame /\ u # Null /\ u \notin Tabs(h)
      /\ Tabs(n) = Tabs(h) \cup {u}
      /\ n.data = h.data /\ n.mem = h.mem
      /\ \A t \in Tabs(h) : n.tables[t] = h.tables[t]
      /\ \A j \in Index : n.tables[u][j] = Absent
  BY <1>2, FreshTable
<1>. HIDE DEF n
<1>4. Interior(u) \in Pte
  BY <1>3 DEF Interior, Entry, Pte
<1>5. /\ HeapOK(g)
      /\ Tabs(g) = Tabs(n) /\ g.data = n.data /\ g.mem = n.mem
      /\ g.tables[tab][i] = Interior(u)
      /\ \A t \in Tabs(n), j \in Index :
            t # tab \/ j # i => g.tables[t][j] = n.tables[t][j]
  <2>1. g = setPte(n, tab, i, Interior(u)) /\ tab \in Tabs(n)
    BY <1>3 DEF n
  <2>. QED
    BY <1>3, <1>4, <2>1, SetPteEffect
<1>6. \A j \in Index : g.tables[u][j] = Absent
  BY <1>3, <1>5
<1>7. \A t \in Tabs(h), j \in Index :
            t # tab \/ j # i => g.tables[t][j] = h.tables[t][j]
  BY <1>3, <1>5
<1>. QED
  BY <1>3, <1>5, <1>6, <1>7

\* The walks of the addresses that go through an entry.
Through(v, l) == {w \in Addr : Path(w, l) = Path(v, l) /\ w[l] = v[l]}

\* No other walk follows it.
LEMMA OnlyThrough ==
    ASSUME NEW h, HeapOK(h), NEW R, Forest(h, R), NEW o \in Owner, NEW v \in Addr,
           NEW l \in Level, TableAt(h, R[o], v, l) # Null,
           NEW q \in Owner, NEW w \in Addr, NEW k \in Level,
           TableAt(h, R[q], w, k) = TableAt(h, R[o], v, l), w[k] = v[l]
    PROVE  q = o /\ k = l /\ w \in Through(v, l)
<1>1. q = o /\ k = l /\ Path(w, k) = Path(v, l)
  BY TreesAreTrees
<1>. QED
  BY <1>1 DEF Through

\* Walks of addresses with the same path come to the same tables above.
LEMMA ThroughSame ==
    ASSUME NEW h, NEW r, NEW v \in Addr, NEW l \in Level, NEW w \in Addr,
           Path(w, l) = Path(v, l)
    PROVE  \A k \in Level : k >= l => TableAt(h, r, w, k) = TableAt(h, r, v, k)
<1>1. \A k \in Level : k > l => w[k] = v[k]
  BY PathType
<1>2. TableAt(h, r, w, 3) = TableAt(h, r, v, 3)
  BY TableAtIs
<1>3. l < 3 => TableAt(h, r, w, 2) = TableAt(h, r, v, 2)
  <2>1. TableAt(h, r, w, 2) = Below(h, TableAt(h, r, w, 3), w[3])
    BY TableAtIs
  <2>2. TableAt(h, r, v, 2) = Below(h, TableAt(h, r, v, 3), v[3])
    BY TableAtIs
  <2>3. l < 3 => w[3] = v[3]
    BY <1>1
  <2>. QED
    BY ONLY <1>2, <2>1, <2>2, <2>3
<1>4. l < 2 => TableAt(h, r, w, 1) = TableAt(h, r, v, 1)
  <2>1. TableAt(h, r, w, 1) = Below(h, TableAt(h, r, w, 2), w[2])
    BY TableAtIs
  <2>2. TableAt(h, r, v, 1) = Below(h, TableAt(h, r, v, 2), v[2])
    BY TableAtIs
  <2>3. l < 2 => w[2] = v[2]
    BY <1>1
  <2>4. l < 2 => l < 3
    OBVIOUS
  <2>. QED
    BY ONLY <1>3, <2>1, <2>2, <2>3, <2>4
<1>. QED
  BY <1>2, <1>3, <1>4, Levels

\* Linking a new table below one in use keeps the forest.
LEMMA LinkForest ==
    ASSUME NEW h, HeapOK(h), NEW R, Forest(h, R), NEW o \in Owner, NEW v \in Addr,
           NEW l \in {2, 3}, NEW tab, tab = TableAt(h, R[o], v, l), tab # Null,
           NEW u, u = NewTable(h).root,
           NEW g, g = setPte(NewTable(h).heap, tab, v[l], Interior(u)), ~RanOut(g)
    PROVE  Forest(g, R)
<1>1. PICK kept \in SUBSET Tabs(h) :
         \E own \in [kept -> Owner], lvl \in [kept -> Level], at \in [kept -> Addr] :
            Trees(h, R, kept, own, lvl, at)
  BY DEF Forest
<1>2. PICK own \in [kept -> Owner], lvl \in [kept -> Level], at \in [kept -> Addr] :
            Trees(h, R, kept, own, lvl, at)
  BY <1>1
<1>3. tab \in kept /\ own[tab] = o /\ lvl[tab] = l /\ at[tab] = Path(v, l)
  BY <1>2, Placing, l \in Level
<1>4. v[l] \in Index /\ tab \in Tabs(h)
  BY <1>3, AddrIndex
<1>5. /\ u # Null /\ u \notin Tabs(h)
      /\ Tabs(g) = Tabs(h) \cup {u}
      /\ g.tables[tab][v[l]] = Interior(u)
      /\ \A t \in Tabs(h), j \in Index :
            t # tab \/ j # v[l] => g.tables[t][j] = h.tables[t][j]
      /\ \A j \in Index : g.tables[u][j] = Absent
  BY <1>4, LinkEffect
<1>6. PICK k, a : k = l - 1 /\ a = Path(v, l - 1)
  OBVIOUS
<1>7. k \in Level /\ l = k + 1
  BY <1>6
<1>8. a \in Addr /\ a = Path(a, k)
  <2>1. a \in Addr /\ \A j \in Level : a[j] = IF j > k THEN v[j] ELSE 0
    BY <1>6, <1>7, PathType
  <2>2. Path(a, k) \in Addr /\ \A j \in Level : Path(a, k)[j] = IF j > k THEN a[j] ELSE 0
    BY <1>7, <2>1, PathType
  <2>3. \A j \in Level : Path(a, k)[j] = a[j]
    BY <2>1, <2>2
  <2>4. Path(a, k)[1] = a[1] /\ Path(a, k)[2] = a[2] /\ Path(a, k)[3] = a[3]
    BY <2>3
  <2>. QED
    BY <2>1, <2>2, <2>4, AddrEqual
<1>9. [at[tab] EXCEPT ![lvl[tab]] = v[l]] = a
  BY <1>3, <1>6, PathStep
<1>10. \A t \in kept, i \in Index :
              \/ g.tables[t][i] = h.tables[t][i]
              \/ /\ g.tables[t][i] = Interior(u)
                 /\ own[t] = o /\ lvl[t] = k + 1
                 /\ [at[t] EXCEPT ![lvl[t]] = i] = a
  <2>. SUFFICES ASSUME NEW t \in kept, NEW i \in Index, t = tab, i = v[l]
                PROVE  /\ g.tables[t][i] = Interior(u)
                       /\ own[t] = o /\ lvl[t] = k + 1
                       /\ [at[t] EXCEPT ![lvl[t]] = i] = a
    BY <1>5
  <2>. QED
    BY <1>3, <1>5, <1>7, <1>9
<1>11. \A q \in Owner : \/ R[q] = R[q]
                        \/ q = o /\ R[q] = u /\ k = 3 /\ a = Zero
  OBVIOUS
<1>. QED
  <2>1. Grafted(h, R, g, R, kept, own, lvl, at, o, u, k, a)
    BY ONLY <1>5, <1>10, <1>11 DEF Grafted
  <2>. QED
    BY ONLY <1>2, <1>7, <1>8, <2>1, Graft, HeapOK(h), o \in Owner

\* Linking a new table changes what nobody's walk finds.
LEMMA LinkOK ==
    ASSUME NEW h, HeapOK(h), NEW R, Forest(h, R), NEW o \in Owner, NEW v \in Addr,
           NEW l \in {2, 3}, NEW tab, tab = TableAt(h, R[o], v, l), tab # Null,
           h.tables[tab][v[l]] = Absent,
           NEW u, u = NewTable(h).root,
           NEW g, g = setPte(NewTable(h).heap, tab, v[l], Interior(u)), ~RanOut(g)
    PROVE  /\ HeapOK(g) /\ u # Null
           /\ g.data = h.data /\ g.mem = h.mem
           /\ OthersSame(h, g, R, o)
           /\ GrownTree(h, R[o], g, R[o])
           /\ \A w \in Addr : Walk(g, R[o], w) = Walk(h, R[o], w)
           /\ TableAt(g, R[o], v, l - 1) = u
<1>1. l \in Level /\ v[l] \in Index /\ tab \in Tabs(h)
  <2>1. l \in Level
    OBVIOUS
  <2>2. TableAt(h, R[o], v, l) # Null => TableAt(h, R[o], v, l) \in Tabs(h)
    BY <2>1, ForestWalk
  <2>. QED
    BY <2>1, <2>2, AddrAt
<1>2. /\ HeapOK(g)
      /\ u # Null /\ u \notin Tabs(h)
      /\ Tabs(g) = Tabs(h) \cup {u}
      /\ g.data = h.data /\ g.mem = h.mem
      /\ g.tables[tab][v[l]] = Interior(u)
      /\ \A t \in Tabs(h), j \in Index :
            t # tab \/ j # v[l] => g.tables[t][j] = h.tables[t][j]
      /\ \A j \in Index : g.tables[u][j] = Absent
  BY <1>1, LinkEffect
<1>3. ASSUME NEW q \in Owner, NEW w \in Addr, NEW k \in Level, NEW t,
             t = TableAt(h, R[q], w, k), t # Null,
             ~(q = o /\ k = l /\ w \in Through(v, l))
      PROVE  t \in Tabs(h) /\ t \in Tabs(g) /\ g.tables[t][w[k]] = h.tables[t][w[k]]
  <2>1. t \in Tabs(h) /\ w[k] \in Index
    BY <1>3, TableIn, AddrAt
  <2>2. t # tab \/ w[k] # v[l]
    BY <1>1, <1>3, OnlyThrough
  <2>. QED
    BY <1>2, <2>1, <2>2
<1>4. ASSUME NEW q \in Owner, NEW w \in Addr, ~(q = o /\ w \in Through(v, l))
      PROVE  SameWalk(h, g, R[q], w)
  <2>1. Unmoved(h, g, R[q], w)
    <3>1. ASSUME NEW k \in Level, NEW t, t = TableAt(h, R[q], w, k), t # Null
          PROVE  t \in Tabs(h) /\ t \in Tabs(g) /\ g.tables[t][w[k]] = h.tables[t][w[k]]
      BY <1>3, <1>4, <3>1
    <3>. QED
      BY <3>1 DEF Unmoved
  <2>. QED
    BY ONLY <1>2, <2>1, HeapOK(h), WalkUnchanged
<1>5. ASSUME NEW w \in Through(v, l)
      PROVE  /\ \A k \in Level : k >= l => TableAt(g, R[o], w, k) = TableAt(h, R[o], w, k)
             /\ TableAt(g, R[o], w, l - 1) = u
             /\ \A k \in Level : k < l => TableAt(h, R[o], w, k) = Null
             /\ Walk(h, R[o], w) = Absent /\ Walk(g, R[o], w) = Absent
  <2>1. w \in Addr /\ Path(w, l) = Path(v, l) /\ w[l] = v[l]
    BY DEF Through
  <2>2. TableAt(h, R[o], w, l) = tab
    BY <1>1, <2>1, ThroughSame
  <2>3. \A k \in Level : k >= l => TableAt(g, R[o], w, k) = TableAt(h, R[o], w, k)
    <3>1. ASSUME NEW k \in Level, NEW t, t = TableAt(h, R[o], w, k), k > l, t # Null
          PROVE  /\ t \in Tabs(h) /\ t \in Tabs(g)
                 /\ g.tables[t][w[k]].frame = h.tables[t][w[k]].frame
      <4>1. k # l
        BY <3>1
      <4>2. t \in Tabs(h) /\ t \in Tabs(g) /\ g.tables[t][w[k]] = h.tables[t][w[k]]
        BY <1>3, <2>1, <3>1, <4>1
      <4>. QED
        BY ONLY <4>2
    <3>2. UnmovedTo(h, g, R[o], w, l)
      BY <3>1 DEF UnmovedTo
    <3>. QED
      BY ONLY <1>1, <1>2, <2>1, <3>2, HeapOK(h), WalkDown
  <2>4. TableAt(g, R[o], w, l) = tab
    BY <1>1, <2>2, <2>3
  <2>5. TableAt(g, R[o], w, l - 1) = u
    <3>1. TableAt(g, R[o], w, l - 1) = Below(g, TableAt(g, R[o], w, l), w[l])
      BY TableBelow
    <3>2. Below(g, tab, v[l]) = u
      <4>1. Interior(u).frame = u
        BY DEF Interior, Entry
      <4>2. tab \in Tabs(g)
        BY <1>1, <1>2
      <4>3. g.tables[tab][v[l]] = Interior(u)
        BY <1>2
      <4>. QED
        BY ONLY <4>1, <4>2, <4>3 DEF Below, Tabs
    <3>. QED
      BY ONLY <2>1, <2>4, <3>1, <3>2
  <2>6. (\A k \in Level : k < l => TableAt(h, R[o], w, k) = Null) /\ Walk(h, R[o], w) = Absent
    <3>1. tab \in Tabs(h) /\ h.tables[tab][w[l]].frame = Null
      BY <1>1, <2>1 DEF Absent
    <3>2. l > 1
      OBVIOUS
    <3>. QED
      BY <1>1, <2>1, <2>2, <3>1, <3>2, NothingBelow
  <2>7. Walk(g, R[o], w) = Absent
    <3>1. PICK k : k = l - 1
      OBVIOUS
    <3>2. k \in Level /\ (k > 1 \/ k = 1) /\ TableAt(g, R[o], w, k) = u
      BY <2>5, <3>1
    <3>3. u \in Tabs(g) /\ g.tables[u][w[k]] = Absent
      BY <1>2, <2>1, <3>2, AddrIndex
    <3>4. CASE k > 1
      <4>1. g.tables[u][w[k]].frame = Null
        BY <3>3 DEF Absent
      <4>. QED
        BY <1>2, <2>1, <3>2, <3>3, <3>4, <4>1, NothingBelow
    <3>5. CASE k = 1
      <4>1. TableAt(g, R[o], w, TBL_LEVEL) = u
        BY ONLY <3>2, <3>5 DEF TBL_LEVEL
      <4>2. u \in DOMAIN g.tables /\ g.tables[u][w[TBL_LEVEL]] = Absent
        BY ONLY <3>3, <3>5 DEF TBL_LEVEL, Tabs
      <4>. QED
        BY ONLY <4>1, <4>2 DEF Walk
    <3>. QED
      BY <3>2, <3>4, <3>5
  <2>. QED
    BY <2>3, <2>5, <2>6, <2>7
<1>6. OthersSame(h, g, R, o)
  BY <1>4 DEF OthersSame
<1>7. \A w \in Addr : Walk(g, R[o], w) = Walk(h, R[o], w)
  BY <1>4, <1>5 DEF SameWalk
<1>8. v \in Through(v, l)
  BY DEF Through
<1>9. GrownTree(h, R[o], g, R[o])
  <2>1. ASSUME NEW w \in Addr, NEW k \in Level, TableAt(h, R[o], w, k) # Null
        PROVE  TableAt(g, R[o], w, k) = TableAt(h, R[o], w, k)
    <3>1. CASE w \in Through(v, l)
      <4>1. k >= l
        BY <1>5, <2>1, <3>1
      <4>. QED
        BY <1>5, <3>1, <4>1
    <3>2. CASE w \notin Through(v, l)
      BY <1>4, <3>2 DEF SameWalk
    <3>. QED
      BY <3>1, <3>2
  <2>2. \E w \in Addr, k \in Level : u = TableAt(g, R[o], w, k)
    <3>1. PICK k : k = l - 1
      OBVIOUS
    <3>2. k \in Level
      BY <3>1
    <3>3. u = TableAt(g, R[o], v, k)
      BY <1>5, <1>8, <3>1
    <3>. QED
      BY ONLY <3>2, <3>3, v \in Addr
  <2>3. Tabs(g) = Tabs(h) \cup {u}
    BY <1>2
  <2>. QED
    BY ONLY <2>1, <2>2, <2>3 DEF GrownTree
<1>. QED
  BY <1>2, <1>5, <1>6, <1>7, <1>8, <1>9

\* No change is a change of the right kind.
LEMMA SameIsSame ==
    ASSUME NEW h, NEW R, NEW o
    PROVE  OthersSame(h, h, R, o) /\ GrownTree(h, R[o], h, R[o])
  BY DEF OthersSame, SameWalk, GrownTree

\* The table below entry v[l] is there, or made.
LEMMA DescendOK ==
    ASSUME NEW h, HeapOK(h), NEW R, Forest(h, R), NEW o \in Owner, NEW v \in Addr,
           NEW l \in {2, 3}, NEW tab, tab = TableAt(h, R[o], v, l), tab # Null,
           NEW d, d = Descend(h, tab, v[l]), ~RanOut(d.heap)
    PROVE  /\ HeapOK(d.heap) /\ Forest(d.heap, R)
           /\ d.heap.data = h.data /\ d.heap.mem = h.mem
           /\ OthersSame(h, d.heap, R, o)
           /\ GrownTree(h, R[o], d.heap, R[o])
           /\ \A w \in Addr : Walk(d.heap, R[o], w) = Walk(h, R[o], w)
           /\ TableAt(d.heap, R[o], v, l - 1) = d.root
           /\ d.root # Null
<1>1. /\ tab \in Tabs(h)
      /\ TableAt(h, R[o], v, l - 1) = h.tables[tab][v[l]].frame
      /\ h.tables[tab][v[l]] = Absent \/ (exists(h.tables[tab][v[l]]) /\ h.tables[tab][v[l]].acc)
  <2>. DEFINE t == TableAt(h, R[o], v, l)
  <2>1. /\ t \in Tabs(h)
        /\ TableAt(h, R[o], v, l - 1) = h.tables[t][v[l]].frame
        /\ h.tables[t][v[l]] = Absent \/ (exists(h.tables[t][v[l]]) /\ h.tables[t][v[l]].acc)
    BY ForestEntry
  <2>2. t = tab
    OBVIOUS
  <2>. HIDE DEF t
  <2>. QED
    BY ONLY <2>1, <2>2
<1>2. CASE exists(h.tables[tab][v[l]])
  <2>1. d = [root |-> h.tables[tab][v[l]].frame, heap |-> h]
    BY <1>2 DEF Descend, nextTableOrFrame
  <2>2. d.heap = h /\ d.root = h.tables[tab][v[l]].frame
    BY <2>1
  <2>. QED
    BY <1>1, <1>2, <2>2, SameIsSame DEF exists
<1>3. CASE h.tables[tab][v[l]] = Absent
  <2>. DEFINE u == NewTable(h).root
              g == setPte(NewTable(h).heap, tab, v[l], Interior(u))
  <2>1. ~exists(h.tables[tab][v[l]])
    BY <1>3 DEF exists, Absent
  <2>2. d = [root |-> u, heap |-> g]
    BY <2>1 DEF Descend
  <2>3. d.root = u /\ d.heap = g
    BY <2>2
  <2>. HIDE DEF u
  <2>4. ~RanOut(g)
    BY <2>3
  <2>5. Forest(g, R)
    BY <2>4, LinkForest DEF u
  <2>6. /\ HeapOK(g) /\ u # Null
        /\ g.data = h.data /\ g.mem = h.mem
        /\ OthersSame(h, g, R, o)
        /\ GrownTree(h, R[o], g, R[o])
        /\ \A w \in Addr : Walk(g, R[o], w) = Walk(h, R[o], w)
        /\ TableAt(g, R[o], v, l - 1) = u
    BY <1>3, <2>4, LinkOK DEF u
  <2>. HIDE DEF g
  <2>. QED
    BY <2>3, <2>5, <2>6
<1>. QED
  BY <1>1, <1>2, <1>3

\* A leaf is set.
LEMMA LeafForest ==
    ASSUME NEW h, HeapOK(h), NEW R, Forest(h, R), NEW o \in Owner, NEW v \in Addr, v \in Page,
           NEW tab, tab = TableAt(h, R[o], v, 1), tab # Null,
           NEW pte \in Pte, exists(pte), pte.acc,
           NEW g, g = setPte(h, tab, v[1], pte)
    PROVE  Forest(g, R)
<1>1. PICK kept \in SUBSET Tabs(h) :
         \E own \in [kept -> Owner], lvl \in [kept -> Level], at \in [kept -> Addr] :
            Trees(h, R, kept, own, lvl, at)
  BY DEF Forest
<1>2. PICK own \in [kept -> Owner], lvl \in [kept -> Level], at \in [kept -> Addr] :
            Trees(h, R, kept, own, lvl, at)
  BY <1>1
<1>3. tab \in kept /\ lvl[tab] = 1 /\ at[tab] = Path(v, 1)
  BY <1>2, Placing
<1>4. v[1] \in Index /\ tab \in Tabs(h)
  BY <1>3, AddrIndex
<1>5. /\ Tabs(g) = Tabs(h)
      /\ g.tables[tab][v[1]] = pte
      /\ \A t \in Tabs(h), j \in Index :
            t # tab \/ j # v[1] => g.tables[t][j] = h.tables[t][j]
  BY <1>4, SetPteEffect
<1>6. ASSUME NEW t \in kept, NEW i \in Index
      PROVE  PlacedEntry(g, kept, own, lvl, at, t, i)
  <2>1. CASE t = tab /\ i = v[1]
    <3>1. [at[t] EXCEPT ![lvl[t]] = i] = v
      BY <1>3, <2>1, PathWhole
    <3>2. g.tables[t][i] = pte /\ lvl[t] = 1
      BY <1>3, <1>5, <2>1
    <3>. QED
      BY <3>1, <3>2 DEF PlacedEntry
  <2>2. CASE t # tab \/ i # v[1]
    <3>1. PlacedEntry(h, kept, own, lvl, at, t, i)
      BY <1>2 DEF Trees
    <3>2. g.tables[t][i] = h.tables[t][i]
      BY <1>5, <2>2
    <3>. QED
      BY <3>1, <3>2 DEF PlacedEntry
  <2>. QED
    BY <2>1, <2>2
<1>7. Trees(g, R, kept, own, lvl, at)
  BY <1>2, <1>5, <1>6 DEF Trees
<1>. QED
  BY <1>5, <1>7 DEF Forest

\* Setting a leaf entry changes what one address finds.
LEMMA LeafOK ==
    ASSUME NEW h, HeapOK(h), NEW R, Forest(h, R), NEW o \in Owner, NEW v \in Addr,
           NEW tab, tab = TableAt(h, R[o], v, 1), tab # Null,
           NEW pte \in Pte, NEW g, g = setPte(h, tab, v[1], pte)
    PROVE  /\ HeapOK(g)
           /\ Tabs(g) = Tabs(h) /\ g.data = h.data /\ g.mem = h.mem
           /\ \A q \in Owner, w \in Addr, k \in Level :
                 TableAt(g, R[q], w, k) = TableAt(h, R[q], w, k)
           /\ \A q \in Owner, w \in Addr :
                 Walk(g, R[q], w) = IF q = o /\ w = v THEN pte ELSE Walk(h, R[q], w)
<1>1. v[1] \in Index /\ tab \in Tabs(h)
  <2>1. 1 \in Level
    OBVIOUS
  <2>2. TableAt(h, R[o], v, 1) # Null => TableAt(h, R[o], v, 1) \in Tabs(h)
    BY ONLY <2>1, ForestWalk, HeapOK(h), Forest(h, R), o \in Owner, v \in Addr
  <2>. QED
    BY <2>2, AddrIndex
<1>2. /\ HeapOK(g)
      /\ Tabs(g) = Tabs(h) /\ g.data = h.data /\ g.mem = h.mem
      /\ g.tables[tab][v[1]] = pte
      /\ \A t \in Tabs(h), j \in Index :
            t # tab \/ j # v[1] => g.tables[t][j] = h.tables[t][j]
  BY <1>1, SetPteEffect
<1>3. ASSUME NEW q \in Owner, NEW w \in Addr
      PROVE  \A k \in Level : TableAt(g, R[q], w, k) = TableAt(h, R[q], w, k)
  <2>1. ASSUME NEW k \in Level, NEW t, t = TableAt(h, R[q], w, k), k > 1, t # Null
        PROVE  t \in Tabs(h) /\ t \in Tabs(g) /\ g.tables[t][w[k]].frame = h.tables[t][w[k]].frame
    <3>1. TableAt(h, R[q], w, k) # Null => TableAt(h, R[q], w, k) \in Tabs(h)
      BY ForestWalk
    <3>2. t # tab
      <4>1. k # 1
        BY <2>1
      <4>. QED
        BY <2>1, <4>1, TreesAreTrees
    <3>3. w[k] \in Index
      BY AddrAt
    <3>. QED
      BY <1>2, <2>1, <3>1, <3>2, <3>3
  <2>2. \A k \in Level : LET t == TableAt(h, R[q], w, k) IN
               k > 1 /\ t # Null => /\ t \in Tabs(h) /\ t \in Tabs(g)
                                    /\ g.tables[t][w[k]].frame = h.tables[t][w[k]].frame
    BY <2>1
  <2>3. \A k \in Level : k >= 1 => TableAt(g, R[q], w, k) = TableAt(h, R[q], w, k)
    <3>1. PICK n : n = 1
      OBVIOUS
    <3>2. n \in Level /\ UnmovedTo(h, g, R[q], w, n)
      BY <2>2, <3>1 DEF UnmovedTo
    <3>3. \A k \in Level : k >= n => TableAt(g, R[q], w, k) = TableAt(h, R[q], w, k)
      BY ONLY <1>2, <3>2, HeapOK(h), w \in Addr, WalkDown
    <3>. QED
      BY <3>1, <3>3
  <2>. QED
    BY <2>3
<1>4. ASSUME NEW q \in Owner, NEW w \in Addr
      PROVE  Walk(g, R[q], w) = IF q = o /\ w = v THEN pte ELSE Walk(h, R[q], w)
  <2>. DEFINE t == TableAt(h, R[q], w, 1)
  <2>1. t = TableAt(h, R[q], w, 1) /\ t = TableAt(g, R[q], w, 1)
    BY <1>3
  <2>2. w[1] \in Index
    BY AddrIndex
  <2>. HIDE DEF t
  <2>3. CASE q = o /\ w = v
    BY <1>1, <1>2, <2>1, <2>3 DEF Walk, Tabs
  <2>4. CASE ~(q = o /\ w = v) /\ t \notin Tabs(h)
    BY <1>2, <2>1, <2>4, WalkStays
  <2>5. CASE ~(q = o /\ w = v) /\ t \in Tabs(h)
    <3>1. t # tab \/ w[1] # v[1]
      <4>. SUFFICES ASSUME t = tab, w[1] = v[1]
                    PROVE  q = o /\ w = v
        BY <2>5
      <4>1. q = o /\ w \in Through(v, 1)
        BY <2>1, OnlyThrough
      <4>2. Path(w, 1) = Path(v, 1)
        BY <4>1 DEF Through
      <4>3. w = v
        BY <4>2, PathWhole
      <4>. QED
        BY <4>1, <4>3
    <3>2. g.tables[t][w[1]] = h.tables[t][w[1]]
      BY <1>2, <2>2, <2>5, <3>1
    <3>. QED
      BY <1>2, <2>1, <2>5, <3>2, WalkStays
  <2>. QED
    BY <2>3, <2>4, <2>5
<1>. QED
  BY <1>2, <1>3, <1>4

\* o's tree has grown; nothing else has changed.
TreeGrew(h, R, g, S, o) ==
    /\ HeapOK(g) /\ Forest(g, S)
    /\ g.data = h.data /\ g.mem = h.mem
    /\ OthersSame(h, g, R, o)
    /\ GrownTree(h, R[o], g, S[o])

\* Growth of one address space's tree adds up.
LEMMA TreeGrewTrans ==
    ASSUME NEW f, NEW Q, NEW g, NEW R, NEW h, NEW S, NEW o,
           \A q \in Owner : q # o => R[q] = Q[q],
           TreeGrew(f, Q, g, R, o), TreeGrew(g, R, h, S, o)
    PROVE  TreeGrew(f, Q, h, S, o)
<1>1. OthersSame(f, h, Q, o)
  BY OthersTrans DEF TreeGrew
<1>2. GrownTree(f, Q[o], h, S[o])
  BY GrownTrans DEF TreeGrew
<1>. QED
  BY <1>1, <1>2 DEF TreeGrew

\* A forest is one of the roots that its owners have.
LEMMA ForestRoots ==
    ASSUME NEW h, NEW R, Forest(h, R), NEW S, \A q \in Owner : S[q] = R[q]
    PROVE  Forest(h, S)
<1>1. PICK kept \in SUBSET Tabs(h) :
         \E own \in [kept -> Owner], lvl \in [kept -> Level], at \in [kept -> Addr] :
            Trees(h, R, kept, own, lvl, at)
  BY DEF Forest
<1>2. PICK own \in [kept -> Owner], lvl \in [kept -> Level], at \in [kept -> Addr] :
            Trees(h, R, kept, own, lvl, at)
  BY <1>1
<1>3. Trees(h, S, kept, own, lvl, at)
  BY <1>2 DEF Trees
<1>. QED
  BY <1>3 DEF Forest

\* The first step of mapping makes a root if there is none.
LEMMA TopOK ==
    ASSUME NEW h, HeapOK(h), NEW R, Forest(h, R), NEW o \in Owner,
           NEW d, d = MapTop(h, R[o]), ~RanOut(d.heap),
           NEW S, S[o] = d.root, \A q \in Owner : q # o => S[q] = R[q]
    PROVE  /\ TreeGrew(h, R, d.heap, S, o)
           /\ d.root # Null
           /\ R[o] # Null => d.root = R[o]
           /\ \A w \in Addr : Walk(d.heap, S[o], w) = Walk(h, R[o], w)
<1>1. CASE R[o] = Null
  <2>1. d = NewTable(h)
    BY <1>1 DEF MapTop
  <2>. DEFINE f == NewTable(h).root
              g == NewTable(h).heap
  <2>2. d.root = f /\ d.heap = g
    BY <2>1
  <2>3. ~RanOut(g) /\ S[o] = f
    BY <2>2
  <2>4. /\ HeapOK(g) /\ Forest(g, S) /\ f # Null
        /\ g.data = h.data /\ g.mem = h.mem
        /\ OthersSame(h, g, R, o)
        /\ GrownTree(h, R[o], g, f)
        /\ \A v \in Addr : Walk(g, f, v) = Walk(h, R[o], v)
    BY <1>1, <2>3, NewRootOK
  <2>. HIDE DEF f, g
  <2>. QED
    BY <1>1, <2>2, <2>3, <2>4 DEF TreeGrew
<1>2. CASE R[o] # Null
  <2>1. d = [root |-> R[o], heap |-> h]
    BY <1>2 DEF MapTop
  <2>2. d.root = R[o] /\ d.heap = h
    BY <2>1
  <2>3. \A q \in Owner : S[q] = R[q]
    BY <2>2
  <2>4. Forest(h, S)
    BY <2>3, ForestRoots
  <2>. QED
    BY <1>2, <2>2, <2>3, <2>4, SameIsSame DEF TreeGrew
<1>. QED
  BY <1>1, <1>2

\* Roots S are the roots R, but that o's is r.
Rerooted(R, S, o, r) == S[o] = r /\ \A q \in Owner : q # o => S[q] = R[q]

\* virt is mapped to pte in o's table, which is all that anyone sees.
Mapped(h, R, o, virt, pte, m, S) ==
    /\ TreeGrew(h, R, m.heap, S, o)
    /\ m.root # Null
    /\ R[o] # Null => m.root = R[o]
    /\ \A w \in Addr : Walk(m.heap, m.root, w) = IF w = virt THEN pte
                                                 ELSE Walk(h, R[o], w)

\* mapIntoPgTbl maps virt.
LEMMA MapOK ==
    ASSUME NEW h, HeapOK(h), NEW R, Forest(h, R), NEW o \in Owner, NEW r, r = R[o],
           NEW virt \in Page, NEW pte \in Pte, exists(pte), pte.acc,
           NEW m, m = mapIntoPgTbl(h, r, virt, pte), ~RanOut(m.heap),
           NEW S, Rerooted(R, S, o, m.root)
    PROVE  Mapped(h, R, o, virt, pte, m, S)
<1>0. S[o] = m.root /\ \A q \in Owner : q # o => S[q] = R[q]
  BY DEF Rerooted
<1>. DEFINE top == MapTop(h, R[o])
            dir == Descend(top.heap, top.root, virt[3])
            tbl == Descend(dir.heap, dir.root, virt[2])
            g == setPte(tbl.heap, tbl.root, virt[1], pte)
<1>1. m.root = top.root /\ m.heap = g
  BY MapSteps
<1>2. virt \in Addr /\ Shape(h)
  BY PgTblAssumption DEF HeapOK, Shape
<1>3. Grows(h, top.heap)
  BY <1>2, NewTableGrows, GrowsSelf DEF MapTop
<1>. HIDE DEF top
<1>4. Grows(top.heap, dir.heap)
  BY <1>3, DescendGrows DEF Grows
<1>. HIDE DEF dir
<1>5. Grows(dir.heap, tbl.heap)
  BY <1>4, DescendGrows DEF Grows
<1>. HIDE DEF tbl
<1>6. Grows(tbl.heap, g)
  BY <1>5, SetPteGrows DEF Grows
<1>. HIDE DEF g
<1>7. ~RanOut(tbl.heap)
  BY <1>1, <1>6, GrowsRanOut
<1>8. ~RanOut(dir.heap)
  BY <1>5, <1>7, GrowsRanOut
<1>9. ~RanOut(top.heap)
  BY <1>4, <1>8, GrowsRanOut
<1>10. /\ TreeGrew(h, R, top.heap, S, o)
       /\ top.root # Null
       /\ R[o] # Null => top.root = R[o]
       /\ \A w \in Addr : Walk(top.heap, S[o], w) = Walk(h, R[o], w)
  BY <1>0, <1>1, <1>9, TopOK DEF top
<1>11. /\ TreeGrew(top.heap, S, dir.heap, S, o)
       /\ \A w \in Addr : Walk(dir.heap, S[o], w) = Walk(top.heap, S[o], w)
       /\ TableAt(dir.heap, S[o], virt, 2) = dir.root
       /\ dir.root # Null
  <2>1. PICK l : l = 3
    OBVIOUS
  <2>2. l \in {2, 3} /\ l - 1 = 2 /\ dir = Descend(top.heap, top.root, virt[l])
    BY <2>1 DEF dir
  <2>3. top.root = TableAt(top.heap, S[o], virt, l)
    BY <1>0, <1>1, <2>1, TableAtIs
  <2>4. HeapOK(top.heap) /\ Forest(top.heap, S)
    BY <1>10 DEF TreeGrew
  <2>5. /\ HeapOK(dir.heap) /\ Forest(dir.heap, S)
        /\ dir.heap.data = top.heap.data /\ dir.heap.mem = top.heap.mem
        /\ OthersSame(top.heap, dir.heap, S, o)
        /\ GrownTree(top.heap, S[o], dir.heap, S[o])
        /\ \A w \in Addr : Walk(dir.heap, S[o], w) = Walk(top.heap, S[o], w)
        /\ TableAt(dir.heap, S[o], virt, l - 1) = dir.root
        /\ dir.root # Null
    BY <1>2, <1>8, <1>10, <2>2, <2>3, <2>4, DescendOK
  <2>6. TableAt(dir.heap, S[o], virt, 2) = dir.root
    BY ONLY <2>2, <2>5
  <2>. QED
    BY ONLY <2>5, <2>6 DEF TreeGrew
<1>12. /\ TreeGrew(dir.heap, S, tbl.heap, S, o)
       /\ \A w \in Addr : Walk(tbl.heap, S[o], w) = Walk(dir.heap, S[o], w)
       /\ TableAt(tbl.heap, S[o], virt, 1) = tbl.root
       /\ tbl.root # Null
  <2>1. PICK l : l = 2
    OBVIOUS
  <2>2. l \in {2, 3} /\ l - 1 = 1 /\ tbl = Descend(dir.heap, dir.root, virt[l])
    BY <2>1 DEF tbl
  <2>3. dir.root = TableAt(dir.heap, S[o], virt, l)
    BY <1>11, <2>1
  <2>4. HeapOK(dir.heap) /\ Forest(dir.heap, S)
    BY <1>11 DEF TreeGrew
  <2>5. /\ HeapOK(tbl.heap) /\ Forest(tbl.heap, S)
        /\ tbl.heap.data = dir.heap.data /\ tbl.heap.mem = dir.heap.mem
        /\ OthersSame(dir.heap, tbl.heap, S, o)
        /\ GrownTree(dir.heap, S[o], tbl.heap, S[o])
        /\ \A w \in Addr : Walk(tbl.heap, S[o], w) = Walk(dir.heap, S[o], w)
        /\ TableAt(tbl.heap, S[o], virt, l - 1) = tbl.root
        /\ tbl.root # Null
    BY <1>2, <1>7, <1>11, <2>2, <2>3, <2>4, DescendOK
  <2>6. TableAt(tbl.heap, S[o], virt, 1) = tbl.root
    BY ONLY <2>2, <2>5
  <2>. QED
    BY ONLY <2>5, <2>6 DEF TreeGrew
<1>13. HeapOK(tbl.heap) /\ Forest(tbl.heap, S)
  BY <1>12 DEF TreeGrew
<1>14. Forest(g, S)
  BY <1>2, <1>12, <1>13, LeafForest DEF g
<1>15. /\ HeapOK(g)
       /\ Tabs(g) = Tabs(tbl.heap) /\ g.data = tbl.heap.data /\ g.mem = tbl.heap.mem
       /\ \A q \in Owner, w \in Addr, k \in Level :
             TableAt(g, S[q], w, k) = TableAt(tbl.heap, S[q], w, k)
       /\ \A q \in Owner, w \in Addr :
             Walk(g, S[q], w) = IF q = o /\ w = virt THEN pte ELSE Walk(tbl.heap, S[q], w)
  BY <1>2, <1>12, <1>13, LeafOK DEF g
<1>16. TreeGrew(tbl.heap, S, g, S, o)
  <2>1. OthersSame(tbl.heap, g, S, o)
    BY <1>15 DEF OthersSame, SameWalk
  <2>2. GrownTree(tbl.heap, S[o], g, S[o])
    BY <1>15 DEF GrownTree
  <2>. QED
    BY <1>14, <1>15, <2>1, <2>2 DEF TreeGrew
<1>17. TreeGrew(h, R, g, S, o)
  <2>1. TreeGrew(h, R, dir.heap, S, o)
    BY <1>0, <1>10, <1>11, TreeGrewTrans
  <2>2. TreeGrew(h, R, tbl.heap, S, o)
    BY <1>0, <1>12, <2>1, TreeGrewTrans
  <2>. QED
    BY <1>0, <1>16, <2>2, TreeGrewTrans
<1>18. ASSUME NEW w \in Addr
       PROVE  Walk(g, S[o], w) = IF w = virt THEN pte ELSE Walk(h, R[o], w)
  <2>1. Walk(tbl.heap, S[o], w) = Walk(h, R[o], w)
    BY <1>10, <1>11, <1>12
  <2>2. Walk(g, S[o], w) = IF o = o /\ w = virt THEN pte ELSE Walk(tbl.heap, S[o], w)
    BY <1>15
  <2>. QED
    BY <2>1, <2>2
<1>. QED
  BY <1>0, <1>1, <1>10, <1>17, <1>18 DEF Mapped

(***************************************************************************)
(* Loops.                                                                  *)
(***************************************************************************)
LEMMA LeastIndex ==
    ASSUME NEW T \in SUBSET Nat, T # {}
    PROVE  \E k \in T : \A j \in T : k <= j
<1>1. \E k \in T : \A j \in T : <<j, k>> \notin OpToRel(<, Nat)
  BY NatLessThanWellFounded, WFMin
<1>2. PICK k \in T : \A j \in T : <<j, k>> \notin OpToRel(<, Nat)
  BY <1>1
<1>3. ASSUME NEW j \in T
      PROVE  k <= j
  <2>1. j \in Nat /\ k \in Nat
    OBVIOUS
  <2>2. ~(j < k)
    BY <1>2, <2>1, Zenon DEF OpToRel
  <2>. QED
    BY <2>1, <2>2
<1>. QED
  BY <1>3

\* Induction up to N over a set, which needs no operator.
LEMMA Induction ==
    ASSUME NEW N \in Nat, NEW T, 0 \in T, \A n \in 0 .. N - 1 : n \in T => n + 1 \in T
    PROVE  \A n \in 0 .. N : n \in T
<1>. DEFINE Out == {n \in 0 .. N : n \notin T}
<1>. SUFFICES ASSUME Out # {}
              PROVE  FALSE
  OBVIOUS
<1>1. PICK k \in Out : \A j \in Out : k <= j
  <2>1. Out \in SUBSET Nat
    OBVIOUS
  <2>. HIDE DEF Out
  <2>. QED
    BY <2>1, LeastIndex
<1>2. k \in 0 .. N /\ k \notin T /\ k # 0
  BY <1>1
<1>3. k - 1 \in 0 .. N - 1 /\ k - 1 \in 0 .. N /\ (k - 1) + 1 = k /\ ~(k <= k - 1)
  BY <1>2
<1>4. k - 1 \in T
  BY <1>1, <1>3
<1>. QED
  BY <1>2, <1>3, <1>4

\* One turn of a loop of level l over the entries of table tab: of the walkers that copy,
\* or, in the mode "free", of those that free.
Visit(mode, l, d, pte, i, idx, deep) ==
    CASE mode = "copy" /\ l = 1 -> CopyLeaf(d, pte, [idx EXCEPT ![TBL_LEVEL] = i], deep)
      [] mode = "copy" /\ l = 2 ->
            walkTbl(d, nextTableOrFrame(pte), [idx EXCEPT ![DIR_LEVEL] = i], deep)
      [] mode = "copy" /\ l = 3 ->
            walkDir(d, nextTableOrFrame(pte), [idx EXCEPT ![PDPT_LEVEL] = i], deep)
      [] mode = "free" /\ l = 1 ->
            IF pte.acc /\ pte.rw THEN [heap |-> Free(d.heap, nextTableOrFrame(pte))] ELSE d
      [] mode = "free" /\ l = 2 ->
            IF pte.acc THEN [heap |-> freeTbl(d.heap, nextTableOrFrame(pte))] ELSE d
      [] mode = "free" /\ l = 3 ->
            IF pte.acc THEN [heap |-> freeDir(d.heap, nextTableOrFrame(pte))] ELSE d

Turn(mode, l, d, tab, i, idx, deep) ==
    LET pte == d.heap.tables[tab][i]
    IN IF exists(pte) THEN Visit(mode, l, d, pte, i, idx, deep) ELSE d

\* The states of such a loop.
Loop(mode, l, c, tab, idx, deep, f) ==
    /\ f[0] = c
    /\ \A n \in Index : f[n + 1] = Turn(mode, l, f[n], tab, n, idx, deep)

Body(mode, l, c, tab, idx, deep, f) ==
    [n \in 0 .. Fanout |-> IF n = 0 THEN c
                           ELSE Turn(mode, l, f[n - 1], tab, n - 1, idx, deep)]

\* The function of EachEntry exists: each value depends on the one before.
LEMMA LoopExists ==
    ASSUME NEW mode, NEW l, NEW c, NEW tab, NEW idx, NEW deep
    PROVE  \E f : f = Body(mode, l, c, tab, idx, deep, f)
<1>. DEFINE S(d, n) == Turn(mode, l, d, tab, n, idx, deep)
            T == {m \in 0 .. Fanout : \E f : /\ f[0] = c
                                             /\ \A n \in 0 .. m - 1 : f[n + 1] = S(f[n], n)}
<1>. HIDE DEF S
<1>1. Fanout \in Nat /\ Fanout # 0
  BY PgTblAssumption
<1>2. 0 \in T
  <2>. DEFINE z == [n \in {0} |-> c]
  <2>1. z[0] = c
    OBVIOUS
  <2>. HIDE DEF z
  <2>2. \A n \in 0 .. 0 - 1 : z[n + 1] = S(z[n], n)
    OBVIOUS
  <2>3. 0 \in 0 .. Fanout
    BY <1>1
  <2>. QED
    BY <2>1, <2>2, <2>3
<1>3. ASSUME NEW m \in 0 .. Fanout - 1, m \in T
      PROVE  m + 1 \in T
  <2>1. PICK f : f[0] = c /\ \A n \in 0 .. m - 1 : f[n + 1] = S(f[n], n)
    BY <1>3
  <2>. DEFINE g == [n \in 0 .. m + 1 |-> IF n <= m THEN f[n] ELSE S(f[m], m)]
  <2>2. g[0] = c
    BY <2>1
  <2>3. ASSUME NEW n \in 0 .. m
        PROVE  g[n + 1] = S(g[n], n)
    <3>1. g[n] = f[n]
      OBVIOUS
    <3>2. CASE n = m
      BY <3>1, <3>2
    <3>3. CASE n # m
      <4>1. n \in 0 .. m - 1 /\ n + 1 \in 0 .. m + 1 /\ n + 1 <= m
        BY <3>3
      <4>2. g[n + 1] = f[n + 1]
        BY <4>1
      <4>. HIDE DEF g
      <4>. QED
        BY <2>1, <3>1, <4>1, <4>2
    <3>. QED
      BY <3>2, <3>3
  <2>. HIDE DEF g
  <2>4. \A n \in 0 .. (m + 1) - 1 : g[n + 1] = S(g[n], n)
    BY <2>3
  <2>5. m + 1 \in 0 .. Fanout
    BY <1>1
  <2>. QED
    BY <2>2, <2>4, <2>5
<1>4. Fanout \in T
  <2>. HIDE DEF T
  <2>1. Fanout \in 0 .. Fanout
    BY <1>1
  <2>. QED
    BY <1>1, <1>2, <1>3, <2>1, Induction
<1>5. PICK f : f[0] = c /\ \A n \in 0 .. Fanout - 1 : f[n + 1] = S(f[n], n)
  BY <1>4
<1>. DEFINE g == [n \in 0 .. Fanout |-> f[n]]
<1>6. ASSUME NEW n \in 0 .. Fanout
      PROVE  g[n] = IF n = 0 THEN c ELSE S(g[n - 1], n - 1)
  <2>1. CASE n = 0
    BY <1>5, <2>1
  <2>2. CASE n # 0
    <3>1. n - 1 \in 0 .. Fanout - 1 /\ n - 1 \in 0 .. Fanout /\ (n - 1) + 1 = n
      BY <1>1, <2>2
    <3>2. g[n - 1] = f[n - 1] /\ g[n] = f[n]
      BY <3>1
    <3>. HIDE DEF g
    <3>3. f[n] = S(f[n - 1], n - 1)
      BY <1>5, <3>1
    <3>. QED
      BY <2>2, <3>2, <3>3
  <2>. QED
    BY <2>1, <2>2
<1>7. g = [n \in 0 .. Fanout |-> IF n = 0 THEN c ELSE S(g[n - 1], n - 1)]
  BY <1>6
<1>. HIDE DEF g
<1>8. g = Body(mode, l, c, tab, idx, deep, g)
  BY <1>7 DEF Body, S
<1>. QED
  BY <1>8

\* What that function does: it starts with c and visits in order.
LEMMA BodyLoop ==
    ASSUME NEW mode, NEW l, NEW c, NEW tab, NEW idx, NEW deep, NEW f,
           f = Body(mode, l, c, tab, idx, deep, f)
    PROVE  Loop(mode, l, c, tab, idx, deep, f)
<1>1. Fanout \in Nat /\ Fanout # 0
  BY PgTblAssumption
<1>2. f[0] = c
  BY <1>1 DEF Body
<1>3. ASSUME NEW n \in Index
      PROVE  f[n + 1] = Turn(mode, l, f[n], tab, n, idx, deep)
  <2>1. n + 1 \in 0 .. Fanout /\ n + 1 # 0 /\ (n + 1) - 1 = n
    BY <1>1 DEF Index
  <2>. QED
    BY <2>1 DEF Body
<1>. QED
  BY <1>2, <1>3 DEF Loop

\* The walkers run such loops.
LEMMA WalkTblLoop ==
    ASSUME NEW c, NEW tab, NEW idx, NEW deep
    PROVE  \E f : Loop("copy", 1, c, tab, idx, deep, f) /\ walkTbl(c, tab, idx, deep) = f[Fanout]
<1>. DEFINE Step(d, i) ==
              IF exists(d.heap.tables[tab][i])
              THEN CopyLeaf(d, d.heap.tables[tab][i], [idx EXCEPT ![TBL_LEVEL] = i], deep)
              ELSE d
            B(f) == [n \in 0 .. Fanout |-> IF n = 0 THEN c ELSE Step(f[n - 1], n - 1)]
            F == CHOOSE f : f = B(f)
<1>1. walkTbl(c, tab, idx, deep) = F[Fanout]
  BY DEF walkTbl, EachEntry
<1>2. \A d, i : Step(d, i) = Turn("copy", 1, d, tab, i, idx, deep)
  BY DEF Turn, Visit
<1>. HIDE DEF Step
<1>3. \A f : B(f) = Body("copy", 1, c, tab, idx, deep, f)
  BY <1>2 DEF Body
<1>. HIDE DEF B
<1>4. F = B(F)
  BY <1>3, LoopExists
<1>. HIDE DEF F
<1>. QED
  BY <1>1, <1>3, <1>4, BodyLoop

\* walkDir is such a loop.
LEMMA WalkDirLoop ==
    ASSUME NEW c, NEW tab, NEW idx, NEW deep
    PROVE  \E f : Loop("copy", 2, c, tab, idx, deep, f) /\ walkDir(c, tab, idx, deep) = f[Fanout]
<1>. DEFINE Step(d, i) ==
              IF exists(d.heap.tables[tab][i])
              THEN walkTbl(d, nextTableOrFrame(d.heap.tables[tab][i]), [idx EXCEPT ![DIR_LEVEL] = i], deep)
              ELSE d
            B(f) == [n \in 0 .. Fanout |-> IF n = 0 THEN c ELSE Step(f[n - 1], n - 1)]
            F == CHOOSE f : f = B(f)
<1>1. walkDir(c, tab, idx, deep) = F[Fanout]
  BY DEF walkDir, EachEntry
<1>2. \A d, i : Step(d, i) = Turn("copy", 2, d, tab, i, idx, deep)
  BY DEF Turn, Visit
<1>. HIDE DEF Step
<1>3. \A f : B(f) = Body("copy", 2, c, tab, idx, deep, f)
  BY <1>2 DEF Body
<1>. HIDE DEF B
<1>4. F = B(F)
  BY <1>3, LoopExists
<1>. HIDE DEF F
<1>. QED
  BY <1>1, <1>3, <1>4, BodyLoop

\* walkPdpt is such a loop.
LEMMA WalkPdptLoop ==
    ASSUME NEW c, NEW tab, NEW idx, NEW deep
    PROVE  \E f : Loop("copy", 3, c, tab, idx, deep, f) /\ walkPdpt(c, tab, idx, deep) = f[Fanout]
<1>. DEFINE Step(d, i) ==
              IF exists(d.heap.tables[tab][i])
              THEN walkDir(d, nextTableOrFrame(d.heap.tables[tab][i]), [idx EXCEPT ![PDPT_LEVEL] = i], deep)
              ELSE d
            B(f) == [n \in 0 .. Fanout |-> IF n = 0 THEN c ELSE Step(f[n - 1], n - 1)]
            F == CHOOSE f : f = B(f)
<1>1. walkPdpt(c, tab, idx, deep) = F[Fanout]
  BY DEF walkPdpt, EachEntry
<1>2. \A d, i : Step(d, i) = Turn("copy", 3, d, tab, i, idx, deep)
  BY DEF Turn, Visit
<1>. HIDE DEF Step
<1>3. \A f : B(f) = Body("copy", 3, c, tab, idx, deep, f)
  BY <1>2 DEF Body
<1>. HIDE DEF B
<1>4. F = B(F)
  BY <1>3, LoopExists
<1>. HIDE DEF F
<1>. QED
  BY <1>1, <1>3, <1>4, BodyLoop

\* freeTbl is such a loop.
LEMMA FreeTblLoop ==
    ASSUME NEW h, NEW tab
    PROVE  \E f : /\ Loop("free", 1, [heap |-> h], tab, Zero, Null, f)
                  /\ freeTbl(h, tab) = Free(f[Fanout].heap, tab)
<1>. DEFINE c == [heap |-> h]
            Step(d, i) ==
              IF exists(d.heap.tables[tab][i])
              THEN IF d.heap.tables[tab][i].acc /\ d.heap.tables[tab][i].rw
                   THEN [heap |-> Free(d.heap, nextTableOrFrame(d.heap.tables[tab][i]))] ELSE d
              ELSE d
            B(f) == [n \in 0 .. Fanout |-> IF n = 0 THEN c ELSE Step(f[n - 1], n - 1)]
            F == CHOOSE f : f = B(f)
<1>1. freeTbl(h, tab) = Free(F[Fanout].heap, tab)
  BY DEF freeTbl, EachEntry
<1>2. \A d, i : Step(d, i) = Turn("free", 1, d, tab, i, Zero, Null)
  BY DEF Turn, Visit
<1>. HIDE DEF Step, c
<1>3. \A f : B(f) = Body("free", 1, c, tab, Zero, Null, f)
  BY <1>2 DEF Body
<1>. HIDE DEF B
<1>4. F = B(F)
  BY <1>3, LoopExists
<1>. HIDE DEF F
<1>5. Loop("free", 1, c, tab, Zero, Null, F)
  BY <1>3, <1>4, BodyLoop
<1>. QED
  BY <1>1, <1>5 DEF c

\* freeDir is such a loop.
LEMMA FreeDirLoop ==
    ASSUME NEW h, NEW tab
    PROVE  \E f : /\ Loop("free", 2, [heap |-> h], tab, Zero, Null, f)
                  /\ freeDir(h, tab) = Free(f[Fanout].heap, tab)
<1>. DEFINE c == [heap |-> h]
            Step(d, i) ==
              IF exists(d.heap.tables[tab][i])
              THEN IF d.heap.tables[tab][i].acc
                   THEN [heap |-> freeTbl(d.heap, nextTableOrFrame(d.heap.tables[tab][i]))] ELSE d
              ELSE d
            B(f) == [n \in 0 .. Fanout |-> IF n = 0 THEN c ELSE Step(f[n - 1], n - 1)]
            F == CHOOSE f : f = B(f)
<1>1. freeDir(h, tab) = Free(F[Fanout].heap, tab)
  BY DEF freeDir, EachEntry
<1>2. \A d, i : Step(d, i) = Turn("free", 2, d, tab, i, Zero, Null)
  BY DEF Turn, Visit
<1>. HIDE DEF Step, c
<1>3. \A f : B(f) = Body("free", 2, c, tab, Zero, Null, f)
  BY <1>2 DEF Body
<1>. HIDE DEF B
<1>4. F = B(F)
  BY <1>3, LoopExists
<1>. HIDE DEF F
<1>5. Loop("free", 2, c, tab, Zero, Null, F)
  BY <1>3, <1>4, BodyLoop
<1>. QED
  BY <1>1, <1>5 DEF c

\* freePageTable is such a loop.
LEMMA FreePageTableLoop ==
    ASSUME NEW h, NEW tab
    PROVE  \E f : /\ Loop("free", 3, [heap |-> h], tab, Zero, Null, f)
                  /\ freePageTable(h, tab) = Free(f[Fanout].heap, tab)
<1>. DEFINE c == [heap |-> h]
            Step(d, i) ==
              IF exists(d.heap.tables[tab][i])
              THEN IF d.heap.tables[tab][i].acc
                   THEN [heap |-> freeDir(d.heap, nextTableOrFrame(d.heap.tables[tab][i]))] ELSE d
              ELSE d
            B(f) == [n \in 0 .. Fanout |-> IF n = 0 THEN c ELSE Step(f[n - 1], n - 1)]
            F == CHOOSE f : f = B(f)
<1>1. freePageTable(h, tab) = Free(F[Fanout].heap, tab)
  BY DEF freePageTable, EachEntry
<1>2. \A d, i : Step(d, i) = Turn("free", 3, d, tab, i, Zero, Null)
  BY DEF Turn, Visit
<1>. HIDE DEF Step, c
<1>3. \A f : B(f) = Body("free", 3, c, tab, Zero, Null, f)
  BY <1>2 DEF Body
<1>. HIDE DEF B
<1>4. F = B(F)
  BY <1>3, LoopExists
<1>. HIDE DEF F
<1>5. Loop("free", 3, c, tab, Zero, Null, F)
  BY <1>3, <1>4, BodyLoop
<1>. QED
  BY <1>1, <1>5 DEF c

\* The walkers by their level.
walkAt(l, c, tab, idx, deep) ==
    CASE l = 1 -> walkTbl(c, tab, idx, deep)
      [] l = 2 -> walkDir(c, tab, idx, deep)
      [] l = 3 -> walkPdpt(c, tab, idx, deep)

freeAt(l, h, tab) ==
    CASE l = 1 -> freeTbl(h, tab)
      [] l = 2 -> freeDir(h, tab)
      [] l = 3 -> freePageTable(h, tab)

\* The copying walker of any level.
LEMMA WalkLoop ==
    ASSUME NEW l \in Level, NEW c, NEW tab, NEW idx, NEW deep
    PROVE  \E f : Loop("copy", l, c, tab, idx, deep, f) /\ walkAt(l, c, tab, idx, deep) = f[Fanout]
<1>1. CASE l = 1
  <2>1. walkAt(l, c, tab, idx, deep) = walkTbl(c, tab, idx, deep)
    BY <1>1 DEF walkAt
  <2>2. PICK f : Loop("copy", 1, c, tab, idx, deep, f) /\ walkTbl(c, tab, idx, deep) = f[Fanout]
    BY WalkTblLoop
  <2>3. Loop("copy", l, c, tab, idx, deep, f)
    BY ONLY <1>1, <2>2
  <2>. QED
    BY ONLY <2>1, <2>2, <2>3
<1>2. CASE l = 2
  <2>1. walkAt(l, c, tab, idx, deep) = walkDir(c, tab, idx, deep)
    BY <1>2 DEF walkAt
  <2>2. PICK f : Loop("copy", 2, c, tab, idx, deep, f) /\ walkDir(c, tab, idx, deep) = f[Fanout]
    BY WalkDirLoop
  <2>3. Loop("copy", l, c, tab, idx, deep, f)
    BY ONLY <1>2, <2>2
  <2>. QED
    BY ONLY <2>1, <2>2, <2>3
<1>3. CASE l = 3
  <2>1. walkAt(l, c, tab, idx, deep) = walkPdpt(c, tab, idx, deep)
    BY <1>3 DEF walkAt
  <2>2. PICK f : Loop("copy", 3, c, tab, idx, deep, f) /\ walkPdpt(c, tab, idx, deep) = f[Fanout]
    BY WalkPdptLoop
  <2>3. Loop("copy", l, c, tab, idx, deep, f)
    BY ONLY <1>3, <2>2
  <2>. QED
    BY ONLY <2>1, <2>2, <2>3
<1>. QED
  BY <1>1, <1>2, <1>3, Levels

\* The freeing walker of any level.
LEMMA FreeLoop ==
    ASSUME NEW l \in Level, NEW h, NEW tab
    PROVE  \E f : /\ Loop("free", l, [heap |-> h], tab, Zero, Null, f)
                  /\ freeAt(l, h, tab) = Free(f[Fanout].heap, tab)
<1>1. CASE l = 1
  <2>1. freeAt(l, h, tab) = freeTbl(h, tab)
    BY <1>1 DEF freeAt
  <2>2. PICK f : /\ Loop("free", 1, [heap |-> h], tab, Zero, Null, f)
                 /\ freeTbl(h, tab) = Free(f[Fanout].heap, tab)
    BY FreeTblLoop
  <2>3. Loop("free", l, [heap |-> h], tab, Zero, Null, f)
    BY ONLY <1>1, <2>2
  <2>. QED
    BY ONLY <2>1, <2>2, <2>3
<1>2. CASE l = 2
  <2>1. freeAt(l, h, tab) = freeDir(h, tab)
    BY <1>2 DEF freeAt
  <2>2. PICK f : /\ Loop("free", 2, [heap |-> h], tab, Zero, Null, f)
                 /\ freeDir(h, tab) = Free(f[Fanout].heap, tab)
    BY FreeDirLoop
  <2>3. Loop("free", l, [heap |-> h], tab, Zero, Null, f)
    BY ONLY <1>2, <2>2
  <2>. QED
    BY ONLY <2>1, <2>2, <2>3
<1>3. CASE l = 3
  <2>1. freeAt(l, h, tab) = freePageTable(h, tab)
    BY <1>3 DEF freeAt
  <2>2. PICK f : /\ Loop("free", 3, [heap |-> h], tab, Zero, Null, f)
                 /\ freePageTable(h, tab) = Free(f[Fanout].heap, tab)
    BY FreePageTableLoop
  <2>3. Loop("free", l, [heap |-> h], tab, Zero, Null, f)
    BY ONLY <1>3, <2>2
  <2>. QED
    BY ONLY <2>1, <2>2, <2>3
<1>. QED
  BY <1>1, <1>2, <1>3, Levels

\* The path through entry n.
Sub(idx, l, n) == [idx EXCEPT ![l] = n]

\* What copying does with an entry above the leaves.
LEMMA CopyVisitBelow ==
    ASSUME NEW l \in {2, 3}, NEW k, k = l - 1, NEW d, NEW pte, NEW i, NEW idx, NEW deep,
           NEW s, s = Sub(idx, l, i)
    PROVE  Visit("copy", l, d, pte, i, idx, deep) = walkAt(k, d, pte.frame, s, deep)
<1>1. CASE l = 2
  <2>1. k = 1
    BY <1>1
  <2>2. walkAt(1, d, pte.frame, s, deep) = walkTbl(d, pte.frame, s, deep)
    BY DEF walkAt
  <2>3. Visit("copy", 2, d, pte, i, idx, deep) = walkTbl(d, pte.frame, s, deep)
    BY <1>1 DEF Visit, nextTableOrFrame, Sub
  <2>. QED
    BY ONLY <1>1, <2>1, <2>2, <2>3
<1>2. CASE l = 3
  <2>1. k = 2
    BY <1>2
  <2>2. walkAt(2, d, pte.frame, s, deep) = walkDir(d, pte.frame, s, deep)
    BY DEF walkAt
  <2>3. Visit("copy", 3, d, pte, i, idx, deep) = walkDir(d, pte.frame, s, deep)
    BY <1>2 DEF Visit, nextTableOrFrame, Sub
  <2>. QED
    BY ONLY <1>2, <2>1, <2>2, <2>3
<1>. QED
  BY <1>1, <1>2

\* What freeing does with an accessed entry above the leaves.
LEMMA FreeVisitBelow ==
    ASSUME NEW l \in {2, 3}, NEW k, k = l - 1, NEW d, NEW pte, NEW i, NEW idx, NEW deep,
           pte.acc
    PROVE  Visit("free", l, d, pte, i, idx, deep).heap = freeAt(k, d.heap, pte.frame)
<1>1. CASE l = 2
  <2>1. k = 1
    BY <1>1
  <2>2. freeAt(1, d.heap, pte.frame) = freeTbl(d.heap, pte.frame)
    BY DEF freeAt
  <2>3. Visit("free", 2, d, pte, i, idx, deep).heap = freeTbl(d.heap, pte.frame)
    BY DEF Visit, nextTableOrFrame
  <2>. QED
    BY ONLY <1>1, <2>1, <2>2, <2>3
<1>2. CASE l = 3
  <2>1. k = 2
    BY <1>2
  <2>2. freeAt(2, d.heap, pte.frame) = freeDir(d.heap, pte.frame)
    BY DEF freeAt
  <2>3. Visit("free", 3, d, pte, i, idx, deep).heap = freeDir(d.heap, pte.frame)
    BY DEF Visit, nextTableOrFrame
  <2>. QED
    BY ONLY <1>2, <2>1, <2>2, <2>3
<1>. QED
  BY <1>1, <1>2

(***************************************************************************)
(* Walkers that copy only add to the heap.                                 *)
(***************************************************************************)
\* A data page is added.
CopiedPage(h, f, val) == [h EXCEPT !.data = @ \cup {f}, !.mem[f] = val]

\* A page of data is added.
LEMMA CopiedPageShape ==
    ASSUME NEW h, Shape(h), NEW f, NEW val, NEW g, g = CopiedPage(h, f, val)
    PROVE  Shape(g) /\ g.tables = h.tables /\ g.data = h.data \cup {f}
<1>. DEFINE m == [h.mem EXCEPT ![f] = val]
<1>1. g = [[h EXCEPT !.data = h.data \cup {f}] EXCEPT !.mem = m]
  BY DEF CopiedPage, Shape
<1>. HIDE DEF m
<1>2. g = [tables |-> h.tables, data |-> h.data \cup {f}, mem |-> m]
  BY <1>1 DEF Shape
<1>. QED
  BY ONLY <1>2 DEF Shape

\* What a new page of data contains, and what stays.
LEMMA CopiedPageEffect ==
    ASSUME NEW h, HeapOK(h), NEW f \in Frame, f \notin Tabs(h), NEW val \in Val,
           NEW g, g = CopiedPage(h, f, val)
    PROVE  /\ HeapOK(g)
           /\ g.tables = h.tables /\ g.data = h.data \cup {f}
           /\ g.mem[f] = val
           /\ \A x \in Frame \cup Elf : x # f => g.mem[x] = h.mem[x]
<1>. DEFINE m == [h.mem EXCEPT ![f] = val]
<1>1. g = [[h EXCEPT !.data = h.data \cup {f}] EXCEPT !.mem = m]
  BY DEF CopiedPage, HeapOK
<1>2. /\ m \in [Frame \cup Elf -> Val] /\ m[f] = val
      /\ \A x \in Frame \cup Elf : x # f => m[x] = h.mem[x]
  BY DEF HeapOK
<1>. HIDE DEF m
<1>3. g = [tables |-> h.tables, data |-> h.data \cup {f}, mem |-> m]
  BY <1>1 DEF HeapOK
<1>4. /\ g = [tables |-> g.tables, data |-> g.data, mem |-> g.mem]
      /\ g.tables = h.tables /\ g.data = h.data \cup {f} /\ g.mem = m
  BY ONLY <1>3
<1>5. Tabs(g) = Tabs(h)
  BY <1>4 DEF Tabs
<1>6. HeapOK(g)
  BY <1>2, <1>4, <1>5 DEF HeapOK
<1>. QED
  BY <1>2, <1>4, <1>6

\* The three cases of a leaf that is copied.
LEMMA CopyLeafIs ==
    ASSUME NEW c, NEW pte, NEW virt, NEW deep
    PROVE  LET f == Alloc(c.heap)
               copied == CopiedPage(c.heap, f, c.heap.mem[pte.frame])
           IN CopyLeaf(c, pte, virt, deep) =
                 IF ~pte.dirty THEN c
                 ELSE IF deep /\ pte.rw
                 THEN mapIntoPgTbl(copied, c.root, virt, Entry(f, TRUE, TRUE))
                 ELSE mapIntoPgTbl(c.heap, c.root, virt, Entry(pte.frame, FALSE, TRUE))
  BY DEF CopyLeaf, copyDirtyPage, findAndSetPTECOW, CopiedPage, nextTableOrFrame

\* Copying a leaf frees nothing.
LEMMA CopyLeafGrows ==
    ASSUME NEW c, Shape(c.heap), NEW pte, NEW virt, NEW deep
    PROVE  Grows(c.heap, CopyLeaf(c, pte, virt, deep).heap)
<1>. DEFINE f == Alloc(c.heap)
            copied == CopiedPage(c.heap, f, c.heap.mem[pte.frame])
            e == CopyLeaf(c, pte, virt, deep)
<1>1. e = IF ~pte.dirty THEN c
          ELSE IF deep /\ pte.rw
          THEN mapIntoPgTbl(copied, c.root, virt, Entry(f, TRUE, TRUE))
          ELSE mapIntoPgTbl(c.heap, c.root, virt, Entry(pte.frame, FALSE, TRUE))
  BY CopyLeafIs
<1>2. Shape(copied) /\ Grows(c.heap, copied)
  <2>1. Shape(copied) /\ copied.tables = c.heap.tables /\ copied.data = c.heap.data \cup {f}
    BY CopiedPageShape
  <2>. HIDE DEF copied, f
  <2>. QED
    BY <2>1 DEF Grows, Tabs
<1>. HIDE DEF copied, f, e
<1>3. CASE ~pte.dirty
  BY <1>1, <1>3, GrowsSelf DEF e
<1>4. CASE pte.dirty /\ deep /\ pte.rw
  <2>1. Grows(copied, mapIntoPgTbl(copied, c.root, virt, Entry(f, TRUE, TRUE)).heap)
    BY <1>2, MapGrows
  <2>. QED
    BY <1>1, <1>2, <1>4, <2>1, GrowsTrans DEF e
<1>5. CASE pte.dirty /\ ~(deep /\ pte.rw)
  BY <1>1, <1>5, MapGrows DEF e
<1>. QED
  BY <1>3, <1>4, <1>5

\* A loop frees nothing if no visit does.
LEMMA LoopGrows ==
    ASSUME NEW l, NEW c, Shape(c.heap), NEW tab, NEW idx, NEW deep, NEW f,
           Loop("copy", l, c, tab, idx, deep, f),
           \A d, pte, i : Shape(d.heap) =>
              Grows(d.heap, Visit("copy", l, d, pte, i, idx, deep).heap)
    PROVE  /\ \A n \in 0 .. Fanout : Grows(c.heap, f[n].heap)
           /\ \A n \in Index : Grows(f[n].heap, f[n + 1].heap)
<1>. DEFINE T == {n \in 0 .. Fanout : Grows(c.heap, f[n].heap)}
<1>1. Fanout \in Nat
  BY PgTblAssumption
<1>2. 0 \in T
  BY <1>1, GrowsSelf DEF Loop
<1>3. ASSUME NEW n \in Index, Grows(c.heap, f[n].heap)
      PROVE  Grows(f[n].heap, f[n + 1].heap)
  <2>1. f[n + 1] = Turn("copy", l, f[n], tab, n, idx, deep)
    BY DEF Loop
  <2>2. Shape(f[n].heap)
    BY <1>3 DEF Grows
  <2>3. Grows(f[n].heap, Turn("copy", l, f[n], tab, n, idx, deep).heap)
    BY <2>2, GrowsSelf DEF Turn
  <2>. QED
    BY <2>1, <2>3
<1>4. ASSUME NEW n \in 0 .. Fanout - 1, n \in T
      PROVE  n + 1 \in T
  <2>1. n \in Index /\ n + 1 \in 0 .. Fanout
    BY <1>1 DEF Index
  <2>2. Grows(c.heap, f[n + 1].heap)
    BY <1>3, <1>4, <2>1, GrowsTrans
  <2>. QED
    BY <2>1, <2>2
<1>5. \A n \in 0 .. Fanout : n \in T
  <2>. HIDE DEF T
  <2>. QED
    BY <1>1, <1>2, <1>4, Induction
<1>6. \A n \in 0 .. Fanout : Grows(c.heap, f[n].heap)
  BY <1>5
<1>7. \A n \in Index : n \in 0 .. Fanout
  BY <1>1 DEF Index
<1>. QED
  BY <1>3, <1>6, <1>7

\* All visits of a walker of level l.
VisitsGrow(l) ==
    \A d, pte, i, idx, deep : Shape(d.heap) =>
        Grows(d.heap, Visit("copy", l, d, pte, i, idx, deep).heap)

\* So for the walker of a level.
LEMMA WalkGrowsIf ==
    ASSUME NEW l \in Level, VisitsGrow(l), NEW c, Shape(c.heap), NEW tab, NEW idx, NEW deep
    PROVE  Grows(c.heap, walkAt(l, c, tab, idx, deep).heap)
<1>1. PICK f : Loop("copy", l, c, tab, idx, deep, f) /\ walkAt(l, c, tab, idx, deep) = f[Fanout]
  BY WalkLoop
<1>2. \A d, pte, i : Shape(d.heap) => Grows(d.heap, Visit("copy", l, d, pte, i, idx, deep).heap)
  BY DEF VisitsGrow
<1>3. \A n \in 0 .. Fanout : Grows(c.heap, f[n].heap)
  BY <1>1, <1>2, LoopGrows
<1>4. Fanout \in 0 .. Fanout
  BY PgTblAssumption
<1>. QED
  BY <1>1, <1>3, <1>4

\* No visit of a copying walker frees anything, at any level.
LEMMA VisitsGrowAll == VisitsGrow(1) /\ VisitsGrow(2) /\ VisitsGrow(3)
<1>1. VisitsGrow(1)
  <2>. SUFFICES ASSUME NEW d, NEW pte, NEW i, NEW idx, NEW deep, Shape(d.heap)
                PROVE  Grows(d.heap, Visit("copy", 1, d, pte, i, idx, deep).heap)
    BY DEF VisitsGrow
  <2>2. Grows(d.heap, CopyLeaf(d, pte, [idx EXCEPT ![1] = i], deep).heap)
    BY CopyLeafGrows
  <2>1. Visit("copy", 1, d, pte, i, idx, deep) =
           CopyLeaf(d, pte, [idx EXCEPT ![1] = i], deep)
    BY DEF Visit
  <2>. QED
    BY ONLY <2>1, <2>2
<1>2. VisitsGrow(2)
  <2>. SUFFICES ASSUME NEW d, NEW pte, NEW i, NEW idx, NEW deep, Shape(d.heap)
                PROVE  Grows(d.heap, Visit("copy", 2, d, pte, i, idx, deep).heap)
    BY DEF VisitsGrow
  <2>2. Grows(d.heap, walkAt(1, d, pte.frame, [idx EXCEPT ![2] = i], deep).heap)
    BY <1>1, WalkGrowsIf
  <2>1. Visit("copy", 2, d, pte, i, idx, deep) =
           walkAt(1, d, pte.frame, [idx EXCEPT ![2] = i], deep)
    BY DEF Visit, walkAt, nextTableOrFrame
  <2>. QED
    BY ONLY <2>1, <2>2
<1>3. VisitsGrow(3)
  <2>. SUFFICES ASSUME NEW d, NEW pte, NEW i, NEW idx, NEW deep, Shape(d.heap)
                PROVE  Grows(d.heap, Visit("copy", 3, d, pte, i, idx, deep).heap)
    BY DEF VisitsGrow
  <2>2. Grows(d.heap, walkAt(2, d, pte.frame, [idx EXCEPT ![3] = i], deep).heap)
    BY <1>2, WalkGrowsIf
  <2>1. Visit("copy", 3, d, pte, i, idx, deep) =
           walkAt(2, d, pte.frame, [idx EXCEPT ![3] = i], deep)
    BY DEF Visit, walkAt, nextTableOrFrame
  <2>. QED
    BY ONLY <2>1, <2>2
<1>. QED
  BY <1>1, <1>2, <1>3

(***************************************************************************)
(* The addresses that a loop of level l, at the path idx, has dealt with   *)
(* after n entries.                                                        *)
(***************************************************************************)
Ahead(l, idx, n) == {v \in Addr : Path(v, l) = idx /\ v[l] < n}

\* Before the loop no address has been dealt with.
LEMMA AheadNone ==
    ASSUME NEW l \in Level, NEW idx
    PROVE  Ahead(l, idx, 0) = {}
<1>. SUFFICES ASSUME NEW v \in Addr, v[l] < 0
              PROVE  FALSE
  BY DEF Ahead
<1>1. v[l] \in Index
  BY AddrAt
<1>. QED
  BY <1>1, PgTblAssumption DEF Index

\* After the loop over the top table all have.
LEMMA AheadAll == Ahead(3, Zero, Fanout) = Addr
<1>. SUFFICES ASSUME NEW v \in Addr
              PROVE  Path(v, 3) = Zero /\ v[3] < Fanout
  BY DEF Ahead
<1>1. v[3] \in Index
  BY AddrIndex
<1>. QED
  BY <1>1, PathTop, PgTblAssumption DEF Index

\* The indices below an entry.
LEMMA SubIndex ==
    ASSUME NEW v \in Addr, NEW l \in Level, NEW i \in Index
    PROVE  /\ Sub(v, l, i) \in Addr
           /\ Sub(v, l, i)[l] = i
           /\ \A k \in Level : k # l => Sub(v, l, i)[k] = v[k]
  BY SetIndex DEF Sub

\* An address below an entry leads back to the table.
LEMMA SubPath ==
    ASSUME NEW l \in Level, NEW idx \in Addr, idx = Path(idx, l), NEW n \in Index,
           NEW s, s = Sub(idx, l, n)
    PROVE  s \in Addr /\ s[l] = n /\ Path(s, l) = idx
<1>1. s \in Addr /\ s[l] = n /\ \A k \in Level : k # l => s[k] = idx[k]
  BY SubIndex
<1>2. Path(s, l) \in Addr /\ \A k \in Level : Path(s, l)[k] = IF k > l THEN s[k] ELSE 0
  BY <1>1, PathType
<1>3. \A k \in Level : Path(idx, l)[k] = IF k > l THEN idx[k] ELSE 0
  BY PathType
<1>4. \A k \in Level : k > l => k # l
  OBVIOUS
<1>5. \A k \in Level : Path(s, l)[k] = Path(idx, l)[k]
  BY ONLY <1>1, <1>2, <1>3, <1>4
<1>6. \A k \in Level : Path(s, l)[k] = idx[k]
  BY <1>5
<1>7. Path(s, l)[1] = idx[1] /\ Path(s, l)[2] = idx[2] /\ Path(s, l)[3] = idx[3]
  BY <1>6
<1>. QED
  BY <1>1, <1>2, <1>7, AddrEqual

\* The indices below an entry are a path of the next level.
LEMMA SubPathBelow ==
    ASSUME NEW l \in {2, 3}, NEW idx \in Addr, idx = Path(idx, l), NEW n \in Index,
           NEW s, s = Sub(idx, l, n)
    PROVE  s = Path(s, l - 1)
<1>1. s \in Addr /\ s[l] = n /\ Path(s, l) = idx
  <2>1. l \in Level
    OBVIOUS
  <2>. QED
    BY <2>1, SubPath
<1>2. [Path(s, l) EXCEPT ![l] = s[l]] = Path(s, l - 1)
  BY <1>1, PathStep
<1>. QED
  BY ONLY <1>1, <1>2, s = Sub(idx, l, n) DEF Sub

\* A visit of a leaf deals with one address.
LEMMA AheadLeaf ==
    ASSUME NEW idx \in Addr, idx = Path(idx, 1), NEW n \in Index,
           NEW s, s = Sub(idx, 1, n)
    PROVE  Ahead(1, idx, n + 1) = Ahead(1, idx, n) \cup {s} /\ s \notin Ahead(1, idx, n)
<1>1. s \in Addr /\ s[1] = n /\ Path(s, 1) = idx
  <2>1. 1 \in Level
    OBVIOUS
  <2>. QED
    BY <2>1, SubPath
<1>2. n \in Nat
  BY PgTblAssumption DEF Index
<1>3. ASSUME NEW v \in Addr, Path(v, 1) = idx
      PROVE  v[1] \in Nat /\ (v[1] = n => v = s)
  <2>1. v[1] \in Nat
    BY AddrIndex, PgTblAssumption DEF Index
  <2>2. [Path(v, 1) EXCEPT ![1] = v[1]] = v
    BY PathWhole
  <2>. QED
    BY <1>3, <2>1, <2>2 DEF Sub
<1>4. \A v \in Addr : Path(v, 1) = idx => (v[1] < n + 1 <=> v[1] < n \/ v = s)
  BY <1>1, <1>2, <1>3
<1>. QED
  BY <1>1, <1>2, <1>4 DEF Ahead

\* A visit above the leaves deals with what is below the entry.
LEMMA AheadStep ==
    ASSUME NEW l \in {2, 3}, NEW idx \in Addr, idx = Path(idx, l), NEW n \in Index,
           NEW s, s = Sub(idx, l, n)
    PROVE  /\ Ahead(l, idx, n + 1) = Ahead(l, idx, n) \cup Ahead(l - 1, s, Fanout)
           /\ Ahead(l, idx, n) \cap Ahead(l - 1, s, Fanout) = {}
<1>1. s \in Addr /\ s[l] = n /\ Path(s, l) = idx
  <2>1. l \in Level
    OBVIOUS
  <2>. QED
    BY <2>1, SubPath
<1>2. s = Path(s, l - 1)
  BY SubPathBelow
<1>3. n \in Nat
  BY PgTblAssumption DEF Index
<1>4. ASSUME NEW v \in Addr
      PROVE  /\ v[l] \in Nat
             /\ v[l - 1] < Fanout
             /\ Path(v, l - 1) = s <=> Path(v, l) = idx /\ v[l] = n
  <2>1. v[l] \in Index
    BY AddrAt, l \in Level
  <2>2. v[l - 1] \in Index
    BY AddrAt, l - 1 \in Level
  <2>3. [Path(v, l) EXCEPT ![l] = v[l]] = Path(v, l - 1)
    BY PathStep
  <2>4. Path(v, l) = idx /\ v[l] = n => Path(v, l - 1) = s
    BY ONLY <2>3, s = Sub(idx, l, n) DEF Sub
  <2>5. Path(v, l - 1) = Path(s, l - 1) => Path(v, l) = Path(s, l) /\ v[l] = s[l]
    BY <1>1, PathSplit
  <2>6. Path(v, l - 1) = s => Path(v, l) = idx /\ v[l] = n
    BY ONLY <1>1, <1>2, <2>5
  <2>. QED
    BY <2>1, <2>2, <2>4, <2>6, PgTblAssumption DEF Index
<1>5. PICK k : k = l - 1
  OBVIOUS
<1>6. /\ Ahead(l, idx, n + 1) = Ahead(l, idx, n) \cup Ahead(k, s, Fanout)
      /\ Ahead(l, idx, n) \cap Ahead(k, s, Fanout) = {}
  <2>1. \A v \in Addr : /\ v[l] \in Nat
                        /\ v[k] < Fanout
                        /\ Path(v, k) = s <=> Path(v, l) = idx /\ v[l] = n
    BY ONLY <1>4, <1>5
  <2>2. \A v \in Addr : v[l] < n + 1 <=> v[l] < n \/ v[l] = n
    BY ONLY <1>3, <2>1
  <2>3. \A v \in Addr : ~(v[l] < n /\ v[l] = n)
    BY ONLY <1>3, <2>1
  <2>. QED
    BY ONLY <2>1, <2>2, <2>3 DEF Ahead
<1>. QED
  BY ONLY <1>5, <1>6

(***************************************************************************)
(* What a walker that copies makes.                                        *)
(***************************************************************************)
\* Walks do not depend on the data.
LEMMA DataOnly ==
    ASSUME NEW h, NEW g, g.tables = h.tables
    PROVE  /\ Tabs(g) = Tabs(h)
           /\ \A r, v, l : TableAt(g, r, v, l) = TableAt(h, r, v, l)
           /\ \A r, v : Walk(g, r, v) = Walk(h, r, v)
           /\ \A R : Forest(h, R) => Forest(g, R)
<1>1. Tabs(g) = Tabs(h)
  BY DEF Tabs
<1>2. \A t, i : Below(g, t, i) = Below(h, t, i)
  BY DEF Below
<1>3. \A r, v, l : TableAt(g, r, v, l) = TableAt(h, r, v, l)
  BY <1>2 DEF TableAt
<1>4. \A r, v : Walk(g, r, v) = Walk(h, r, v)
  BY <1>3 DEF Walk
<1>5. ASSUME NEW R, Forest(h, R)
      PROVE  Forest(g, R)
  <2>1. PICK kept \in SUBSET Tabs(h) :
           \E own \in [kept -> Owner], lvl \in [kept -> Level], at \in [kept -> Addr] :
              Trees(h, R, kept, own, lvl, at)
    BY <1>5 DEF Forest
  <2>2. PICK own \in [kept -> Owner], lvl \in [kept -> Level], at \in [kept -> Addr] :
              Trees(h, R, kept, own, lvl, at)
    BY <2>1
  <2>3. Trees(g, R, kept, own, lvl, at)
    <3>1. ASSUME NEW t \in kept, NEW i \in Index
          PROVE  PlacedEntry(g, kept, own, lvl, at, t, i)
      <4>1. PlacedEntry(h, kept, own, lvl, at, t, i)
        BY <2>2 DEF Trees
      <4>2. g.tables[t][i] = h.tables[t][i]
        OBVIOUS
      <4>. QED
        BY ONLY <4>1, <4>2 DEF PlacedEntry
    <3>. QED
      BY <1>1, <2>2, <3>1 DEF Trees
  <2>. QED
    BY <1>1, <2>3 DEF Forest
<1>. QED
  BY <1>1, <1>3, <1>4, <1>5

With(R, u, r) == [q \in Owner |-> IF q = u THEN r ELSE R[q]]

\* What is copied: the table of src, before the walk; u has none yet.
SourceOK(h, R, src, u) ==
    /\ HeapOK(h) /\ Forest(h, R)
    /\ src \in Owner /\ u \in Owner /\ src # u
    /\ R[u] = Null
    /\ \A v \in Addr : Walk(h, R[src], v).rw => Walk(h, R[src], v).frame \in h.data

\* Entry e of the copy, in heap g, of an entry w of the source, in heap h.
EntryCopied(h, g, w, e, deep) ==
    IF ~w.dirty THEN e = Absent
    ELSE IF deep /\ w.rw
    THEN /\ e = Entry(e.frame, TRUE, TRUE)
         /\ e.frame \in g.data \ h.data
         /\ g.mem[e.frame] = h.mem[w.frame]
    ELSE e = Entry(w.frame, FALSE, TRUE)

\* The addresses in D whose pages are copied.
PagesCopied(h, r, deep, D) ==
    {v \in D : deep /\ Walk(h, r, v).dirty /\ Walk(h, r, v).rw}

\* The copy c, once the addresses in D have been dealt with.
Copied(h, R, src, u, deep, c, D) ==
    /\ HeapOK(c.heap) /\ Forest(c.heap, With(R, u, c.root))
    /\ OthersSame(h, c.heap, R, u)
    /\ GrownTree(h, Null, c.heap, c.root)
    /\ D \subseteq Addr
    /\ \A v \in D : EntryCopied(h, c.heap, Walk(h, R[src], v), Walk(c.heap, c.root, v), deep)
    /\ \A v \in Addr \ D : Walk(c.heap, c.root, v) = Absent
    /\ c.root # Null => \E v \in D : Walk(h, R[src], v).dirty
    /\ h.data \subseteq c.heap.data
    /\ \A f \in c.heap.data : f \in h.data \/ \E v \in PagesCopied(h, R[src], deep, D) :
                                                 Walk(c.heap, c.root, v).frame = f
    /\ \A v, w \in PagesCopied(h, R[src], deep, D) :
          Walk(c.heap, c.root, v).frame = Walk(c.heap, c.root, w).frame => v = w
    /\ \A f \in Frame \cup Elf :
          f \in h.data \/ f \notin c.heap.data => c.heap.mem[f] = h.mem[f]

\* Addresses whose entries are clean are left out.
LEMMA CopySkip ==
    ASSUME NEW h, NEW R, NEW src, NEW u, NEW deep, NEW c, NEW D,
           Copied(h, R, src, u, deep, c, D),
           NEW E \in SUBSET Addr, E \cap D = {}, \A v \in E : ~Walk(h, R[src], v).dirty
    PROVE  Copied(h, R, src, u, deep, c, D \cup E)
<1>1. PagesCopied(h, R[src], deep, D \cup E) = PagesCopied(h, R[src], deep, D)
  BY DEF PagesCopied
<1>2. \A v \in E : EntryCopied(h, c.heap, Walk(h, R[src], v), Walk(c.heap, c.root, v), deep)
  BY DEF EntryCopied, Copied
<1>. QED
  BY <1>1, <1>2 DEF Copied

\* The entries of the source that are dirty.
LEMMA DirtyEntry ==
    ASSUME NEW h, NEW R, NEW src, NEW u, SourceOK(h, R, src, u),
           NEW v \in Addr, Walk(h, R[src], v).dirty
    PROVE  /\ v \in Page
           /\ Walk(h, R[src], v).frame \in Frame \cup Elf
           /\ Walk(h, R[src], v).frame # Null
           /\ Walk(h, R[src], v).rw => Walk(h, R[src], v).frame \in h.data
<1>. DEFINE w == Walk(h, R[src], v)
<1>1. w \in Pte /\ (w = Absent \/ (exists(w) /\ v \in Page))
  BY ForestWalk DEF SourceOK
<1>2. Absent.dirty = FALSE
  BY DEF Absent
<1>3. w.rw => w.frame \in h.data
  BY DEF SourceOK
<1>. HIDE DEF w
<1>4. w.dirty
  BY DEF w
<1>5. v \in Page /\ w.frame # Null
  BY <1>1, <1>2, <1>4 DEF exists
<1>6. w.frame \in Frame \cup Elf
  BY <1>1, <1>5 DEF Pte
<1>. QED
  BY <1>3, <1>5, <1>6 DEF w

\* The fields of an entry.
LEMMA EntryIs ==
    ASSUME NEW f \in Frame \cup Elf, f # Null, NEW rw \in BOOLEAN, NEW dirty \in BOOLEAN,
           NEW e, e = Entry(f, rw, dirty)
    PROVE  e \in Pte /\ exists(e) /\ e.acc /\ e.frame = f /\ e.rw = rw /\ e.dirty = dirty
<1>1. e = [frame |-> f, rw |-> rw, dirty |-> dirty, acc |-> TRUE]
  BY DEF Entry
<1>. QED
  BY <1>1 DEF Pte, exists

\* Roots with one changed.
LEMMA WithIs ==
    ASSUME NEW R, NEW u \in Owner, NEW r, NEW s
    PROVE  /\ With(R, u, r)[u] = r
           /\ \A q \in Owner : q # u => With(R, u, r)[q] = R[q]
           /\ \A q \in Owner : q # u => With(R, u, s)[q] = With(R, u, r)[q]
  BY DEF With

\* The copy after a page has been mapped in it.
CopyMappedTo(h, R, u, g, r, v, pte, e) ==
    /\ HeapOK(e.heap) /\ Forest(e.heap, With(R, u, e.root))
    /\ OthersSame(h, e.heap, R, u)
    /\ GrownTree(h, Null, e.heap, e.root)
    /\ e.heap.data = g.data /\ e.heap.mem = g.mem
    /\ \A w \in Addr : Walk(e.heap, e.root, w) = IF w = v THEN pte ELSE Walk(g, r, w)

\* Mapping one more page into the copy.
LEMMA CopyMapped ==
    ASSUME NEW h, NEW R, NEW src, NEW u, SourceOK(h, R, src, u), NEW r,
           NEW g, HeapOK(g), Forest(g, With(R, u, r)), OthersSame(h, g, R, u),
           GrownTree(h, Null, g, r),
           NEW v \in Page, NEW pte \in Pte, exists(pte), pte.acc,
           NEW e, e = mapIntoPgTbl(g, r, v, pte), ~RanOut(e.heap)
    PROVE  CopyMappedTo(h, R, u, g, r, v, pte, e)
<1>. DEFINE Q == With(R, u, r)
            S == With(R, u, e.root)
<1>1. u \in Owner
  BY DEF SourceOK
<1>2. /\ Q[u] = r /\ S[u] = e.root
      /\ \A q \in Owner : q # u => Q[q] = R[q]
      /\ \A q \in Owner : q # u => S[q] = Q[q]
  BY <1>1, WithIs
<1>3. Forest(g, Q) /\ S = With(R, u, e.root)
  OBVIOUS
<1>. HIDE DEF Q, S
<1>4. Rerooted(Q, S, u, e.root) /\ r = Q[u]
  BY <1>2 DEF Rerooted
<1>5. Mapped(g, Q, u, v, pte, e, S)
  BY <1>1, <1>3, <1>4, MapOK
<1>6. OthersSame(h, e.heap, R, u)
  BY <1>2, <1>5, OthersTrans DEF Mapped, TreeGrew
<1>7. GrownTree(h, Null, e.heap, e.root)
  BY <1>2, <1>5, GrownTrans DEF Mapped, TreeGrew
<1>. QED
  BY <1>2, <1>3, <1>5, <1>6, <1>7 DEF Mapped, TreeGrew, CopyMappedTo

\* A page is shared.
LEMMA CopyShared ==
    ASSUME NEW h, NEW R, NEW src, NEW u, SourceOK(h, R, src, u), NEW deep, NEW c, NEW D,
           Copied(h, R, src, u, deep, c, D),
           NEW v \in Addr, v \notin D, NEW pte, pte = Walk(h, R[src], v),
           pte.dirty, ~(deep /\ pte.rw),
           NEW e, e = mapIntoPgTbl(c.heap, c.root, v, Entry(pte.frame, FALSE, TRUE)),
           ~RanOut(e.heap)
    PROVE  Copied(h, R, src, u, deep, e, D \cup {v})
<1>1. v \in Page /\ pte.frame \in Frame \cup Elf /\ pte.frame # Null
  BY DirtyEntry
<1>2. PICK new : new = Entry(pte.frame, FALSE, TRUE)
  OBVIOUS
<1>3. new \in Pte /\ exists(new) /\ new.acc
  BY <1>1, <1>2 DEF Entry, Pte, exists
<1>4. e = mapIntoPgTbl(c.heap, c.root, v, new)
  BY <1>2
<1>5. /\ HeapOK(e.heap) /\ Forest(e.heap, With(R, u, e.root))
      /\ OthersSame(h, e.heap, R, u)
      /\ GrownTree(h, Null, e.heap, e.root)
      /\ e.heap.data = c.heap.data /\ e.heap.mem = c.heap.mem
      /\ \A w \in Addr : Walk(e.heap, e.root, w) = IF w = v THEN new
                                                   ELSE Walk(c.heap, c.root, w)
  <2>1. /\ HeapOK(c.heap) /\ Forest(c.heap, With(R, u, c.root))
        /\ OthersSame(h, c.heap, R, u)
        /\ GrownTree(h, Null, c.heap, c.root)
    BY ONLY Copied(h, R, src, u, deep, c, D) DEF Copied
  <2>2. CopyMappedTo(h, R, u, c.heap, c.root, v, new, e)
    BY ONLY <1>1, <1>3, <1>4, <2>1, CopyMapped, SourceOK(h, R, src, u), ~RanOut(e.heap)
  <2>. QED
    BY ONLY <2>2 DEF CopyMappedTo
<1>6. PagesCopied(h, R[src], deep, D \cup {v}) = PagesCopied(h, R[src], deep, D)
  BY DEF PagesCopied
<1>7. D \subseteq Addr
  BY ONLY Copied(h, R, src, u, deep, c, D) DEF Copied
<1>8. \A w \in D : Walk(e.heap, e.root, w) = Walk(c.heap, c.root, w)
  BY <1>5, <1>7
<1>9. ASSUME NEW w \in D \cup {v}
      PROVE  EntryCopied(h, e.heap, Walk(h, R[src], w), Walk(e.heap, e.root, w), deep)
  <2>1. CASE w = v
    BY <1>2, <1>5, <2>1 DEF EntryCopied
  <2>2. CASE w \in D
    <3>1. EntryCopied(h, c.heap, Walk(h, R[src], w), Walk(c.heap, c.root, w), deep)
      BY <2>2 DEF Copied
    <3>2. Walk(e.heap, e.root, w) = Walk(c.heap, c.root, w)
      BY <1>8, <2>2
    <3>. QED
      BY ONLY <1>5, <3>1, <3>2 DEF EntryCopied
  <2>. QED
    BY <2>1, <2>2
<1>10. \A w \in Addr \ (D \cup {v}) : Walk(e.heap, e.root, w) = Absent
  BY <1>5 DEF Copied
<1>11. PagesCopied(h, R[src], deep, D) \subseteq D
  BY DEF PagesCopied
<1>12. /\ h.data \subseteq e.heap.data
       /\ \A f \in Frame \cup Elf :
             f \in h.data \/ f \notin e.heap.data => e.heap.mem[f] = h.mem[f]
  BY <1>5 DEF Copied
<1>13. \A f \in e.heap.data :
          f \in h.data \/ \E w \in PagesCopied(h, R[src], deep, D \cup {v}) :
                             Walk(e.heap, e.root, w).frame = f
  <2>1. \A f \in c.heap.data :
          f \in h.data \/ \E w \in PagesCopied(h, R[src], deep, D) :
                             Walk(c.heap, c.root, w).frame = f
    BY ONLY Copied(h, R, src, u, deep, c, D) DEF Copied
  <2>. QED
    BY ONLY <1>5, <1>6, <1>8, <1>11, <2>1
<1>14. \A w, x \in PagesCopied(h, R[src], deep, D \cup {v}) :
          Walk(e.heap, e.root, w).frame = Walk(e.heap, e.root, x).frame => w = x
  <2>1. \A w, x \in PagesCopied(h, R[src], deep, D) :
          Walk(c.heap, c.root, w).frame = Walk(c.heap, c.root, x).frame => w = x
    BY ONLY Copied(h, R, src, u, deep, c, D) DEF Copied
  <2>. QED
    BY ONLY <1>6, <1>8, <1>11, <2>1
<1>15. D \cup {v} \subseteq Addr
  BY <1>7
<1>16. \E w \in D \cup {v} : Walk(h, R[src], w).dirty
  BY ONLY pte = Walk(h, R[src], v), pte.dirty
<1>. QED
  BY ONLY <1>5, <1>9, <1>10, <1>12, <1>13, <1>14, <1>15, <1>16 DEF Copied

\* A page is copied.
LEMMA CopyOwned ==
    ASSUME NEW h, NEW R, NEW src, NEW u, SourceOK(h, R, src, u), NEW deep, NEW c, NEW D,
           Copied(h, R, src, u, deep, c, D),
           NEW v \in Addr, v \notin D, NEW pte, pte = Walk(h, R[src], v),
           pte.dirty, deep, pte.rw,
           NEW f, f = Alloc(c.heap), NEW val, val = c.heap.mem[pte.frame],
           NEW g, g = CopiedPage(c.heap, f, val),
           NEW e, e = mapIntoPgTbl(g, c.root, v, Entry(f, TRUE, TRUE)), ~RanOut(e.heap)
    PROVE  Copied(h, R, src, u, deep, e, D \cup {v})
<1>1. v \in Page /\ pte.frame \in Frame \cup Elf /\ pte.frame \in h.data
  BY DirtyEntry
<1>2. Shape(c.heap) /\ HeapOK(c.heap) /\ D \subseteq Addr
  BY DEF Copied, HeapOK, Shape
<1>3. f \in Frame /\ f # Null /\ f \notin Tabs(c.heap) /\ f \notin c.heap.data
  <2>1. Shape(g) /\ g.tables = c.heap.tables /\ g.data = c.heap.data \cup {f}
    BY ONLY <1>2, g = CopiedPage(c.heap, f, val), CopiedPageShape
  <2>2. Grows(g, e.heap)
    BY <2>1, MapGrows
  <2>3. ~RanOut(g)
    BY <2>2, GrowsRanOut
  <2>4. f # Null
    BY <2>1, <2>3 DEF RanOut
  <2>. QED
    BY <2>4, AllocFree
<1>4. val \in Val /\ val = h.mem[pte.frame]
  BY <1>1, <1>2 DEF HeapOK, Copied
<1>5. /\ HeapOK(g)
      /\ g.tables = c.heap.tables /\ g.data = c.heap.data \cup {f}
      /\ g.mem[f] = val
      /\ \A x \in Frame \cup Elf : x # f => g.mem[x] = c.heap.mem[x]
  BY <1>2, <1>3, <1>4, CopiedPageEffect
<1>6. /\ Tabs(g) = Tabs(c.heap)
      /\ \A r, w, l : TableAt(g, r, w, l) = TableAt(c.heap, r, w, l)
      /\ \A r, w : Walk(g, r, w) = Walk(c.heap, r, w)
      /\ \A Q : Forest(c.heap, Q) => Forest(g, Q)
  BY ONLY <1>5, DataOnly
<1>7. Forest(g, With(R, u, c.root)) /\ OthersSame(h, g, R, u) /\ GrownTree(h, Null, g, c.root)
  <2>. /\ Forest(c.heap, With(R, u, c.root))
       /\ OthersSame(h, c.heap, R, u) /\ GrownTree(h, Null, c.heap, c.root)
    BY ONLY Copied(h, R, src, u, deep, c, D) DEF Copied
  <2>1. OthersSame(h, g, R, u)
    BY ONLY <1>6, OthersSame(h, c.heap, R, u) DEF OthersSame, SameWalk
  <2>2. GrownTree(h, Null, g, c.root)
    BY ONLY <1>6, GrownTree(h, Null, c.heap, c.root) DEF GrownTree
  <2>. QED
    BY <1>6, <2>1, <2>2
<1>8. PICK new : new = Entry(f, TRUE, TRUE)
  OBVIOUS
<1>9. new \in Pte /\ exists(new) /\ new.acc /\ new.frame = f
  BY <1>3, <1>8, EntryIs
<1>10. e = mapIntoPgTbl(g, c.root, v, new)
  BY <1>8
<1>11. /\ HeapOK(e.heap) /\ Forest(e.heap, With(R, u, e.root))
       /\ OthersSame(h, e.heap, R, u)
       /\ GrownTree(h, Null, e.heap, e.root)
       /\ e.heap.data = g.data /\ e.heap.mem = g.mem
       /\ \A w \in Addr : Walk(e.heap, e.root, w) = IF w = v THEN new ELSE Walk(g, c.root, w)
  <2>1. CopyMappedTo(h, R, u, g, c.root, v, new, e)
    BY ONLY <1>1, <1>5, <1>7, <1>9, <1>10, CopyMapped, SourceOK(h, R, src, u), ~RanOut(e.heap)
  <2>. QED
    BY ONLY <2>1 DEF CopyMappedTo
<1>12. PagesCopied(h, R[src], deep, D \cup {v}) = PagesCopied(h, R[src], deep, D) \cup {v}
  BY DEF PagesCopied
<1>13. \A w \in D : Walk(e.heap, e.root, w) = Walk(c.heap, c.root, w)
  <2>1. TAKE w \in D
  <2>2. w \in Addr /\ w # v
    BY <1>2
  <2>3. Walk(e.heap, e.root, w) = Walk(g, c.root, w)
    BY ONLY <1>11, <2>2
  <2>. QED
    BY ONLY <1>6, <2>3
<1>14. PagesCopied(h, R[src], deep, D) \subseteq D
  BY DEF PagesCopied
<1>15. \A w \in PagesCopied(h, R[src], deep, D) :
          Walk(c.heap, c.root, w).frame \in c.heap.data
  BY <1>14 DEF Copied, EntryCopied, PagesCopied
<1>16. h.data \subseteq c.heap.data /\ f \notin h.data
  BY <1>3 DEF Copied
<1>17. Walk(e.heap, e.root, v) = new
  BY <1>11
<1>18. ASSUME NEW w \in D \cup {v}
       PROVE  EntryCopied(h, e.heap, Walk(h, R[src], w), Walk(e.heap, e.root, w), deep)
  <2>1. CASE w = v
    <3>1. f \in e.heap.data \ h.data /\ e.heap.mem[f] = h.mem[pte.frame]
      BY <1>4, <1>5, <1>11, <1>16
    <3>2. new = Entry(new.frame, TRUE, TRUE)
      BY <1>8, <1>9
    <3>3. PICK x, y : x = Walk(e.heap, e.root, w) /\ y = Walk(h, R[src], w)
      OBVIOUS
    <3>4. /\ y.dirty /\ deep /\ y.rw /\ x = Entry(x.frame, TRUE, TRUE)
          /\ x.frame \in e.heap.data \ h.data /\ e.heap.mem[x.frame] = h.mem[y.frame]
      <4>1. x = new /\ y = pte /\ x.frame = f
        BY ONLY <1>9, <1>17, <2>1, <3>3, pte = Walk(h, R[src], v)
      <4>. QED
        BY ONLY <3>1, <3>2, <4>1, pte.dirty, deep, pte.rw
    <3>5. EntryCopied(h, e.heap, y, x, deep)
      BY ONLY <3>4 DEF EntryCopied
    <3>. QED
      BY ONLY <3>3, <3>5
  <2>2. CASE w \in D
    <3>. DEFINE x == Walk(c.heap, c.root, w)
                y == Walk(h, R[src], w)
    <3>1. EntryCopied(h, c.heap, y, x, deep)
      BY <2>2 DEF Copied
    <3>2. Walk(e.heap, e.root, w) = x
      BY <1>13, <2>2
    <3>. HIDE DEF x, y
    <3>3. y.dirty /\ deep /\ y.rw => /\ x.frame \in c.heap.data \ h.data
                                     /\ c.heap.mem[x.frame] = h.mem[y.frame]
      BY <3>1 DEF EntryCopied
    <3>4. \A z \in c.heap.data : z \in e.heap.data /\ e.heap.mem[z] = c.heap.mem[z]
      <4>1. \A z \in c.heap.data : z \in Frame /\ z # f
        BY <1>2, <1>3 DEF HeapOK
      <4>. QED
        BY ONLY <1>5, <1>11, <4>1
    <3>5. EntryCopied(h, e.heap, y, x, deep)
      BY ONLY <3>1, <3>3, <3>4 DEF EntryCopied
    <3>. QED
      BY <3>2, <3>5 DEF x, y
  <2>. QED
    BY <2>1, <2>2
<1>19. \A w \in Addr \ (D \cup {v}) : Walk(e.heap, e.root, w) = Absent
  <2>1. \A w \in Addr \ D : Walk(c.heap, c.root, w) = Absent
    BY ONLY Copied(h, R, src, u, deep, c, D) DEF Copied
  <2>. QED
    BY ONLY <1>6, <1>11, <2>1
<1>20. h.data \subseteq e.heap.data
  BY <1>5, <1>11, <1>16
<1>21. \A x \in Frame \cup Elf :
          x \in h.data \/ x \notin e.heap.data => e.heap.mem[x] = h.mem[x]
  <2>1. \A x \in Frame \cup Elf :
          x \in h.data \/ x \notin c.heap.data => c.heap.mem[x] = h.mem[x]
    BY ONLY Copied(h, R, src, u, deep, c, D) DEF Copied
  <2>. QED
    BY ONLY <1>5, <1>11, <1>16, <2>1
<1>22. \A x \in e.heap.data :
          x \in h.data \/ \E w \in PagesCopied(h, R[src], deep, D \cup {v}) :
                             Walk(e.heap, e.root, w).frame = x
  <2>1. \A x \in c.heap.data :
          x \in h.data \/ \E w \in PagesCopied(h, R[src], deep, D) :
                             Walk(c.heap, c.root, w).frame = x
    BY ONLY Copied(h, R, src, u, deep, c, D) DEF Copied
  <2>. SUFFICES ASSUME NEW x \in e.heap.data, x \notin h.data
                PROVE  \E w \in PagesCopied(h, R[src], deep, D \cup {v}) :
                          Walk(e.heap, e.root, w).frame = x
    OBVIOUS
  <2>2. CASE x = f
    BY ONLY <1>9, <1>12, <1>17, <2>2
  <2>3. CASE x # f
    <3>1. x \in c.heap.data
      BY <1>5, <1>11, <2>3
    <3>2. PICK w \in PagesCopied(h, R[src], deep, D) : Walk(c.heap, c.root, w).frame = x
      BY <2>1, <3>1
    <3>. QED
      BY ONLY <1>12, <1>13, <1>14, <3>2
  <2>. QED
    BY <2>2, <2>3
<1>23. \A w, x \in PagesCopied(h, R[src], deep, D \cup {v}) :
          Walk(e.heap, e.root, w).frame = Walk(e.heap, e.root, x).frame => w = x
  <2>1. \A w, x \in PagesCopied(h, R[src], deep, D) :
          Walk(c.heap, c.root, w).frame = Walk(c.heap, c.root, x).frame => w = x
    BY ONLY Copied(h, R, src, u, deep, c, D) DEF Copied
  <2>2. \A w \in PagesCopied(h, R[src], deep, D) :
          /\ Walk(e.heap, e.root, w).frame = Walk(c.heap, c.root, w).frame
          /\ Walk(e.heap, e.root, w).frame # f
    BY ONLY <1>3, <1>13, <1>14, <1>15
  <2>. QED
    BY ONLY <1>9, <1>12, <1>17, <2>1, <2>2
<1>24. D \cup {v} \subseteq Addr
  BY <1>2
<1>25. \E w \in D \cup {v} : Walk(h, R[src], w).dirty
  BY ONLY pte = Walk(h, R[src], v), pte.dirty
<1>. QED
  BY ONLY <1>11, <1>18, <1>19, <1>20, <1>21, <1>22, <1>23, <1>24, <1>25 DEF Copied

\* CopyLeaf deals with an address.
LEMMA CopyLeafOK ==
    ASSUME NEW h, NEW R, NEW src, NEW u, SourceOK(h, R, src, u), NEW deep, NEW c, NEW D,
           Copied(h, R, src, u, deep, c, D),
           NEW v \in Addr, v \notin D, NEW pte, pte = Walk(h, R[src], v),
           NEW e, e = CopyLeaf(c, pte, v, deep), ~RanOut(e.heap)
    PROVE  Copied(h, R, src, u, deep, e, D \cup {v})
<1>1. PICK f, val, g : f = Alloc(c.heap) /\ val = c.heap.mem[pte.frame] /\ g = CopiedPage(c.heap, f, val)
  OBVIOUS
<1>2. e = IF ~pte.dirty THEN c
          ELSE IF deep /\ pte.rw
          THEN mapIntoPgTbl(g, c.root, v, Entry(f, TRUE, TRUE))
          ELSE mapIntoPgTbl(c.heap, c.root, v, Entry(pte.frame, FALSE, TRUE))
  BY <1>1, CopyLeafIs
<1>3. CASE ~pte.dirty
  <2>1. {v} \in SUBSET Addr /\ {v} \cap D = {} /\ \A w \in {v} : ~Walk(h, R[src], w).dirty
    BY <1>3
  <2>2. Copied(h, R, src, u, deep, c, D \cup {v})
    BY <2>1, CopySkip
  <2>3. e = c
    BY ONLY <1>2, <1>3
  <2>. QED
    BY ONLY <2>2, <2>3
<1>4. CASE pte.dirty /\ deep /\ pte.rw
  <2>1. e = mapIntoPgTbl(g, c.root, v, Entry(f, TRUE, TRUE))
    BY ONLY <1>2, <1>4
  <2>2. pte.dirty /\ deep /\ pte.rw
    BY <1>4
  <2>. QED
    BY <1>1, <2>1, <2>2, CopyOwned
<1>5. CASE pte.dirty /\ ~(deep /\ pte.rw)
  <2>1. e = mapIntoPgTbl(c.heap, c.root, v, Entry(pte.frame, FALSE, TRUE))
    BY ONLY <1>2, <1>5
  <2>2. pte.dirty /\ ~(deep /\ pte.rw)
    BY <1>5
  <2>. QED
    BY <2>1, <2>2, CopyShared
<1>. QED
  BY <1>3, <1>4, <1>5

\* What the walkers of level l do.
Copies(h, R, src, u, deep, l) ==
    \A c, D : \A idx \in Addr :
       /\ idx = Path(idx, l)
       /\ TableAt(h, R[src], idx, l) # Null
       /\ Copied(h, R, src, u, deep, c, D)
       /\ D \cap Ahead(l, idx, Fanout) = {}
       /\ ~RanOut(walkAt(l, c, TableAt(h, R[src], idx, l), idx, deep).heap)
       => Copied(h, R, src, u, deep, walkAt(l, c, TableAt(h, R[src], idx, l), idx, deep),
                 D \cup Ahead(l, idx, Fanout))

\* The walks of the source in the heap of the copy.
LEMMA SourceSame ==
    ASSUME NEW h, NEW R, NEW src, NEW u, SourceOK(h, R, src, u), NEW deep, NEW c, NEW D,
           Copied(h, R, src, u, deep, c, D), NEW v \in Addr
    PROVE  /\ SameWalk(h, c.heap, R[src], v)
           /\ HeapOK(c.heap)
           /\ \E S : Forest(c.heap, S) /\ S[src] = R[src]
<1>1. OthersSame(h, c.heap, R, u) /\ src \in Owner /\ u \in Owner /\ src # u
  BY DEF Copied, SourceOK
<1>2. SameWalk(h, c.heap, R[src], v)
  BY <1>1 DEF OthersSame
<1>3. With(R, u, c.root)[src] = R[src]
  BY <1>1, WithIs
<1>. QED
  BY <1>2, <1>3 DEF Copied

\* One turn of the loop over a leaf table.
LEMMA CopyTurnLeaf ==
    ASSUME NEW h, NEW R, NEW src, NEW u, SourceOK(h, R, src, u), NEW deep, NEW c, NEW D,
           Copied(h, R, src, u, deep, c, D),
           NEW idx \in Addr, idx = Path(idx, 1),
           NEW tab, tab = TableAt(h, R[src], idx, 1), tab # Null,
           NEW n \in Index, NEW s, s = Sub(idx, 1, n), s \notin D,
           NEW e, e = Turn("copy", 1, c, tab, n, idx, deep), ~RanOut(e.heap)
    PROVE  Copied(h, R, src, u, deep, e, D \cup {s})
<1>1. 1 \in Level
  OBVIOUS
<1>2. s \in Addr /\ s[1] = n /\ Path(s, 1) = idx
  BY <1>1, SubPath
<1>3. TableAt(h, R[src], s, 1) = tab
  BY <1>1, <1>2, ThroughSame
<1>4. SameWalk(h, c.heap, R[src], s) /\ HeapOK(c.heap)
  BY <1>2, SourceSame
<1>5. TableAt(c.heap, R[src], s, 1) = tab /\ Walk(c.heap, R[src], s) = Walk(h, R[src], s)
  BY <1>1, <1>3, <1>4 DEF SameWalk
<1>6. PICK S : Forest(c.heap, S) /\ S[src] = R[src]
  BY <1>2, SourceSame
<1>7. src \in Owner
  BY DEF SourceOK
<1>8. tab \in Tabs(c.heap)
  <2>1. TableAt(c.heap, S[src], s, 1) # Null => TableAt(c.heap, S[src], s, 1) \in Tabs(c.heap)
    BY <1>1, <1>2, <1>4, <1>6, <1>7, ForestWalk
  <2>. QED
    BY <1>5, <1>6, <2>1
<1>9. PICK pte : pte = Walk(h, R[src], s)
  OBVIOUS
<1>10. c.heap.tables[tab][n] = pte
  BY <1>2, <1>5, <1>8, <1>9 DEF Walk, Tabs
<1>11. e = IF exists(pte) THEN CopyLeaf(c, pte, s, deep) ELSE c
  <2>1. e = IF exists(pte) THEN Visit("copy", 1, c, pte, n, idx, deep) ELSE c
    BY <1>10 DEF Turn
  <2>2. Visit("copy", 1, c, pte, n, idx, deep) = CopyLeaf(c, pte, [idx EXCEPT ![1] = n], deep)
    BY DEF Visit
  <2>3. [idx EXCEPT ![1] = n] = s
    BY DEF Sub
  <2>. QED
    BY ONLY <2>1, <2>2, <2>3
<1>12. CASE exists(pte)
  <2>1. e = CopyLeaf(c, pte, s, deep)
    BY ONLY <1>11, <1>12
  <2>. QED
    BY <1>2, <1>9, <2>1, CopyLeafOK
<1>13. CASE ~exists(pte)
  <2>1. pte = Absent
    <3>1. Walk(c.heap, S[src], s) = Absent \/ exists(Walk(c.heap, S[src], s))
      BY <1>2, <1>4, <1>6, <1>7, ForestWalk
    <3>. QED
      BY <1>5, <1>6, <1>9, <1>13, <3>1
  <2>2. \A w \in {s} : ~Walk(h, R[src], w).dirty
    BY <1>9, <2>1 DEF Absent
  <2>3. {s} \in SUBSET Addr /\ {s} \cap D = {}
    BY <1>2
  <2>4. Copied(h, R, src, u, deep, c, D \cup {s})
    BY <2>2, <2>3, CopySkip
  <2>5. e = c
    BY ONLY <1>11, <1>13
  <2>. QED
    BY ONLY <2>4, <2>5
<1>. QED
  BY <1>12, <1>13

\* One turn of the loop over a table above the leaves.
LEMMA CopyTurn ==
    ASSUME NEW h, NEW R, NEW src, NEW u, SourceOK(h, R, src, u), NEW deep, NEW c, NEW D,
           Copied(h, R, src, u, deep, c, D),
           NEW l \in {2, 3}, NEW k \in Level, k = l - 1, Copies(h, R, src, u, deep, k),
           NEW idx \in Addr, idx = Path(idx, l),
           NEW tab, tab = TableAt(h, R[src], idx, l), tab # Null,
           NEW n \in Index, NEW s, s = Sub(idx, l, n), D \cap Ahead(k, s, Fanout) = {},
           NEW e, e = Turn("copy", l, c, tab, n, idx, deep), ~RanOut(e.heap)
    PROVE  Copied(h, R, src, u, deep, e, D \cup Ahead(k, s, Fanout))
<1>1. l \in Level
  OBVIOUS
<1>2. s \in Addr /\ s[l] = n /\ Path(s, l) = idx
  BY <1>1, SubPath
<1>3. TableAt(h, R[src], s, l) = tab
  BY <1>1, <1>2, ThroughSame
<1>4. SameWalk(h, c.heap, R[src], s) /\ HeapOK(c.heap)
  BY <1>2, SourceSame
<1>5. TableAt(c.heap, R[src], s, l) = tab /\ TableAt(c.heap, R[src], s, k) = TableAt(h, R[src], s, k)
  BY <1>1, <1>3, <1>4 DEF SameWalk
<1>6. PICK S : Forest(c.heap, S) /\ S[src] = R[src]
  BY <1>2, SourceSame
<1>7. src \in Owner
  BY DEF SourceOK
<1>8. PICK pte : pte = c.heap.tables[tab][n]
  OBVIOUS
<1>9. TableAt(h, R[src], s, k) = pte.frame
  <2>1. TableAt(c.heap, S[src], s, l) # Null => TableAt(c.heap, S[src], s, l) \in Tabs(c.heap)
    BY <1>1, <1>2, <1>4, <1>6, <1>7, ForestWalk
  <2>2. tab \in Tabs(c.heap)
    BY <1>5, <1>6, <2>1
  <2>3. Below(c.heap, tab, n) = pte.frame
    BY <1>8, <2>2 DEF Below, Tabs
  <2>4. TableAt(c.heap, R[src], s, l - 1) = Below(c.heap, TableAt(c.heap, R[src], s, l), s[l])
    BY TableBelow
  <2>. QED
    BY ONLY <1>2, <1>5, <2>3, <2>4, k = l - 1
<1>10. s = Path(s, k)
  BY SubPathBelow
<1>11. e = IF exists(pte) THEN walkAt(k, c, pte.frame, s, deep) ELSE c
  <2>1. e = IF exists(pte) THEN Visit("copy", l, c, pte, n, idx, deep) ELSE c
    BY <1>8 DEF Turn
  <2>2. Visit("copy", l, c, pte, n, idx, deep) = walkAt(k, c, pte.frame, s, deep)
    BY CopyVisitBelow
  <2>. QED
    BY ONLY <2>1, <2>2
<1>12. CASE exists(pte)
  <2>1. e = walkAt(k, c, TableAt(h, R[src], s, k), s, deep)
    BY ONLY <1>9, <1>11, <1>12
  <2>2. TableAt(h, R[src], s, k) # Null
    BY <1>9, <1>12 DEF exists
  <2>3. s \in Addr
    BY <1>2
  <2>. QED
    BY ONLY <1>10, <2>1, <2>2, <2>3, Copies(h, R, src, u, deep, k), ~RanOut(e.heap),
            Copied(h, R, src, u, deep, c, D), D \cap Ahead(k, s, Fanout) = {}
       DEF Copies
<1>13. CASE ~exists(pte)
  <2>1. TableAt(h, R[src], s, k) = Null
    BY <1>9, <1>13 DEF exists
  <2>2. ASSUME NEW w \in Addr, Path(w, k) = s
        PROVE  Walk(h, R[src], w) = Absent
    <3>1. TableAt(h, R[src], w, k) = TableAt(h, R[src], s, k)
      BY <1>2, <1>10, <2>2, ThroughSame
    <3>2. TableAt(h, R[src], w, k) = Null /\ HeapOK(h)
      BY <2>1, <3>1 DEF SourceOK
    <3>. QED
      BY <3>2, NothingBelow
  <2>3. \A w \in Ahead(k, s, Fanout) : ~Walk(h, R[src], w).dirty
    BY <2>2 DEF Ahead, Absent
  <2>4. Ahead(k, s, Fanout) \in SUBSET Addr /\ Ahead(k, s, Fanout) \cap D = {}
    BY DEF Ahead
  <2>5. Copied(h, R, src, u, deep, c, D \cup Ahead(k, s, Fanout))
    BY <2>3, <2>4, CopySkip
  <2>6. e = c
    BY ONLY <1>11, <1>13
  <2>. QED
    BY ONLY <2>5, <2>6
<1>. QED
  BY <1>12, <1>13

\* Every turn of a loop copies what hangs off one entry.
CopyTurns(h, R, src, u, deep, l, idx, tab) ==
    \A e, E : \A n \in Index :
       /\ Copied(h, R, src, u, deep, e, E)
       /\ E \cap Ahead(l, idx, n + 1) = Ahead(l, idx, n)
       /\ ~RanOut(Turn("copy", l, e, tab, n, idx, deep).heap)
       => Copied(h, R, src, u, deep, Turn("copy", l, e, tab, n, idx, deep),
                 E \cup Ahead(l, idx, n + 1))

\* A copying loop deals with the addresses of its table, whatever the level.
LEMMA CopyLoop ==
    ASSUME NEW h, NEW R, NEW src, NEW u, SourceOK(h, R, src, u), NEW deep, NEW l \in Level,
           NEW c, NEW D, Copied(h, R, src, u, deep, c, D),
           NEW idx \in Addr, NEW tab, NEW f, Loop("copy", l, c, tab, idx, deep, f),
           D \cap Ahead(l, idx, Fanout) = {}, ~RanOut(f[Fanout].heap),
           CopyTurns(h, R, src, u, deep, l, idx, tab)
    PROVE  Copied(h, R, src, u, deep, f[Fanout], D \cup Ahead(l, idx, Fanout))
<1>. DEFINE T == {n \in 0 .. Fanout : ~RanOut(f[n].heap) =>
                     Copied(h, R, src, u, deep, f[n], D \cup Ahead(l, idx, n))}
<1>1. Fanout \in Nat
  BY PgTblAssumption
<1>2. 0 \in T
  <2>1. D \cup Ahead(l, idx, 0) = D
    BY AheadNone
  <2>2. f[0] = c /\ 0 \in 0 .. Fanout
    BY <1>1 DEF Loop
  <2>. QED
    BY <2>1, <2>2
<1>3. ASSUME NEW n \in 0 .. Fanout - 1, n \in T
      PROVE  n + 1 \in T
  <2>1. n \in Index /\ n + 1 \in 0 .. Fanout
    BY <1>1 DEF Index
  <2>. SUFFICES ASSUME ~RanOut(f[n + 1].heap)
                PROVE  Copied(h, R, src, u, deep, f[n + 1], D \cup Ahead(l, idx, n + 1))
    BY <2>1
  <2>2. f[n + 1] = Turn("copy", l, f[n], tab, n, idx, deep)
    BY <2>1 DEF Loop
  <2>3. Grows(f[n].heap, f[n + 1].heap)
    <3>1. VisitsGrow(l)
      BY VisitsGrowAll, Levels
    <3>2. \A d, pte, i : Shape(d.heap) => Grows(d.heap, Visit("copy", l, d, pte, i, idx, deep).heap)
      BY <3>1 DEF VisitsGrow
    <3>3. Shape(c.heap)
      BY DEF Copied, HeapOK, Shape
    <3>4. \A m \in Index : Grows(f[m].heap, f[m + 1].heap)
      BY <3>2, <3>3, LoopGrows
    <3>. QED
      BY <2>1, <3>4
  <2>4. ~RanOut(f[n].heap)
    BY <2>3, GrowsRanOut
  <2>5. Copied(h, R, src, u, deep, f[n], D \cup Ahead(l, idx, n))
    BY <1>3, <2>4
  <2>6. n < Fanout /\ n \in Nat /\ \A v \in Addr : v[l] \in Nat
    BY <1>1, <2>1, AddrAt DEF Index
  <2>7. Ahead(l, idx, n) \subseteq Ahead(l, idx, n + 1) /\ Ahead(l, idx, n + 1) \subseteq Ahead(l, idx, Fanout)
    BY <1>1, <2>6 DEF Ahead
  <2>8. (D \cup Ahead(l, idx, n)) \cap Ahead(l, idx, n + 1) = Ahead(l, idx, n)
    BY <2>7
  <2>9. Copied(h, R, src, u, deep, f[n + 1], (D \cup Ahead(l, idx, n)) \cup Ahead(l, idx, n + 1))
    BY <2>1, <2>2, <2>5, <2>8 DEF CopyTurns
  <2>10. (D \cup Ahead(l, idx, n)) \cup Ahead(l, idx, n + 1) = D \cup Ahead(l, idx, n + 1)
    BY <2>7
  <2>. QED
    BY ONLY <2>9, <2>10
<1>4. \A n \in 0 .. Fanout : n \in T
  <2>. HIDE DEF T
  <2>. QED
    BY <1>1, <1>2, <1>3, Induction
<1>5. Fanout \in T
  <2>. HIDE DEF T
  <2>1. Fanout \in 0 .. Fanout
    BY <1>1
  <2>. QED
    BY <1>4, <2>1
<1>. QED
  BY <1>5

\* The walkers of the leaf tables.
LEMMA CopiesLeaf ==
    ASSUME NEW h, NEW R, NEW src, NEW u, SourceOK(h, R, src, u), NEW deep
    PROVE  Copies(h, R, src, u, deep, 1)
<1>. SUFFICES ASSUME NEW c, NEW D, NEW idx \in Addr, idx = Path(idx, 1),
                     NEW tab, tab = TableAt(h, R[src], idx, 1), tab # Null,
                     Copied(h, R, src, u, deep, c, D),
                     D \cap Ahead(1, idx, Fanout) = {},
                     NEW r, r = walkAt(1, c, tab, idx, deep), ~RanOut(r.heap)
              PROVE  Copied(h, R, src, u, deep, r, D \cup Ahead(1, idx, Fanout))
  BY DEF Copies
<1>1. 1 \in Level
  OBVIOUS
<1>2. PICK f : Loop("copy", 1, c, tab, idx, deep, f) /\ r = f[Fanout]
  BY <1>1, WalkLoop
<1>3. ASSUME NEW n \in Index, NEW e, NEW E, Copied(h, R, src, u, deep, e, E),
             E \cap Ahead(1, idx, n + 1) = Ahead(1, idx, n),
             ~RanOut(Turn("copy", 1, e, tab, n, idx, deep).heap)
      PROVE  Copied(h, R, src, u, deep, Turn("copy", 1, e, tab, n, idx, deep),
                    E \cup Ahead(1, idx, n + 1))
  <2>1. PICK s : s = Sub(idx, 1, n)
    OBVIOUS
  <2>2. Ahead(1, idx, n + 1) = Ahead(1, idx, n) \cup {s} /\ s \notin Ahead(1, idx, n)
    BY <2>1, AheadLeaf
  <2>3. s \notin E /\ E \cup Ahead(1, idx, n + 1) = E \cup {s}
    BY <1>3, <2>2
  <2>4. Copied(h, R, src, u, deep, Turn("copy", 1, e, tab, n, idx, deep), E \cup {s})
    BY <1>3, <2>1, <2>3, CopyTurnLeaf
  <2>. QED
    BY ONLY <2>3, <2>4
<1>4. CopyTurns(h, R, src, u, deep, 1, idx, tab)
  BY ONLY <1>3 DEF CopyTurns
<1>5. Copied(h, R, src, u, deep, f[Fanout], D \cup Ahead(1, idx, Fanout))
  BY <1>1, <1>2, <1>4, CopyLoop
<1>. QED
  BY ONLY <1>2, <1>5

\* The walkers of the tables above, by those of the level below.
LEMMA CopiesAbove ==
    ASSUME NEW h, NEW R, NEW src, NEW u, SourceOK(h, R, src, u), NEW deep,
           NEW l \in {2, 3}, NEW k \in Level, k = l - 1, Copies(h, R, src, u, deep, k)
    PROVE  Copies(h, R, src, u, deep, l)
<1>. SUFFICES ASSUME NEW c, NEW D, NEW idx \in Addr, idx = Path(idx, l),
                     NEW tab, tab = TableAt(h, R[src], idx, l), tab # Null,
                     Copied(h, R, src, u, deep, c, D),
                     D \cap Ahead(l, idx, Fanout) = {},
                     NEW r, r = walkAt(l, c, tab, idx, deep), ~RanOut(r.heap)
              PROVE  Copied(h, R, src, u, deep, r, D \cup Ahead(l, idx, Fanout))
  BY DEF Copies
<1>1. l \in Level
  OBVIOUS
<1>2. PICK f : Loop("copy", l, c, tab, idx, deep, f) /\ r = f[Fanout]
  BY <1>1, WalkLoop
<1>3. ASSUME NEW n \in Index, NEW e, NEW E, Copied(h, R, src, u, deep, e, E),
             E \cap Ahead(l, idx, n + 1) = Ahead(l, idx, n),
             ~RanOut(Turn("copy", l, e, tab, n, idx, deep).heap)
      PROVE  Copied(h, R, src, u, deep, Turn("copy", l, e, tab, n, idx, deep),
                    E \cup Ahead(l, idx, n + 1))
  <2>1. PICK s, A : s = Sub(idx, l, n) /\ A = Ahead(k, s, Fanout)
    OBVIOUS
  <2>2. Ahead(l, idx, n + 1) = Ahead(l, idx, n) \cup A /\ Ahead(l, idx, n) \cap A = {}
    BY <2>1, AheadStep
  <2>3. E \cap A = {} /\ E \cup Ahead(l, idx, n + 1) = E \cup A
    BY <1>3, <2>2
  <2>4. Copied(h, R, src, u, deep, Turn("copy", l, e, tab, n, idx, deep), E \cup A)
    BY <1>3, <2>1, <2>3, CopyTurn
  <2>. QED
    BY ONLY <2>3, <2>4
<1>4. CopyTurns(h, R, src, u, deep, l, idx, tab)
  BY ONLY <1>3 DEF CopyTurns
<1>5. Copied(h, R, src, u, deep, f[Fanout], D \cup Ahead(l, idx, Fanout))
  BY <1>1, <1>2, <1>4, CopyLoop
<1>. QED
  BY ONLY <1>2, <1>5

\* A walk of a whole table makes a copy of it.
LEMMA WalkCopies ==
    ASSUME NEW h, NEW R, NEW src, NEW u, SourceOK(h, R, src, u), NEW deep,
           NEW r, r = R[src], r # Null, NEW c, c = walkPgTbl(h, r, deep), ~RanOut(c.heap)
    PROVE  Copied(h, R, src, u, deep, c, Addr)
<1>1. Copies(h, R, src, u, deep, 1)
  BY CopiesLeaf
<1>2. Copies(h, R, src, u, deep, 2)
  <2>1. PICK l, k : l = 2 /\ k = 1
    OBVIOUS
  <2>2. l \in {2, 3} /\ k \in Level /\ k = l - 1 /\ Copies(h, R, src, u, deep, k)
    BY <1>1, <2>1
  <2>3. Copies(h, R, src, u, deep, l)
    BY <2>2, CopiesAbove
  <2>. QED
    BY ONLY <2>1, <2>3
<1>3. Copies(h, R, src, u, deep, 3)
  <2>1. PICK l, k : l = 3 /\ k = 2
    OBVIOUS
  <2>2. l \in {2, 3} /\ k \in Level /\ k = l - 1 /\ Copies(h, R, src, u, deep, k)
    BY <1>2, <2>1
  <2>3. Copies(h, R, src, u, deep, l)
    BY <2>2, CopiesAbove
  <2>. QED
    BY ONLY <2>1, <2>3
<1>4. PICK d, D : d = [heap |-> h, root |-> Null] /\ D = {}
  OBVIOUS
<1>5. d.heap = h /\ d.root = Null
  BY <1>4
<1>6. Copied(h, R, src, u, deep, d, D)
  <2>1. HeapOK(h) /\ Forest(h, R) /\ R[u] = Null /\ u \in Owner
    BY DEF SourceOK
  <2>2. \A q \in Owner : With(R, u, d.root)[q] = R[q]
    BY <1>5, <2>1, WithIs
  <2>3. Forest(h, With(R, u, d.root))
    BY <2>1, <2>2, ForestRoots
  <2>4. OthersSame(h, h, R, u) /\ GrownTree(h, Null, h, Null)
    BY <2>1, SameIsSame
  <2>5. \A v \in Addr : Walk(h, Null, v) = Absent
    BY <2>1, NoTree
  <2>6. PagesCopied(h, R[src], deep, D) = {}
    BY <1>4 DEF PagesCopied
  <2>. QED
    BY <1>4, <1>5, <2>1, <2>3, <2>4, <2>5, <2>6 DEF Copied
<1>7. c = walkAt(3, d, r, Zero, deep)
  BY <1>4 DEF walkPgTbl, walkAt
<1>8. Zero \in Addr /\ Zero = Path(Zero, 3)
  BY ZeroIndex, PathTop
<1>9. TableAt(h, r, Zero, 3) = r
  BY TableAtIs
<1>10. PICK A : A = Ahead(3, Zero, Fanout)
  OBVIOUS
<1>11. A = Addr /\ D \cup A = Addr /\ D \cap A = {}
  BY <1>4, <1>10, AheadAll
<1>12. Copied(h, R, src, u, deep, c, D \cup A)
  BY <1>3, <1>6, <1>7, <1>8, <1>9, <1>10, <1>11 DEF Copies
<1>. QED
  BY ONLY <1>11, <1>12

(***************************************************************************)
(* What the walker that frees leaves.                                      *)
(***************************************************************************)
\* Heap g is h without the pages G.
Without(h, g, G) ==
    /\ Shape(g)
    /\ Tabs(g) = Tabs(h) \ G
    /\ g.tables = [t \in Tabs(h) \ G |-> h.tables[t]]
    /\ g.data = h.data \ G
    /\ g.mem = h.mem

\* Nothing has been freed.
LEMMA WithoutNone ==
    ASSUME NEW h, HeapOK(h)
    PROVE  Without(h, h, {})
<1>1. h.tables = [t \in Tabs(h) |-> h.tables[t]]
  BY DEF HeapOK
<1>2. Tabs(h) \ {} = Tabs(h) /\ h.data \ {} = h.data
  OBVIOUS
<1>. QED
  BY <1>1, <1>2 DEF Without, Shape, HeapOK

\* One more page is freed.
LEMMA WithoutOne ==
    ASSUME NEW h, NEW g, NEW G, Without(h, g, G), NEW f, NEW k, k = Free(g, f)
    PROVE  Without(h, k, G \cup {f})
<1>1. Shape(g)
  BY DEF Without
<1>2. /\ Shape(k)
      /\ Tabs(k) = Tabs(g) \ {f}
      /\ k.tables = [t \in Tabs(g) \ {f} |-> g.tables[t]]
      /\ k.data = g.data \ {f}
      /\ k.mem = g.mem
  BY <1>1, FreeEffect
<1>3. Tabs(g) \ {f} = Tabs(h) \ (G \cup {f})
  BY DEF Without
<1>4. \A t \in Tabs(g) \ {f} : g.tables[t] = h.tables[t]
  BY DEF Without
<1>5. k.tables = [t \in Tabs(h) \ (G \cup {f}) |-> h.tables[t]]
  BY <1>2, <1>3, <1>4
<1>6. k.data = h.data \ (G \cup {f}) /\ k.mem = h.mem
  BY <1>2 DEF Without
<1>. QED
  BY <1>2, <1>3, <1>5, <1>6 DEF Without

\* A table that has not been freed is as it was.
LEMMA WithoutTable ==
    ASSUME NEW h, NEW g, NEW G, Without(h, g, G), NEW t \in Tabs(h), t \notin G
    PROVE  g.tables[t] = h.tables[t]
  BY DEF Without

\* The tables of levels K that walks of the addresses D come to, the pages that these may
\* write, and both.
TablesOf(h, r, K, D) == {TableAt(h, r, v, k) : v \in D, k \in K} \ {Null}
PagesOf(h, r, D) == {Walk(h, r, v).frame : v \in {w \in D : Walk(h, r, w).rw}}
Hanging(h, r, K, D) == TablesOf(h, r, K, D) \cup PagesOf(h, r, D)

Under(l) == {k \in Level : k < l}
Upto(l) == {k \in Level : k <= l}

\* What hangs off two parts of a tree.
LEMMA HangingUnion ==
    ASSUME NEW h, NEW r, NEW K, NEW D, NEW E
    PROVE  Hanging(h, r, K, D \cup E) = Hanging(h, r, K, D) \cup Hanging(h, r, K, E)
<1>1. TablesOf(h, r, K, D \cup E) = TablesOf(h, r, K, D) \cup TablesOf(h, r, K, E)
  BY DEF TablesOf
<1>2. PagesOf(h, r, D \cup E) = PagesOf(h, r, D) \cup PagesOf(h, r, E)
  BY DEF PagesOf
<1>. QED
  BY <1>1, <1>2 DEF Hanging

\* What is freed: o's table, whose writable pages are data.
FreeOK(h, R, o) ==
    /\ HeapOK(h) /\ Forest(h, R) /\ o \in Owner
    /\ \A v \in Addr : Walk(h, R[o], v).rw => Walk(h, R[o], v).frame \in h.data

\* A table is not among what hangs off entries it is not below.
LEMMA HangingApart ==
    ASSUME NEW h, NEW R, NEW o, FreeOK(h, R, o), NEW v \in Addr, NEW l \in Level,
           NEW t, t = TableAt(h, R[o], v, l), t # Null,
           NEW K \in SUBSET Level, NEW D \in SUBSET Addr,
           \A k \in K, w \in D : k = l => Path(w, k) # Path(v, k)
    PROVE  t \notin Hanging(h, R[o], K, D)
<1>1. HeapOK(h) /\ Forest(h, R) /\ o \in Owner
  BY DEF FreeOK
<1>2. t \in Tabs(h)
  BY <1>1, TableIn
<1>3. t \notin PagesOf(h, R[o], D)
  <2>1. t \notin h.data
    BY <1>1, <1>2 DEF HeapOK
  <2>. QED
    BY <2>1 DEF PagesOf, FreeOK
<1>4. ASSUME NEW w \in D, NEW k \in K, t = TableAt(h, R[o], w, k)
      PROVE  FALSE
  <2>1. w \in Addr /\ k \in Level
    OBVIOUS
  <2>2. TableAt(h, R[o], w, k) = TableAt(h, R[o], v, l) /\ TableAt(h, R[o], w, k) # Null
    BY <1>4
  <2>3. k = l /\ Path(w, k) = Path(v, l)
    BY ONLY <1>1, <2>1, <2>2, TreesAreTrees, v \in Addr, l \in Level
  <2>. QED
    BY <2>3
<1>. QED
  BY <1>3, <1>4 DEF Hanging, TablesOf

\* What the freeing walkers of level l do.
Frees(h, R, o, l) ==
    \A g, G : \A idx \in Addr :
       /\ idx = Path(idx, l)
       /\ TableAt(h, R[o], idx, l) # Null
       /\ Without(h, g, G)
       /\ G \cap TablesOf(h, R[o], Upto(l), Ahead(l, idx, Fanout)) = {}
       => Without(h, freeAt(l, g, TableAt(h, R[o], idx, l)),
                  G \cup Hanging(h, R[o], Upto(l), Ahead(l, idx, Fanout)))

FreeTurns(h, r, l, idx, tab, G) ==
    \A e : \A n \in Index :
       Without(h, e.heap, G \cup Hanging(h, r, Under(l), Ahead(l, idx, n)))
       => Without(h, Turn("free", l, e, tab, n, Zero, Null).heap,
                  G \cup Hanging(h, r, Under(l), Ahead(l, idx, n + 1)))

\* What hangs off nothing.
LEMMA HangingNone ==
    ASSUME NEW h, NEW r, NEW K
    PROVE  Hanging(h, r, K, {}) = {}
  BY DEF Hanging, TablesOf, PagesOf

\* A freeing loop frees what hangs off its table, entry by entry.
LEMMA FreeLoopAll ==
    ASSUME NEW h, NEW r, NEW l \in Level, NEW g, NEW G, Without(h, g, G),
           NEW idx \in Addr, NEW tab, FreeTurns(h, r, l, idx, tab, G),
           NEW f, Loop("free", l, [heap |-> g], tab, Zero, Null, f)
    PROVE  Without(h, f[Fanout].heap, G \cup Hanging(h, r, Under(l), Ahead(l, idx, Fanout)))
<1>. DEFINE T == {n \in 0 .. Fanout :
                    Without(h, f[n].heap, G \cup Hanging(h, r, Under(l), Ahead(l, idx, n)))}
<1>1. Fanout \in Nat
  BY PgTblAssumption
<1>2. 0 \in T
  <2>1. Ahead(l, idx, 0) = {}
    BY AheadNone
  <2>2. G \cup Hanging(h, r, Under(l), Ahead(l, idx, 0)) = G
    BY <2>1, HangingNone
  <2>3. f[0].heap = g /\ 0 \in 0 .. Fanout
    BY <1>1 DEF Loop
  <2>. QED
    BY <2>2, <2>3
<1>3. ASSUME NEW n \in 0 .. Fanout - 1, n \in T
      PROVE  n + 1 \in T
  <2>1. n \in Index /\ n + 1 \in 0 .. Fanout
    BY <1>1 DEF Index
  <2>2. f[n + 1] = Turn("free", l, f[n], tab, n, Zero, Null)
    BY <2>1 DEF Loop
  <2>3. Without(h, f[n].heap, G \cup Hanging(h, r, Under(l), Ahead(l, idx, n)))
    BY <1>3
  <2>4. Without(h, f[n + 1].heap, G \cup Hanging(h, r, Under(l), Ahead(l, idx, n + 1)))
    BY ONLY <2>1, <2>2, <2>3, FreeTurns(h, r, l, idx, tab, G) DEF FreeTurns
  <2>. QED
    BY <2>1, <2>4
<1>4. Fanout \in T
  <2>. HIDE DEF T
  <2>1. Fanout \in 0 .. Fanout
    BY <1>1
  <2>2. \A n \in 0 .. Fanout : n \in T
    BY <1>1, <1>2, <1>3, Induction
  <2>. QED
    BY <2>1, <2>2
<1>. QED
  BY <1>4

\* The table of a loop is there while its entries are visited.
AtTurn(h, R, o, l, idx, tab, G, D, s, G1) ==
    /\ l \in Level /\ idx \in Addr /\ s \in Addr /\ D \in SUBSET Addr
    /\ FreeOK(h, R, o)
    /\ idx = Path(idx, l) /\ tab = TableAt(h, R[o], idx, l) /\ tab # Null
    /\ G \cap TablesOf(h, R[o], Upto(l), Ahead(l, idx, Fanout)) = {}
    /\ s[l] \in Index /\ Path(s, l) = idx /\ TableAt(h, R[o], s, l) = tab
    /\ G1 = G \cup Hanging(h, R[o], Under(l), D)

\* A table is there while its loop runs.
LEMMA TableThere ==
    ASSUME NEW h, NEW R, NEW o, NEW l, NEW idx, NEW tab, NEW G, NEW D, NEW s, NEW G1,
           AtTurn(h, R, o, l, idx, tab, G, D, s, G1)
    PROVE  tab \in Tabs(h) /\ tab \notin G1
<1>. /\ l \in Level /\ idx \in Addr /\ s \in Addr /\ D \in SUBSET Addr
     /\ FreeOK(h, R, o)
     /\ idx = Path(idx, l) /\ tab = TableAt(h, R[o], idx, l) /\ tab # Null
     /\ G \cap TablesOf(h, R[o], Upto(l), Ahead(l, idx, Fanout)) = {}
     /\ s[l] \in Index /\ Path(s, l) = idx /\ TableAt(h, R[o], s, l) = tab
     /\ G1 = G \cup Hanging(h, R[o], Under(l), D)
  BY DEF AtTurn
<1>3. HeapOK(h) /\ Forest(h, R) /\ o \in Owner
  BY DEF FreeOK
<1>4. tab \in Tabs(h)
  BY <1>3, TableIn
<1>5. tab \notin G
  <2>1. s \in Ahead(l, idx, Fanout)
    BY PgTblAssumption DEF Ahead, Index
  <2>2. l \in Upto(l)
    BY DEF Upto
  <2>3. tab \in TablesOf(h, R[o], Upto(l), Ahead(l, idx, Fanout))
    BY <2>1, <2>2 DEF TablesOf
  <2>. QED
    BY <2>3
<1>6. tab \notin Hanging(h, R[o], Under(l), D)
  <2>1. PICK K : K = Under(l)
    OBVIOUS
  <2>2. K \in SUBSET Level /\ \A k \in K : k # l
    BY <2>1 DEF Under
  <2>3. \A k \in K, w \in D : k = l => Path(w, k) # Path(s, k)
    BY <2>2
  <2>4. tab \notin Hanging(h, R[o], K, D)
    BY <2>2, <2>3, HangingApart
  <2>. QED
    BY ONLY <2>1, <2>4
<1>. QED
  BY <1>4, <1>5, <1>6

\* The turns of the loop over a leaf table.
LEMMA FreeTurnsLeaf ==
    ASSUME NEW h, NEW R, NEW o, FreeOK(h, R, o),
           NEW idx \in Addr, idx = Path(idx, 1),
           NEW tab, tab = TableAt(h, R[o], idx, 1), tab # Null,
           NEW G, G \cap TablesOf(h, R[o], Upto(1), Ahead(1, idx, Fanout)) = {}
    PROVE  FreeTurns(h, R[o], 1, idx, tab, G)
<1>. SUFFICES ASSUME NEW e, NEW n \in Index, NEW G1,
                     G1 = G \cup Hanging(h, R[o], Under(1), Ahead(1, idx, n)),
                     Without(h, e.heap, G1)
              PROVE  Without(h, Turn("free", 1, e, tab, n, Zero, Null).heap,
                             G \cup Hanging(h, R[o], Under(1), Ahead(1, idx, n + 1)))
  BY DEF FreeTurns
<1>1. PICK s : s = Sub(idx, 1, n)
  OBVIOUS
<1>2. 1 \in Level /\ Ahead(1, idx, n) \in SUBSET Addr
  BY DEF Ahead
<1>3. /\ s \in Addr /\ s[1] = n /\ Path(s, 1) = idx
      /\ TableAt(h, R[o], s, 1) = tab
      /\ tab \in Tabs(h)
      /\ e.heap.tables[tab] = h.tables[tab]
  <2>1. s \in Addr /\ s[1] = n /\ Path(s, 1) = idx
    BY <1>1, <1>2, SubPath
  <2>2. TableAt(h, R[o], s, 1) = tab
    BY <1>2, <2>1, ThroughSame
  <2>3. s[1] \in Index
    BY <2>1
  <2>4. tab \in Tabs(h) /\ e.heap.tables[tab] = h.tables[tab]
    <3>1. AtTurn(h, R, o, 1, idx, tab, G, Ahead(1, idx, n), s, G1)
      BY <1>2, <2>1, <2>2, <2>3 DEF AtTurn
    <3>2. tab \in Tabs(h) /\ tab \notin G1
      BY ONLY <3>1, TableThere
    <3>. QED
      BY <3>2, WithoutTable
  <2>. QED
    BY <2>1, <2>2, <2>4
<1>4. PICK pte : pte = Walk(h, R[o], s)
  OBVIOUS
<1>5. e.heap.tables[tab][n] = pte
  BY <1>3, <1>4 DEF Walk, Tabs
<1>6. pte = Absent \/ (exists(pte) /\ pte.acc)
  <2>1. HeapOK(h) /\ Forest(h, R) /\ o \in Owner
    BY DEF FreeOK
  <2>. QED
    BY <1>3, <1>4, <2>1, ForestWalk
<1>7. Hanging(h, R[o], Under(1), Ahead(1, idx, n + 1)) =
         Hanging(h, R[o], Under(1), Ahead(1, idx, n)) \cup Hanging(h, R[o], Under(1), {s})
  <2>1. Ahead(1, idx, n + 1) = Ahead(1, idx, n) \cup {s}
    BY <1>1, AheadLeaf
  <2>. QED
    BY <2>1, HangingUnion
<1>8. Under(1) = {}
  BY DEF Under
<1>9. CASE pte.rw
  <2>1. exists(pte) /\ pte.acc
    <3>1. Absent.rw = FALSE
      BY DEF Absent
    <3>. QED
      BY <1>6, <1>9, <3>1
  <2>2. PICK x : x = Free(e.heap, pte.frame)
    OBVIOUS
  <2>7. Turn("free", 1, e, tab, n, Zero, Null) = [heap |-> x]
    BY <1>5, <1>9, <2>1, <2>2 DEF Turn, Visit, nextTableOrFrame
  <2>3. Hanging(h, R[o], Under(1), {s}) = {pte.frame}
    BY <1>4, <1>8, <1>9 DEF Hanging, TablesOf, PagesOf
  <2>4. Without(h, Free(e.heap, pte.frame), G1 \cup {pte.frame})
    BY WithoutOne
  <2>5. G \cup Hanging(h, R[o], Under(1), Ahead(1, idx, n + 1)) = G1 \cup {pte.frame}
    BY ONLY <1>7, <2>3, G1 = G \cup Hanging(h, R[o], Under(1), Ahead(1, idx, n))
  <2>6. Turn("free", 1, e, tab, n, Zero, Null).heap = Free(e.heap, pte.frame)
    BY ONLY <2>2, <2>7
  <2>. QED
    BY ONLY <2>4, <2>5, <2>6
<1>10. CASE ~pte.rw
  <2>1. Turn("free", 1, e, tab, n, Zero, Null) = e
    BY <1>5, <1>10 DEF Turn, Visit
  <2>2. Hanging(h, R[o], Under(1), {s}) = {}
    BY <1>4, <1>8, <1>10 DEF Hanging, TablesOf, PagesOf
  <2>3. G \cup Hanging(h, R[o], Under(1), Ahead(1, idx, n + 1)) = G1
    BY ONLY <1>7, <2>2, G1 = G \cup Hanging(h, R[o], Under(1), Ahead(1, idx, n))
  <2>. QED
    BY ONLY <2>1, <2>3, Without(h, e.heap, G1)
<1>. QED
  BY <1>9, <1>10

\* The turns of the loop over a table above, if those below are freed rightly.
LEMMA FreeTurnsAbove ==
    ASSUME NEW h, NEW R, NEW o, FreeOK(h, R, o),
           NEW l \in {2, 3}, NEW k \in Level, k = l - 1, Frees(h, R, o, k),
           NEW idx \in Addr, idx = Path(idx, l),
           NEW tab, tab = TableAt(h, R[o], idx, l), tab # Null,
           NEW G, G \cap TablesOf(h, R[o], Upto(l), Ahead(l, idx, Fanout)) = {}
    PROVE  FreeTurns(h, R[o], l, idx, tab, G)
<1>. SUFFICES ASSUME NEW e, NEW n \in Index, NEW D, D = Ahead(l, idx, n),
                     NEW G1, G1 = G \cup Hanging(h, R[o], Under(l), D),
                     Without(h, e.heap, G1)
              PROVE  Without(h, Turn("free", l, e, tab, n, Zero, Null).heap,
                             G \cup Hanging(h, R[o], Under(l), Ahead(l, idx, n + 1)))
  BY DEF FreeTurns
<1>1. PICK s, E : s = Sub(idx, l, n) /\ E = Ahead(k, s, Fanout)
  OBVIOUS
<1>2. l \in Level /\ D \in SUBSET Addr /\ E \in SUBSET Addr
  BY <1>1 DEF Ahead
<1>3. /\ s \in Addr /\ s[l] = n /\ Path(s, l) = idx
      /\ TableAt(h, R[o], s, l) = tab
      /\ tab \in Tabs(h)
      /\ e.heap.tables[tab] = h.tables[tab]
  <2>1. s \in Addr /\ s[l] = n /\ Path(s, l) = idx
    BY <1>1, <1>2, SubPath
  <2>2. TableAt(h, R[o], s, l) = tab
    BY <1>2, <2>1, ThroughSame
  <2>3. s[l] \in Index
    BY <2>1
  <2>4. tab \in Tabs(h) /\ e.heap.tables[tab] = h.tables[tab]
    <3>1. AtTurn(h, R, o, l, idx, tab, G, D, s, G1)
      BY <1>2, <2>1, <2>2, <2>3 DEF AtTurn
    <3>2. tab \in Tabs(h) /\ tab \notin G1
      BY ONLY <3>1, TableThere
    <3>. QED
      BY <3>2, WithoutTable
  <2>. QED
    BY <2>1, <2>2, <2>4
<1>4. HeapOK(h) /\ Forest(h, R) /\ o \in Owner
  BY DEF FreeOK
<1>5. PICK pte : pte = h.tables[tab][n]
  OBVIOUS
<1>6. TableAt(h, R[o], s, k) = pte.frame
  <2>1. Below(h, tab, n) = pte.frame
    BY <1>3, <1>5 DEF Below, Tabs
  <2>2. TableAt(h, R[o], s, l - 1) = Below(h, TableAt(h, R[o], s, l), s[l])
    BY TableBelow
  <2>. QED
    BY ONLY <1>3, <2>1, <2>2, k = l - 1
<1>7. pte = Absent \/ (exists(pte) /\ pte.acc)
  <2>1. tab = TableAt(h, R[o], s, l) /\ pte = h.tables[tab][s[l]] /\ tab # Null
    BY <1>3, <1>5
  <2>2. s \in Addr
    BY <1>3
  <2>. QED
    BY ONLY <1>4, <2>1, <2>2, l \in {2, 3}, EntryIn
<1>8. Upto(k) = Under(l)
  BY DEF Upto, Under
<1>9. s = Path(s, k)
  BY <1>1, SubPathBelow
<1>10. G \cup Hanging(h, R[o], Under(l), Ahead(l, idx, n + 1)) =
          G1 \cup Hanging(h, R[o], Under(l), E)
  <2>1. Ahead(l, idx, n + 1) = D \cup E
    BY <1>1, AheadStep
  <2>2. Hanging(h, R[o], Under(l), D \cup E) =
           Hanging(h, R[o], Under(l), D) \cup Hanging(h, R[o], Under(l), E)
    BY HangingUnion
  <2>. QED
    BY ONLY <2>1, <2>2, G1 = G \cup Hanging(h, R[o], Under(l), D)
<1>11. CASE exists(pte) /\ pte.acc
  <2>1. Turn("free", l, e, tab, n, Zero, Null).heap = freeAt(k, e.heap, pte.frame)
    <3>1. Turn("free", l, e, tab, n, Zero, Null) = Visit("free", l, e, pte, n, Zero, Null)
      BY <1>3, <1>5, <1>11 DEF Turn
    <3>2. Visit("free", l, e, pte, n, Zero, Null).heap = freeAt(k, e.heap, pte.frame)
      BY <1>11, FreeVisitBelow
    <3>. QED
      BY ONLY <3>1, <3>2
  <2>2. G1 \cap TablesOf(h, R[o], Under(l), E) = {}
    <3>. SUFFICES ASSUME NEW t \in TablesOf(h, R[o], Under(l), E)
                  PROVE  t \notin G1
      OBVIOUS
    <3>1. PICK v \in E, j \in Under(l) : t = TableAt(h, R[o], v, j) /\ t # Null
      BY DEF TablesOf
    <3>2. v \in Addr /\ Path(v, k) = s /\ j \in Level /\ j < l
      BY <1>1, <3>1 DEF Ahead, Under
    <3>3. Path(v, l) = idx /\ v[l] = n
      <4>1. Path(v, l - 1) = Path(s, l - 1)
        BY ONLY <1>9, <3>2, k = l - 1
      <4>. QED
        BY <1>3, <3>2, <4>1, PathSplit
    <3>4. t \notin G
      <4>1. v \in Ahead(l, idx, Fanout)
        BY <3>2, <3>3, PgTblAssumption DEF Ahead, Index
      <4>2. j \in Upto(l)
        BY <3>2 DEF Upto
      <4>3. t \in TablesOf(h, R[o], Upto(l), Ahead(l, idx, Fanout))
        BY <3>1, <4>1, <4>2 DEF TablesOf
      <4>. QED
        BY <4>3
    <3>5. t \notin Hanging(h, R[o], Under(l), D)
      <4>1. PICK K : K = Under(l)
        OBVIOUS
      <4>2. K \in SUBSET Level
        BY <4>1 DEF Under
      <4>3. ASSUME NEW w \in D
            PROVE  Path(w, j) # Path(v, j)
        <5>1. w \in Addr /\ w[l] < n /\ w[l] \in Nat /\ n \in Nat
          BY <1>2, AddrAt, PgTblAssumption DEF Ahead, Index
        <5>2. Path(w, j)[l] = w[l] /\ Path(v, j)[l] = v[l]
          BY <1>2, <3>2, <5>1, PathType
        <5>3. w[l] # v[l]
          BY <3>3, <5>1
        <5>. QED
          BY ONLY <5>2, <5>3
      <4>4. \A i \in K, w \in D : i = j => Path(w, i) # Path(v, i)
        BY <4>3
      <4>5. t \notin Hanging(h, R[o], K, D)
        BY ONLY <1>2, <3>1, <3>2, <4>2, <4>4, FreeOK(h, R, o), HangingApart
      <4>. QED
        BY ONLY <4>1, <4>5
    <3>. QED
      BY <3>4, <3>5
  <2>3. TableAt(h, R[o], s, k) # Null
    BY <1>6, <1>11 DEF exists
  <2>4. G1 \cap TablesOf(h, R[o], Upto(k), Ahead(k, s, Fanout)) = {}
    BY ONLY <1>1, <1>8, <2>2
  <2>5. Without(h, freeAt(k, e.heap, TableAt(h, R[o], s, k)),
                G1 \cup Hanging(h, R[o], Upto(k), Ahead(k, s, Fanout)))
    BY ONLY <1>3, <1>9, <2>3, <2>4, Frees(h, R, o, k), Without(h, e.heap, G1) DEF Frees
  <2>. QED
    BY ONLY <1>1, <1>6, <1>8, <1>10, <2>1, <2>5
<1>12. CASE pte = Absent
  <2>1. ~exists(pte) /\ pte.frame = Null
    BY <1>12 DEF exists, Absent
  <2>2. Turn("free", l, e, tab, n, Zero, Null) = e
    BY <1>3, <1>5, <2>1 DEF Turn
  <2>3. ASSUME NEW w \in E
        PROVE  /\ Walk(h, R[o], w) = Absent
               /\ \A j \in Under(l) : TableAt(h, R[o], w, j) = Null
    <3>1. w \in Addr /\ Path(w, k) = Path(s, k)
      BY <1>1, <1>9 DEF Ahead
    <3>2. TableAt(h, R[o], w, k) = Null
      BY <1>3, <1>6, <2>1, <3>1, ThroughSame
    <3>3. /\ \A j \in Level : j < k => TableAt(h, R[o], w, j) = Null
          /\ Walk(h, R[o], w) = Absent
      BY <1>4, <3>1, <3>2, NothingBelow
    <3>4. \A j \in Under(l) : j \in Level /\ (j < k \/ j = k)
      BY DEF Under
    <3>. QED
      BY ONLY <3>2, <3>3, <3>4
  <2>4. Hanging(h, R[o], Under(l), E) = {}
    BY <2>3 DEF Hanging, TablesOf, PagesOf, Absent
  <2>. QED
    BY ONLY <1>10, <2>2, <2>4, Without(h, e.heap, G1)
<1>. QED
  BY <1>7, <1>11, <1>12

\* When the loop is over, the table itself is freed.
LEMMA HangingTable ==
    ASSUME NEW h, NEW r, NEW l \in Level, NEW idx \in Addr, idx = Path(idx, l),
           NEW tab, tab = TableAt(h, r, idx, l), tab # Null,
           NEW A, A = Ahead(l, idx, Fanout)
    PROVE  Hanging(h, r, Upto(l), A) = Hanging(h, r, Under(l), A) \cup {tab}
<1>1. \A v \in A : TableAt(h, r, v, l) = tab
  <2>. SUFFICES ASSUME NEW v \in A
                PROVE  TableAt(h, r, v, l) = tab
    OBVIOUS
  <2>1. v \in Addr /\ Path(v, l) = Path(idx, l)
    BY DEF Ahead
  <2>. QED
    BY <2>1, ThroughSame
<1>2. \E v : v \in A
  <2>1. PICK s, i : s = Sub(idx, l, i) /\ i = 0
    OBVIOUS
  <2>2. i \in Index /\ i < Fanout
    BY <2>1, PgTblAssumption DEF Index
  <2>3. s \in Addr /\ s[l] = i /\ Path(s, l) = idx
    BY <2>1, <2>2, SubPath
  <2>. QED
    BY <2>2, <2>3 DEF Ahead
<1>3. \A k : k \in Upto(l) <=> k \in Under(l) \/ k = l
  BY DEF Upto, Under
<1>4. TablesOf(h, r, Upto(l), A) = TablesOf(h, r, Under(l), A) \cup {tab}
  BY <1>1, <1>2, <1>3 DEF TablesOf
<1>. QED
  BY <1>4 DEF Hanging

\* From the turns to the table.
LEMMA FreesBy ==
    ASSUME NEW h, NEW R, NEW o, NEW l \in Level, NEW idx \in Addr, idx = Path(idx, l),
           NEW tab, tab = TableAt(h, R[o], idx, l), tab # Null,
           NEW g, NEW G, Without(h, g, G), FreeTurns(h, R[o], l, idx, tab, G)
    PROVE  Without(h, freeAt(l, g, tab), G \cup Hanging(h, R[o], Upto(l), Ahead(l, idx, Fanout)))
<1>1. PICK f : /\ Loop("free", l, [heap |-> g], tab, Zero, Null, f)
               /\ freeAt(l, g, tab) = Free(f[Fanout].heap, tab)
  BY FreeLoop
<1>2. PICK A : A = Ahead(l, idx, Fanout)
  OBVIOUS
<1>3. Without(h, f[Fanout].heap, G \cup Hanging(h, R[o], Under(l), A))
  BY <1>1, <1>2, FreeLoopAll
<1>4. Without(h, Free(f[Fanout].heap, tab), (G \cup Hanging(h, R[o], Under(l), A)) \cup {tab})
  BY <1>3, WithoutOne
<1>5. Hanging(h, R[o], Upto(l), A) = Hanging(h, R[o], Under(l), A) \cup {tab}
  BY <1>2, HangingTable
<1>6. G \cup Hanging(h, R[o], Upto(l), A) = (G \cup Hanging(h, R[o], Under(l), A)) \cup {tab}
  BY ONLY <1>5
<1>. QED
  BY ONLY <1>1, <1>2, <1>4, <1>6

\* Leaf tables are freed rightly.
LEMMA FreesLeaf ==
    ASSUME NEW h, NEW R, NEW o, FreeOK(h, R, o)
    PROVE  Frees(h, R, o, 1)
<1>. SUFFICES ASSUME NEW g, NEW G, NEW idx \in Addr, idx = Path(idx, 1),
                     NEW tab, tab = TableAt(h, R[o], idx, 1), tab # Null,
                     Without(h, g, G),
                     G \cap TablesOf(h, R[o], Upto(1), Ahead(1, idx, Fanout)) = {}
              PROVE  Without(h, freeAt(1, g, tab),
                             G \cup Hanging(h, R[o], Upto(1), Ahead(1, idx, Fanout)))
  BY DEF Frees
<1>1. 1 \in Level
  OBVIOUS
<1>2. FreeTurns(h, R[o], 1, idx, tab, G)
  BY FreeTurnsLeaf
<1>. QED
  BY <1>1, <1>2, FreesBy

\* So are those above.
LEMMA FreesAbove ==
    ASSUME NEW h, NEW R, NEW o, FreeOK(h, R, o),
           NEW l \in {2, 3}, NEW k \in Level, k = l - 1, Frees(h, R, o, k)
    PROVE  Frees(h, R, o, l)
<1>. SUFFICES ASSUME NEW g, NEW G, NEW idx \in Addr, idx = Path(idx, l),
                     NEW tab, tab = TableAt(h, R[o], idx, l), tab # Null,
                     Without(h, g, G),
                     G \cap TablesOf(h, R[o], Upto(l), Ahead(l, idx, Fanout)) = {}
              PROVE  Without(h, freeAt(l, g, tab),
                             G \cup Hanging(h, R[o], Upto(l), Ahead(l, idx, Fanout)))
  BY DEF Frees
<1>1. l \in Level
  OBVIOUS
<1>2. FreeTurns(h, R[o], l, idx, tab, G)
  BY FreeTurnsAbove
<1>. QED
  BY <1>1, <1>2, FreesBy

\* Freeing a whole table frees all of its tables and the pages that it may write.
LEMMA FreeAll ==
    ASSUME NEW h, NEW R, NEW o, FreeOK(h, R, o), NEW r, r = R[o], r # Null
    PROVE  Without(h, freePageTable(h, r), Hanging(h, r, Level, Addr))
<1>1. Frees(h, R, o, 1)
  BY FreesLeaf
<1>2. Frees(h, R, o, 2)
  <2>1. PICK l, k : l = 2 /\ k = 1
    OBVIOUS
  <2>2. l \in {2, 3} /\ k \in Level /\ k = l - 1 /\ Frees(h, R, o, k)
    BY <1>1, <2>1
  <2>3. Frees(h, R, o, l)
    BY <2>2, FreesAbove
  <2>. QED
    BY ONLY <2>1, <2>3
<1>3. Frees(h, R, o, 3)
  <2>1. PICK l, k : l = 3 /\ k = 2
    OBVIOUS
  <2>2. l \in {2, 3} /\ k \in Level /\ k = l - 1 /\ Frees(h, R, o, k)
    BY <1>2, <2>1
  <2>3. Frees(h, R, o, l)
    BY <2>2, FreesAbove
  <2>. QED
    BY ONLY <2>1, <2>3
<1>4. Zero \in Addr /\ Zero = Path(Zero, 3)
  BY ZeroIndex, PathTop
<1>5. TableAt(h, R[o], Zero, 3) = r
  BY TableAtIs
<1>6. PICK G : G = {}
  OBVIOUS
<1>7. Without(h, h, G)
  BY <1>6, WithoutNone DEF FreeOK
<1>8. freePageTable(h, r) = freeAt(3, h, r)
  BY DEF freeAt
<1>9. Upto(3) = Level
  BY DEF Upto
<1>10. Without(h, freeAt(3, h, r), G \cup Hanging(h, r, Level, Addr))
  <2>1. Without(h, freeAt(3, h, TableAt(h, R[o], Zero, 3)),
                G \cup Hanging(h, R[o], Upto(3), Ahead(3, Zero, Fanout)))
    BY <1>3, <1>4, <1>5, <1>6, <1>7 DEF Frees
  <2>. QED
    BY ONLY <1>5, <1>9, <2>1, AheadAll, r = R[o]
<1>11. G \cup Hanging(h, r, Level, Addr) = Hanging(h, r, Level, Addr)
  BY <1>6
<1>. QED
  BY ONLY <1>8, <1>10, <1>11

\* A tree is left out of a forest, and its tables may be gone.
LEMMA ForestWithout ==
    ASSUME NEW h, HeapOK(h), NEW R, Forest(h, R), NEW o \in Owner,
           NEW S, Rerooted(R, S, o, Null),
           NEW g, \A t \in Tabs(h) : t \in Tabs(g) => g.tables[t] = h.tables[t],
           \A t \in Tabs(h) : t \in Tabs(g) \/ \E v \in Addr, k \in Level : t = TableAt(h, R[o], v, k)
    PROVE  Forest(g, S)
<1>1. PICK kept \in SUBSET Tabs(h) :
         \E own \in [kept -> Owner], lvl \in [kept -> Level], at \in [kept -> Addr] :
            Trees(h, R, kept, own, lvl, at)
  BY DEF Forest
<1>2. PICK own \in [kept -> Owner], lvl \in [kept -> Level], at \in [kept -> Addr] :
            Trees(h, R, kept, own, lvl, at)
  BY <1>1
<1>3. PICK kept2 : kept2 = {t \in kept : own[t] # o}
  OBVIOUS
<1>4. PICK own2, lvl2, at2 : /\ own2 = [t \in kept2 |-> own[t]]
                             /\ lvl2 = [t \in kept2 |-> lvl[t]]
                             /\ at2 = [t \in kept2 |-> at[t]]
  OBVIOUS
<1>5. /\ own2 \in [kept2 -> Owner] /\ lvl2 \in [kept2 -> Level] /\ at2 \in [kept2 -> Addr]
      /\ \A t \in kept2 : own2[t] = own[t] /\ lvl2[t] = lvl[t] /\ at2[t] = at[t]
  BY <1>3, <1>4
<1>6. \A t \in kept2 : t \in Tabs(h) /\ t \in Tabs(g) /\ g.tables[t] = h.tables[t]
  <2>. SUFFICES ASSUME NEW t \in kept2, t \notin Tabs(g)
                PROVE  FALSE
    BY <1>3
  <2>1. t \in Tabs(h) /\ t \in kept /\ own[t] # o
    BY <1>3
  <2>2. PICK v \in Addr, k \in Level : t = TableAt(h, R[o], v, k)
    BY <2>1
  <2>3. t # Null
    BY <2>1, NullNoTable
  <2>4. own[TableAt(h, R[o], v, k)] = o
    BY <1>2, <2>2, <2>3, Placing
  <2>. QED
    BY <2>1, <2>2, <2>4
<1>7. \A q \in Owner : PlacedRoot(S[q], q, kept2, own2, lvl2, at2)
  <2>. SUFFICES ASSUME NEW q \in Owner, S[q] # Null
                PROVE  /\ S[q] \in kept2 /\ own2[S[q]] = q
                       /\ lvl2[S[q]] = PDPT_LEVEL /\ at2[S[q]] = Zero
    BY DEF PlacedRoot
  <2>1. q # o /\ S[q] = R[q]
    BY DEF Rerooted
  <2>2. PlacedRoot(R[q], q, kept, own, lvl, at)
    BY <1>2 DEF Trees
  <2>3. S[q] \in kept /\ own[S[q]] = q /\ lvl[S[q]] = 3 /\ at[S[q]] = Zero
    BY <2>1, <2>2 DEF PlacedRoot
  <2>. QED
    BY <1>3, <1>5, <2>1, <2>3
<1>8. \A t \in kept2 : at2[t] = Path(at2[t], lvl2[t])
  BY <1>2, <1>3, <1>5 DEF Trees
<1>9. ASSUME NEW t \in kept2, NEW i \in Index
      PROVE  PlacedEntry(g, kept2, own2, lvl2, at2, t, i)
  <2>1. PlacedEntry(h, kept, own, lvl, at, t, i)
    BY <1>2, <1>3 DEF Trees
  <2>2. g.tables[t][i] = h.tables[t][i] /\ own2[t] = own[t] /\ lvl2[t] = lvl[t] /\ at2[t] = at[t]
    BY <1>5, <1>6
  <2>3. \A u \in kept : own[u] = own[t] => /\ u \in kept2 /\ own2[u] = own[u]
                                           /\ lvl2[u] = lvl[u] /\ at2[u] = at[u]
    BY <1>3, <1>5
  <2>. QED
    BY ONLY <2>1, <2>2, <2>3 DEF PlacedEntry
<1>10. kept2 \in SUBSET Tabs(g)
  BY <1>6
<1>11. Trees(g, S, kept2, own2, lvl2, at2)
  BY <1>5, <1>7, <1>8, <1>9, <1>10 DEF Trees
<1>. QED
  BY <1>5, <1>10, <1>11 DEF Forest

\* Freeing o's tree.
FreedTree(h, R, g, S, o) ==
    /\ HeapOK(g) /\ Forest(g, S)
    /\ OthersSame(h, g, R, o)
    /\ Tabs(g) = Tabs(h) \ TablesOf(h, R[o], Level, Addr)
    /\ g.data = h.data \ PagesOf(h, R[o], Addr)
    /\ g.mem = h.mem

\* freePageTable frees the tree and the pages it may write, and no more.
LEMMA FreedOK ==
    ASSUME NEW h, NEW R, NEW o, FreeOK(h, R, o), NEW r, r = R[o], r # Null,
           NEW S, Rerooted(R, S, o, Null), NEW g, g = freePageTable(h, r)
    PROVE  FreedTree(h, R, g, S, o)
<1>1. HeapOK(h) /\ Forest(h, R) /\ o \in Owner
  BY DEF FreeOK
<1>2. PICK T, P : T = TablesOf(h, r, Level, Addr) /\ P = PagesOf(h, r, Addr)
  OBVIOUS
<1>3. Without(h, g, T \cup P)
  <2>1. Without(h, freePageTable(h, r), Hanging(h, r, Level, Addr))
    BY FreeAll
  <2>. QED
    BY <1>2, <2>1 DEF Hanging
<1>4. T \subseteq Tabs(h)
  <2>. SUFFICES ASSUME NEW v \in Addr, NEW k \in Level, TableAt(h, R[o], v, k) # Null
                PROVE  TableAt(h, R[o], v, k) \in Tabs(h)
    BY <1>2 DEF TablesOf
  <2>. QED
    BY <1>1, ForestWalk
<1>5. P \subseteq h.data
  BY <1>2 DEF PagesOf, FreeOK
<1>6. Tabs(h) \cap h.data = {}
  BY <1>1 DEF HeapOK
<1>7. /\ Tabs(g) = Tabs(h) \ T
      /\ g.data = h.data \ P
      /\ g.mem = h.mem
      /\ Shape(g)
      /\ g.tables = [t \in Tabs(h) \ T |-> h.tables[t]]
  BY <1>3, <1>4, <1>5, <1>6 DEF Without
<1>8. \A t \in Tabs(g) : t \in Tabs(h) /\ g.tables[t] = h.tables[t]
  BY <1>7
<1>9. HeapOK(g)
  <2>1. g.tables \in [Tabs(g) -> [Index -> Pte]]
    <3>1. \A t \in Tabs(h) \ T : h.tables[t] \in [Index -> Pte]
      BY <1>1 DEF HeapOK
    <3>. QED
      BY <1>7, <3>1
  <2>. QED
    BY <1>1, <1>7, <2>1 DEF HeapOK, Shape
<1>10. \A t \in T : t # Null /\ \E v \in Addr, k \in Level : t = TableAt(h, R[o], v, k)
  BY <1>2 DEF TablesOf
<1>11. Forest(g, S)
  BY <1>1, <1>7, <1>8, <1>10, ForestWithout
<1>12. OthersSame(h, g, R, o)
  <2>. SUFFICES ASSUME NEW q \in Owner, q # o, NEW v \in Addr
                PROVE  SameWalk(h, g, R[q], v)
    BY DEF OthersSame
  <2>1. ASSUME NEW l \in Level, NEW t, t = TableAt(h, R[q], v, l), t # Null
        PROVE  t \in Tabs(h) /\ t \in Tabs(g) /\ g.tables[t][v[l]] = h.tables[t][v[l]]
    <3>1. t \in Tabs(h)
      BY <1>1, <2>1, TableIn
    <3>2. t \notin T
      <4>. SUFFICES ASSUME t \in T
                    PROVE  FALSE
        OBVIOUS
      <4>1. PICK w \in Addr, k \in Level : t = TableAt(h, R[o], w, k)
        BY <1>10
      <4>2. TableAt(h, R[o], w, k) = TableAt(h, R[q], v, l) /\ TableAt(h, R[o], w, k) # Null
        BY <2>1, <4>1
      <4>3. o = q
        BY ONLY <1>1, <4>2, TreesAreTrees, q \in Owner, v \in Addr, w \in Addr, k \in Level, l \in Level
      <4>. QED
        BY <4>3
    <3>. QED
      BY <1>7, <1>8, <3>1, <3>2
  <2>2. Unmoved(h, g, R[q], v)
    BY <2>1 DEF Unmoved
  <2>. QED
    BY ONLY <1>1, <1>9, <2>2, WalkUnchanged
<1>. QED
  BY <1>2, <1>7, <1>9, <1>11, <1>12 DEF FreedTree

(***************************************************************************)
(* What the operations do to heap and roots together.                      *)
(***************************************************************************)
\* Only o may write more than before, and pages that nobody could write.
NewWriters(h, R, g, S, o) ==
    /\ \A q \in Owner, v \in Addr : q # o => Walk(g, S[q], v) = Walk(h, R[q], v)
    /\ h.data \subseteq g.data
    /\ \A v \in Addr : Walk(g, S[o], v).rw =>
          \/ Walk(g, S[o], v) = Walk(h, R[o], v)
          \/ /\ Walk(g, S[o], v).frame \in g.data
             /\ \A q \in Owner, w \in Addr :
                   Walk(h, R[q], w).rw => Walk(h, R[q], w).frame # Walk(g, S[o], v).frame
    /\ \A v, w \in Addr : /\ Walk(g, S[o], v).rw /\ Walk(g, S[o], w).rw
                          /\ Walk(g, S[o], v).frame = Walk(g, S[o], w).frame
                          => v = w

\* Pages that may be written stay apart if the new ones are.
LEMMA WritersStep ==
    ASSUME NEW h, NEW R, WritersOK(h, R), NEW g, NEW S, NEW o, NewWriters(h, R, g, S, o)
    PROVE  WritersOK(g, S)
<1>. /\ \A q \in Owner, v \in Addr : q # o => Walk(g, S[q], v) = Walk(h, R[q], v)
     /\ h.data \subseteq g.data
     /\ \A v \in Addr : Walk(g, S[o], v).rw =>
           \/ Walk(g, S[o], v) = Walk(h, R[o], v)
           \/ /\ Walk(g, S[o], v).frame \in g.data
              /\ \A q \in Owner, w \in Addr :
                    Walk(h, R[q], w).rw => Walk(h, R[q], w).frame # Walk(g, S[o], v).frame
     /\ \A v, w \in Addr : /\ Walk(g, S[o], v).rw /\ Walk(g, S[o], w).rw
                           /\ Walk(g, S[o], v).frame = Walk(g, S[o], w).frame
                           => v = w
  BY DEF NewWriters
<1>1. ASSUME NEW q \in Owner, NEW v \in Addr, Walk(g, S[q], v).rw
      PROVE  Walk(g, S[q], v).frame \in g.data
  <2>1. CASE q = o
    BY <1>1, <2>1 DEF WritersOK
  <2>2. CASE q # o
    BY <1>1, <2>2 DEF WritersOK
  <2>. QED
    BY <2>1, <2>2
<1>2. ASSUME NEW p \in Owner, NEW q \in Owner, NEW v \in Addr, NEW w \in Addr,
             Walk(g, S[p], v).rw, Walk(g, S[q], w).rw,
             Walk(g, S[p], v).frame = Walk(g, S[q], w).frame
      PROVE  p = q /\ v = w
  <2>1. CASE p # o /\ q # o
    BY <1>2, <2>1 DEF WritersOK
  <2>2. CASE p = o /\ q = o
    BY <1>2, <2>2
  <2>3. CASE p = o /\ q # o
    <3>1. Walk(g, S[q], w) = Walk(h, R[q], w)
      BY <2>3
    <3>2. Walk(h, R[q], w).frame = Walk(g, S[o], v).frame /\ Walk(h, R[q], w).rw /\ Walk(g, S[o], v).rw
      BY <1>2, <2>3, <3>1
    <3>3. Walk(g, S[o], v) = Walk(h, R[o], v)
      BY <3>2
    <3>. QED
      BY <2>3, <3>2, <3>3 DEF WritersOK
  <2>4. CASE p # o /\ q = o
    <3>1. Walk(g, S[p], v) = Walk(h, R[p], v)
      BY <2>4
    <3>2. Walk(h, R[p], v).frame = Walk(g, S[o], w).frame /\ Walk(h, R[p], v).rw /\ Walk(g, S[o], w).rw
      BY <1>2, <2>4, <3>1
    <3>3. Walk(g, S[o], w) = Walk(h, R[o], w)
      BY <3>2
    <3>. QED
      BY <2>4, <3>2, <3>3 DEF WritersOK
  <2>. QED
    BY <2>1, <2>2, <2>3, <2>4
<1>. QED
  BY <1>1, <1>2 DEF WritersOK

\* A page is mapped.
LEMMA MapInv ==
    ASSUME NEW h, NEW R, HeapInv(h, R), NEW o \in Owner,
           NEW virt \in Page, NEW pte, NEW m, NEW S,
           Mapped(h, R, o, virt, pte, m, S), Rerooted(R, S, o, m.root),
           pte.rw => /\ pte.frame \in h.data
                     /\ \A q \in Owner, w \in Addr :
                           Walk(h, R[q], w).rw => Walk(h, R[q], w).frame # pte.frame
    PROVE  HeapInv(m.heap, S)
<1>1. /\ HeapOK(m.heap) /\ Forest(m.heap, S)
      /\ m.heap.data = h.data
      /\ OthersSame(h, m.heap, R, o)
  BY DEF Mapped, TreeGrew
<1>2. S[o] = m.root /\ \A q \in Owner : q # o => S[q] = R[q]
  BY DEF Rerooted
<1>3. \A w \in Addr : Walk(m.heap, S[o], w) = IF w = virt THEN pte ELSE Walk(h, R[o], w)
  BY <1>2 DEF Mapped
<1>4. \A q \in Owner, v \in Addr : q # o => Walk(m.heap, S[q], v) = Walk(h, R[q], v)
  BY <1>1, <1>2 DEF OthersSame, SameWalk
<1>5. WritersOK(h, R)
  BY DEF HeapInv
<1>6. \A v \in Addr : Walk(m.heap, S[o], v).rw =>
         \/ Walk(m.heap, S[o], v) = Walk(h, R[o], v)
         \/ /\ Walk(m.heap, S[o], v).frame \in m.heap.data
            /\ \A q \in Owner, w \in Addr :
                  Walk(h, R[q], w).rw => Walk(h, R[q], w).frame # Walk(m.heap, S[o], v).frame
  BY <1>1, <1>3
<1>7. ASSUME NEW v \in Addr, NEW w \in Addr,
             Walk(m.heap, S[o], v).rw, Walk(m.heap, S[o], w).rw,
             Walk(m.heap, S[o], v).frame = Walk(m.heap, S[o], w).frame
      PROVE  v = w
  <2>1. CASE v = virt \/ w = virt
    BY <1>3, <1>7, <2>1
  <2>2. CASE v # virt /\ w # virt
    BY <1>3, <1>5, <1>7, <2>2 DEF WritersOK
  <2>. QED
    BY <2>1, <2>2
<1>8. NewWriters(h, R, m.heap, S, o)
  <2>1. h.data \subseteq m.heap.data
    BY <1>1
  <2>. QED
    BY ONLY <1>4, <1>6, <1>7, <2>1 DEF NewWriters
<1>9. WritersOK(m.heap, S)
  BY ONLY <1>5, <1>8, WritersStep
<1>. QED
  BY <1>1, <1>9 DEF HeapInv

\* A table is copied.
LEMMA CopyInv ==
    ASSUME NEW h, NEW R, HeapInv(h, R), NEW src, NEW u, SourceOK(h, R, src, u), NEW deep,
           NEW c, Copied(h, R, src, u, deep, c, Addr), NEW S, Rerooted(R, S, u, c.root)
    PROVE  HeapInv(c.heap, S)
<1>1. /\ HeapOK(c.heap) /\ Forest(c.heap, With(R, u, c.root))
      /\ OthersSame(h, c.heap, R, u) /\ h.data \subseteq c.heap.data
  BY DEF Copied
<1>2. S[u] = c.root /\ \A q \in Owner : q # u => S[q] = R[q]
  BY DEF Rerooted
<1>3. u \in Owner
  BY DEF SourceOK
<1>4. Forest(c.heap, S)
  <2>1. \A q \in Owner : S[q] = With(R, u, c.root)[q]
    <3>1. TAKE q \in Owner
    <3>2. CASE q = u
      BY <1>2, <3>2 DEF With
    <3>3. CASE q # u
      BY <1>2, <3>3 DEF With
    <3>. QED
      BY <3>2, <3>3
  <2>. QED
    BY <1>1, <2>1, ForestRoots
<1>5. \A q \in Owner, v \in Addr : q # u => Walk(c.heap, S[q], v) = Walk(h, R[q], v)
  BY <1>1, <1>2 DEF OthersSame, SameWalk
<1>6. WritersOK(h, R)
  BY DEF HeapInv
<1>7. ASSUME NEW v \in Addr, Walk(c.heap, S[u], v).rw
      PROVE  /\ v \in PagesCopied(h, R[src], deep, Addr)
             /\ Walk(c.heap, S[u], v).frame \in c.heap.data
             /\ Walk(c.heap, S[u], v).frame \notin h.data
  <2>. DEFINE w == Walk(h, R[src], v)
              e == Walk(c.heap, c.root, v)
  <2>1. EntryCopied(h, c.heap, w, e, deep) /\ e.rw
    BY <1>2, <1>7 DEF Copied
  <2>2. Walk(c.heap, S[u], v) = e
    BY <1>2
  <2>3. Absent.rw = FALSE
    BY DEF Absent
  <2>4. Entry(w.frame, FALSE, TRUE).rw = FALSE
    BY DEF Entry
  <2>. HIDE DEF w, e
  <2>5. w.dirty /\ deep /\ w.rw /\ e.frame \in c.heap.data \ h.data
    BY ONLY <2>1, <2>3, <2>4 DEF EntryCopied
  <2>. QED
    BY <2>2, <2>5 DEF PagesCopied, w
<1>8. \A q \in Owner, w \in Addr : Walk(h, R[q], w).rw => Walk(h, R[q], w).frame \in h.data
  BY <1>6 DEF WritersOK
<1>9. \A v \in Addr : Walk(c.heap, S[u], v).rw =>
         \/ Walk(c.heap, S[u], v) = Walk(h, R[u], v)
         \/ /\ Walk(c.heap, S[u], v).frame \in c.heap.data
            /\ \A q \in Owner, w \in Addr :
                  Walk(h, R[q], w).rw => Walk(h, R[q], w).frame # Walk(c.heap, S[u], v).frame
  BY <1>7, <1>8
<1>10. \A v, w \in PagesCopied(h, R[src], deep, Addr) :
          Walk(c.heap, c.root, v).frame = Walk(c.heap, c.root, w).frame => v = w
  BY DEF Copied
<1>11. \A v, w \in Addr : /\ Walk(c.heap, S[u], v).rw /\ Walk(c.heap, S[u], w).rw
                          /\ Walk(c.heap, S[u], v).frame = Walk(c.heap, S[u], w).frame
                          => v = w
  BY <1>2, <1>7, <1>10
<1>12. NewWriters(h, R, c.heap, S, u)
  BY ONLY <1>1, <1>5, <1>9, <1>11 DEF NewWriters
<1>13. WritersOK(c.heap, S)
  BY ONLY <1>6, <1>12, WritersStep
<1>. QED
  BY <1>1, <1>4, <1>13 DEF HeapInv

\* A table is freed.
LEMMA FreedInv ==
    ASSUME NEW h, NEW R, HeapInv(h, R), NEW o \in Owner, NEW g, NEW S,
           FreedTree(h, R, g, S, o), Rerooted(R, S, o, Null)
    PROVE  HeapInv(g, S)
<1>1. /\ HeapOK(g) /\ Forest(g, S)
      /\ OthersSame(h, g, R, o)
      /\ g.data = h.data \ PagesOf(h, R[o], Addr)
  BY DEF FreedTree
<1>2. S[o] = Null /\ \A q \in Owner : q # o => S[q] = R[q]
  BY DEF Rerooted
<1>3. \A q \in Owner, v \in Addr : q # o => Walk(g, S[q], v) = Walk(h, R[q], v)
  BY <1>1, <1>2 DEF OthersSame, SameWalk
<1>4. \A v \in Addr : ~Walk(g, S[o], v).rw
  BY <1>1, <1>2, NoTree DEF Absent
<1>5. ASSUME NEW q \in Owner, NEW v \in Addr, Walk(g, S[q], v).rw
      PROVE  q # o /\ Walk(g, S[q], v).frame \in g.data
  <2>1. q # o
    BY <1>4, <1>5
  <2>2. Walk(h, R[q], v).rw /\ Walk(g, S[q], v) = Walk(h, R[q], v)
    BY <1>3, <1>5, <2>1
  <2>3. Walk(h, R[q], v).frame \in h.data
    BY <2>2 DEF HeapInv, WritersOK
  <2>4. \A w \in Addr : Walk(h, R[o], w).rw => Walk(h, R[o], w).frame # Walk(h, R[q], v).frame
    BY <2>1, <2>2 DEF HeapInv, WritersOK
  <2>5. Walk(h, R[q], v).frame \notin PagesOf(h, R[o], Addr)
    BY <2>4 DEF PagesOf
  <2>. QED
    BY <1>1, <2>1, <2>2, <2>3, <2>5
<1>6. WritersOK(h, R)
  BY DEF HeapInv
<1>7. WritersOK(g, S)
  BY ONLY <1>3, <1>5, <1>6 DEF WritersOK
<1>. QED
  BY <1>1, <1>7 DEF HeapInv

\* A table is lost.
LEMMA LostInv ==
    ASSUME NEW h, NEW R, HeapInv(h, R), NEW o \in Owner, NEW S, Rerooted(R, S, o, Null)
    PROVE  HeapInv(h, S)
<1>1. HeapOK(h) /\ Forest(h, R)
  BY DEF HeapInv
<1>2. Forest(h, S)
  BY <1>1, ForestWithout
<1>3. S[o] = Null /\ \A q \in Owner : q # o => S[q] = R[q]
  BY DEF Rerooted
<1>4. \A v \in Addr : ~Walk(h, S[o], v).rw
  BY <1>1, <1>3, NoTree DEF Absent
<1>5. WritersOK(h, S)
  BY <1>3, <1>4 DEF HeapInv, WritersOK
<1>. QED
  BY <1>1, <1>2, <1>5 DEF HeapInv

\* Roots that are the same.
LEMMA SameRoots ==
    ASSUME NEW h, NEW R, HeapInv(h, R), NEW S, \A q \in Owner : S[q] = R[q]
    PROVE  HeapInv(h, S)
<1>1. Forest(h, S)
  BY ForestRoots DEF HeapInv
<1>2. WritersOK(h, S)
  BY DEF HeapInv, WritersOK
<1>. QED
  BY <1>1, <1>2 DEF HeapInv

(***************************************************************************)
(* The operations of the program.                                          *)
(***************************************************************************)
LEMMA RootsAre ==
    ASSUME PgInv
    PROVE  /\ \A o \in Owner : Roots[o] = RootOf(o)
           /\ HeapInv(heap, Roots)
           /\ HeapOK(heap) /\ Forest(heap, Roots)
  BY DEF PgInv, Roots, HeapInv

\* Roots are pages or null.
LEMMA RootsType ==
    ASSUME NEW h, HeapOK(h), NEW R, Forest(h, R), NEW o \in Owner
    PROVE  R[o] \in Frame \cup {Null}
<1>1. TableAt(h, R[o], Zero, 3) = R[o]
  BY TableAtIs
<1>2. 3 \in Level
  BY Levels
<1>3. TableAt(h, R[o], Zero, 3) # Null => TableAt(h, R[o], Zero, 3) \in Tabs(h)
  BY <1>2, ForestWalk, ZeroIndex
<1>. QED
  BY <1>1, <1>3 DEF HeapOK

\* The instance in the slot.
LEMMA InSlot ==
    ASSUME PgInv
    PROVE  /\ \A s \in Snap : s # slot
           /\ Running => slot \in Inst /\ slot \in Owner /\ Roots[slot] = pml4
           /\ \A o \in Owner : o # slot => Roots[o] = root_[o]
           /\ \A o \in Owner : slot = o => Running
<1>1. slot \in Inst \cup {NoInst}
  BY DEF PgInv, TypeOK
<1>2. NoInst \notin Owner /\ Inst \cap Snap = {}
  BY PgTblAssumption DEF Owner
<1>3. Running <=> slot \in Inst
  BY <1>1, <1>2 DEF Running, Owner
<1>. QED
  BY <1>1, <1>2, <1>3 DEF Roots, RootOf, Owner

\* The heap has its type in TypeOK.
LEMMA HeapTyped ==
    ASSUME NEW h, HeapOK(h)
    PROVE  /\ DOMAIN h.tables \subseteq Frame
           /\ \A t \in DOMAIN h.tables : h.tables[t] \in [Index -> Pte]
           /\ h.data \subseteq Frame
           /\ h.mem \in [Frame \cup Elf -> Val]
  BY DEF HeapOK, Tabs

\* The other parts of TypeOK.
ControlOK ==
    /\ life \in [Owner -> {"none", "live", "halted"}]
    /\ root_ \in [Owner -> Frame \cup {Null}]
    /\ pml4 \in Frame \cup {Null}
    /\ ~Running => pml4 = Null
    /\ snap_addr \in [Inst -> {"unset", "set", "taken"}]
    /\ slot \in Inst \cup {NoInst}

\* PgInv and the control state.
LEMMA ControlIs ==
    ASSUME PgInv
    PROVE  ControlOK
  BY DEF PgInv, TypeOK, ControlOK

\* The parts of PgInv after a step.
LEMMA PgInvNext ==
    ASSUME ControlOK', LifeInv', HeapInv(heap', Roots')
    PROVE  PgInv'
<1>1. HeapOK(heap')
  BY DEF HeapInv
<1>2. /\ DOMAIN heap'.tables \subseteq Frame
      /\ \A t \in DOMAIN heap'.tables : heap'.tables[t] \in [Index -> Pte]
      /\ heap'.data \subseteq Frame
      /\ heap'.mem \in [Frame \cup Elf -> Val]
  BY <1>1, HeapTyped
<1>3. TypeOK'
  BY <1>2 DEF TypeOK, ControlOK
<1>. QED
  BY <1>3 DEF PgInv

(***************************************************************************)
(* Copying.                                                                *)
(***************************************************************************)
\* Heap and roots after a copy of src's table has become u's.
CopyStep(h, R, src, u, deep, g, S) ==
    /\ SourceOK(h, R, src, u)
    /\ \E c : g = c.heap /\ Copied(h, R, src, u, deep, c, Addr) /\ Rerooted(R, S, u, c.root)

\* A copy of a table keeps heap and roots in order.
LEMMA CopyStepOK ==
    ASSUME NEW h, NEW R, HeapInv(h, R), NEW src \in Owner, NEW u \in Owner, src # u,
           R[u] = Null, NEW r, r = R[src], r # Null, NEW deep,
           NEW c, c = walkPgTbl(h, r, deep), NEW g, g = c.heap, ~RanOut(g),
           NEW S, Rerooted(R, S, u, c.root)
    PROVE  CopyStep(h, R, src, u, deep, g, S) /\ HeapInv(g, S)
<1>1. \A v \in Addr : Walk(h, R[src], v).rw => Walk(h, R[src], v).frame \in h.data
  BY DEF HeapInv, WritersOK
<1>2. SourceOK(h, R, src, u)
  BY <1>1 DEF HeapInv, SourceOK
<1>3. Copied(h, R, src, u, deep, c, Addr)
  BY <1>2, WalkCopies
<1>4. HeapInv(c.heap, S)
  BY <1>2, <1>3, CopyInv
<1>. QED
  BY <1>2, <1>3, <1>4 DEF CopyStep

\* Deploying copies the snapshot's table, not deep.
LEMMA DeployEffect ==
    ASSUME PgInv, NEW u \in Inst, NEW s \in Snap, Deploy(u, s)
    PROVE  /\ CopyStep(heap, Roots, s, u, FALSE, heap', Roots')
           /\ HeapInv(heap', Roots')
           /\ slot # u /\ root_'[u] = Roots'[u]
<1>1. PICK deep \in BOOLEAN : deep = FALSE
  OBVIOUS
<1>2. PICK c : c = walkPgTbl(heap, root_[s], deep)
  OBVIOUS
<1>3. /\ root_' = [root_ EXCEPT ![u] = c.root] /\ heap' = c.heap /\ ~RanOut(heap')
      /\ UNCHANGED <<pml4, slot>>
  BY <1>1, <1>2 DEF Deploy, walkPgTblCOW
<1>4. u \in Owner /\ s \in Owner /\ s # u
  BY PgTblAssumption DEF Owner
<1>5. slot # s /\ slot # u
  BY InSlot, <1>4 DEF Deploy, PgInv, LifeInv
<1>6. Roots[s] = root_[s] /\ root_[s] # Null /\ Roots[u] = Null
  BY InSlot, <1>4, <1>5 DEF Deploy, PgInv, LifeInv
<1>7. root_ \in [Owner -> Frame \cup {Null}]
  BY DEF PgInv, TypeOK
<1>8. root_'[u] = c.root /\ \A q \in Owner : q # u => root_'[q] = root_[q]
  BY <1>3, <1>4, <1>7
<1>9. Rerooted(Roots, Roots', u, c.root)
  BY <1>3, <1>4, <1>5, <1>8 DEF Rerooted, Roots, RootOf
<1>10. HeapInv(heap, Roots)
  BY RootsAre
<1>11. CopyStep(heap, Roots, s, u, deep, heap', Roots') /\ HeapInv(heap', Roots')
  BY <1>2, <1>3, <1>4, <1>6, <1>9, <1>10, CopyStepOK
<1>. QED
  BY <1>1, <1>5, <1>8, <1>9, <1>11 DEF Rerooted

\* Deploying keeps the invariant.
LEMMA DeployKeeps ==
    ASSUME PgInv, NEW u \in Inst, NEW s \in Snap, Deploy(u, s)
    PROVE  PgInv'
<1>1. HeapInv(heap', Roots') /\ slot # u /\ root_'[u] = Roots'[u]
  BY DeployEffect
<1>2. u \in Owner /\ s \in Owner /\ u \notin Snap
  BY PgTblAssumption DEF Owner
<1>3. Roots'[u] \in Frame \cup {Null}
  BY <1>1, <1>2, RootsType DEF HeapInv
<1>4. ControlOK /\ LifeInv
  BY ControlIs DEF PgInv
<1>5. PICK r : root_' = [root_ EXCEPT ![u] = r]
  BY DEF Deploy
<1>6. /\ \A q \in Owner : q # u => life'[q] = life[q] /\ root_'[q] = root_[q]
      /\ life'[u] = "live" /\ life' \in [Owner -> {"none", "live", "halted"}]
      /\ root_' \in [Owner -> Frame \cup {Null}]
  BY <1>1, <1>2, <1>3, <1>4, <1>5 DEF Deploy, ControlOK
<1>7. UNCHANGED <<pml4, snap_addr, slot>>
  BY DEF Deploy
<1>8. ControlOK'
  BY <1>4, <1>6, <1>7 DEF ControlOK, Running
<1>9. LifeInv'
  <2>1. Running => slot \in Owner
    BY InSlot
  <2>2. Running' = Running
    BY <1>7 DEF Running
  <2>3. Running' => life'[slot'] = "live"
    BY <1>1, <1>4, <1>6, <1>7, <2>1, <2>2 DEF LifeInv
  <2>4. \A o \in Owner : life'[o] = "none" => root_'[o] = Null
    BY <1>4, <1>6 DEF LifeInv
  <2>5. \A x \in Snap : life'[x] # "none" => life'[x] = "live" /\ root_'[x] # Null
    BY <1>2, <1>4, <1>6 DEF LifeInv, Owner
  <2>6. Running' /\ root_'[slot'] # Null => pml4' = root_'[slot']
    BY <1>1, <1>4, <1>6, <1>7, <2>1, <2>2 DEF LifeInv
  <2>. QED
    BY <2>3, <2>4, <2>5, <2>6 DEF LifeInv
<1>. QED
  BY <1>1, <1>8, <1>9, PgInvNext

\* A checkpoint makes a deep copy of the table in the slot.
LEMMA CheckpointEffect ==
    ASSUME PgInv, NEW s \in Snap, Checkpoint(s)
    PROVE  /\ CopyStep(heap, Roots, slot, s, TRUE, heap', Roots')
           /\ HeapInv(heap', Roots')
           /\ root_'[s] = Roots'[s] /\ root_'[s] # Null
<1>1. PICK deep \in BOOLEAN : deep = TRUE
  OBVIOUS
<1>2. PICK c : c = walkPgTbl(heap, pml4, deep)
  OBVIOUS
<1>3. /\ root_' = [root_ EXCEPT ![s] = c.root] /\ heap' = c.heap /\ ~RanOut(heap')
      /\ UNCHANGED <<pml4, slot>> /\ Running
  BY <1>1, <1>2 DEF Checkpoint, walkPgTblCopyDirtyCOW
<1>4. s \in Owner /\ slot \in Owner /\ s # slot /\ Roots[slot] = pml4
  BY <1>3, InSlot DEF Owner
<1>5. PICK p \in Page : Walk(heap, pml4, p).dirty
  BY <1>4, RootsAre DEF Checkpoint, Translation, Roots
<1>6. p \in Addr
  BY PgTblAssumption
<1>7. pml4 # Null
  <2>1. HeapOK(heap)
    BY RootsAre
  <2>2. Walk(heap, Null, p) = Absent
    BY <1>6, <2>1, NoTree
  <2>3. Absent.dirty = FALSE
    BY DEF Absent
  <2>. QED
    BY <1>5, <2>2, <2>3
<1>8. Roots[s] = Null
  BY <1>4, InSlot DEF Checkpoint, PgInv, LifeInv
<1>9. root_ \in [Owner -> Frame \cup {Null}]
  BY DEF PgInv, TypeOK
<1>10. root_'[s] = c.root /\ \A q \in Owner : q # s => root_'[q] = root_[q]
  BY <1>3, <1>4, <1>9
<1>11. Rerooted(Roots, Roots', s, c.root)
  BY <1>3, <1>4, <1>10 DEF Rerooted, Roots, RootOf
<1>12. HeapInv(heap, Roots)
  BY RootsAre
<1>13. CopyStep(heap, Roots, slot, s, deep, heap', Roots') /\ HeapInv(heap', Roots')
  BY <1>2, <1>3, <1>4, <1>7, <1>8, <1>11, <1>12, CopyStepOK
<1>14. Copied(heap, Roots, slot, s, deep, c, Addr)
  <2>1. \A v \in Addr : Walk(heap, Roots[slot], v).rw => Walk(heap, Roots[slot], v).frame \in heap.data
    BY <1>4, <1>12 DEF HeapInv, WritersOK
  <2>2. SourceOK(heap, Roots, slot, s)
    BY <1>4, <1>8, <1>12, <2>1 DEF HeapInv, SourceOK
  <2>. QED
    BY <1>2, <1>3, <1>4, <1>7, <2>2, WalkCopies
<1>15. c.root # Null
  <2>. DEFINE w == Walk(heap, pml4, p)
              e == Walk(c.heap, c.root, p)
  <2>1. EntryCopied(heap, c.heap, w, e, deep) /\ HeapOK(c.heap)
    BY <1>4, <1>6, <1>14 DEF Copied
  <2>2. w.dirty /\ Entry(w.frame, FALSE, TRUE).dirty /\ Entry(e.frame, TRUE, TRUE).dirty
    BY <1>5 DEF Entry
  <2>3. c.root = Null => e = Absent
    BY <1>6, <2>1, NoTree
  <2>4. Absent.dirty = FALSE
    BY DEF Absent
  <2>. HIDE DEF w, e
  <2>. QED
    BY <2>1, <2>2, <2>3, <2>4 DEF EntryCopied
<1>. QED
  BY <1>1, <1>10, <1>11, <1>13, <1>15 DEF Rerooted

\* A checkpoint keeps the invariant.
LEMMA CheckpointKeeps ==
    ASSUME PgInv, NEW s \in Snap, Checkpoint(s)
    PROVE  PgInv'
<1>1. HeapInv(heap', Roots') /\ root_'[s] = Roots'[s] /\ root_'[s] # Null
  BY CheckpointEffect
<1>2. s \in Owner /\ slot \in Owner /\ slot \in Inst /\ slot # s
  BY InSlot DEF Owner, Checkpoint
<1>3. Roots'[s] \in Frame \cup {Null}
  BY <1>1, <1>2, RootsType DEF HeapInv
<1>4. ControlOK /\ LifeInv
  BY ControlIs DEF PgInv
<1>5. PICK r : root_' = [root_ EXCEPT ![s] = r]
  BY DEF Checkpoint
<1>6. /\ \A q \in Owner : q # s => life'[q] = life[q] /\ root_'[q] = root_[q]
      /\ life'[s] = "live" /\ life' \in [Owner -> {"none", "live", "halted"}]
      /\ root_' \in [Owner -> Frame \cup {Null}]
      /\ snap_addr' \in [Inst -> {"unset", "set", "taken"}]
  BY <1>1, <1>2, <1>3, <1>4, <1>5 DEF Checkpoint, ControlOK
<1>7. UNCHANGED <<pml4, slot>> /\ Running
  BY DEF Checkpoint
<1>8. ControlOK'
  BY <1>4, <1>6, <1>7 DEF ControlOK, Running
<1>9. LifeInv'
  <2>1. Running' = Running
    BY <1>7 DEF Running
  <2>2. life'[slot'] = "live"
    BY <1>2, <1>4, <1>6, <1>7 DEF LifeInv
  <2>3. \A o \in Owner : life'[o] = "none" => root_'[o] = Null
    BY <1>4, <1>6 DEF LifeInv
  <2>4. \A x \in Snap : life'[x] # "none" => life'[x] = "live" /\ root_'[x] # Null
    BY <1>1, <1>4, <1>6 DEF LifeInv, Owner
  <2>5. Running' /\ root_'[slot'] # Null => pml4' = root_'[slot']
    BY <1>2, <1>4, <1>6, <1>7, <2>1 DEF LifeInv
  <2>. QED
    BY <2>2, <2>3, <2>4, <2>5 DEF LifeInv
<1>. QED
  BY <1>1, <1>8, <1>9, PgInvNext

(***************************************************************************)
(* Freeing and unloading.                                                  *)
(***************************************************************************)
\* Heap and roots after o has ceased to exist: its table is freed if it has one.
FreeStep(h, R, g, S, o) ==
    /\ Rerooted(R, S, o, Null)
    /\ R[o] = Null => g = h
    /\ R[o] # Null => FreedTree(h, R, g, S, o)

\* Destruction frees the table, which is not in the slot.
LEMMA DestroyEffect ==
    ASSUME PgInv, NEW o \in Owner, Destroy(o)
    PROVE  /\ FreeStep(heap, Roots, heap', Roots', o)
           /\ HeapInv(heap', Roots')
           /\ slot # o /\ Roots[o] = root_[o] /\ root_'[o] = Null
<1>1. slot # o
  BY InSlot DEF Destroy, PgInv, LifeInv
<1>2. Roots[o] = root_[o]
  BY <1>1, InSlot
<1>3. root_ \in [Owner -> Frame \cup {Null}]
  BY DEF PgInv, TypeOK
<1>4. /\ root_'[o] = Null /\ \A q \in Owner : q # o => root_'[q] = root_[q]
      /\ UNCHANGED <<pml4, slot>>
  BY <1>3 DEF Destroy
<1>5. Rerooted(Roots, Roots', o, Null)
  BY <1>1, <1>4 DEF Rerooted, Roots, RootOf
<1>6. HeapInv(heap, Roots)
  BY RootsAre
<1>7. CASE root_[o] = Null
  <2>1. heap' = heap
    BY <1>7 DEF Destroy
  <2>2. \A q \in Owner : Roots'[q] = Roots[q]
    BY <1>2, <1>5, <1>7 DEF Rerooted
  <2>3. HeapInv(heap, Roots')
    BY <1>6, <2>2, SameRoots
  <2>. QED
    BY <1>1, <1>2, <1>4, <1>5, <1>7, <2>1, <2>3 DEF FreeStep
<1>8. CASE root_[o] # Null
  <2>1. heap' = freePageTable(heap, root_[o])
    BY <1>8 DEF Destroy
  <2>2. \A v \in Addr : Walk(heap, Roots[o], v).rw => Walk(heap, Roots[o], v).frame \in heap.data
    BY <1>6 DEF HeapInv, WritersOK
  <2>3. FreeOK(heap, Roots, o)
    BY <1>6, <2>2 DEF HeapInv, FreeOK
  <2>4. FreedTree(heap, Roots, heap', Roots', o)
    BY <1>2, <1>5, <1>8, <2>1, <2>3, FreedOK
  <2>5. HeapInv(heap', Roots')
    BY <1>5, <1>6, <2>4, FreedInv
  <2>. QED
    BY <1>1, <1>2, <1>4, <1>5, <1>8, <2>4, <2>5 DEF FreeStep
<1>. QED
  BY <1>7, <1>8

\* Destruction keeps the invariant.
LEMMA DestroyKeeps ==
    ASSUME PgInv, NEW o \in Owner, Destroy(o)
    PROVE  PgInv'
<1>1. HeapInv(heap', Roots') /\ slot # o /\ root_'[o] = Null
  BY DestroyEffect
<1>2. ControlOK /\ LifeInv
  BY ControlIs DEF PgInv
<1>3. /\ \A q \in Owner : q # o => life'[q] = life[q] /\ root_'[q] = root_[q]
      /\ life'[o] = "none" /\ life' \in [Owner -> {"none", "live", "halted"}]
      /\ root_' \in [Owner -> Frame \cup {Null}]
      /\ snap_addr' \in [Inst -> {"unset", "set", "taken"}]
  BY <1>2 DEF Destroy, ControlOK
<1>4. UNCHANGED <<pml4, slot>>
  BY DEF Destroy
<1>5. ControlOK'
  BY <1>2, <1>3, <1>4 DEF ControlOK, Running
<1>6. LifeInv'
  <2>1. Running => slot \in Owner
    BY InSlot
  <2>2. Running' = Running
    BY <1>4 DEF Running
  <2>3. Running' => life'[slot'] = "live"
    BY <1>1, <1>2, <1>3, <1>4, <2>1, <2>2 DEF LifeInv
  <2>4. \A q \in Owner : life'[q] = "none" => root_'[q] = Null
    BY <1>1, <1>2, <1>3 DEF LifeInv
  <2>5. \A x \in Snap : life'[x] # "none" => life'[x] = "live" /\ root_'[x] # Null
    BY <1>2, <1>3 DEF LifeInv, Owner
  <2>6. Running' /\ root_'[slot'] # Null => pml4' = root_'[slot']
    BY <1>1, <1>2, <1>3, <1>4, <2>1, <2>2 DEF LifeInv
  <2>. QED
    BY <2>3, <2>4, <2>5, <2>6 DEF LifeInv
<1>. QED
  BY <1>1, <1>5, <1>6, PgInvNext

\* What is unloaded keeps its table if it has a root of its own.
LEMMA UnloadEffect ==
    ASSUME PgInv, Running, slot_unload_instance
    PROVE  /\ Rerooted(Roots, Roots', slot, root_[slot])
           /\ root_[slot] # Null => root_[slot] = Roots[slot]
           /\ HeapInv(heap', Roots')
<1>1. slot \in Inst /\ slot \in Owner /\ Roots[slot] = pml4
  BY InSlot
<1>2. slot' = NoInst /\ root_' = root_ /\ heap' = heap
  BY DEF slot_unload_instance
<1>3. \A q \in Owner : Roots'[q] = root_[q]
  BY <1>2, PgTblAssumption DEF Roots, RootOf, Owner
<1>4. \A q \in Owner : q # slot => Roots[q] = root_[q]
  BY InSlot
<1>5. Rerooted(Roots, Roots', slot, root_[slot])
  BY <1>1, <1>3, <1>4 DEF Rerooted
<1>6. root_[slot] # Null => root_[slot] = Roots[slot]
  BY <1>1 DEF PgInv, LifeInv
<1>7. HeapInv(heap, Roots)
  BY RootsAre
<1>8. HeapInv(heap, Roots')
  <2>1. CASE root_[slot] = Null
    <3>1. Rerooted(Roots, Roots', slot, Null)
      BY <1>5, <2>1
    <3>. QED
      BY <1>1, <1>7, <3>1, LostInv
  <2>2. CASE root_[slot] # Null
    <3>1. \A q \in Owner : Roots'[q] = Roots[q]
      BY <1>3, <1>4, <1>6, <2>2
    <3>. QED
      BY <1>7, <3>1, SameRoots
  <2>. QED
    BY <2>1, <2>2
<1>. QED
  BY <1>2, <1>5, <1>6, <1>8

\* Unloading the slot keeps the invariant.
LEMMA UnloadKeeps ==
    ASSUME PgInv, SwapOut \/ Halt
    PROVE  PgInv'
<1>1. Running /\ slot_unload_instance
  BY DEF SwapOut, Halt
<1>2. HeapInv(heap', Roots')
  BY <1>1, UnloadEffect
<1>3. slot \in Inst /\ slot \in Owner /\ slot \notin Snap
  BY <1>1, InSlot
<1>4. ControlOK /\ LifeInv
  BY ControlIs DEF PgInv
<1>5. /\ life' \in [Owner -> {"none", "live", "halted"}]
      /\ \A q \in Owner : q # slot => life'[q] = life[q]
      /\ life'[slot] # "none"
  <2>1. life[slot] = "live"
    BY <1>1, <1>4 DEF LifeInv
  <2>2. CASE SwapOut
    BY <1>4, <2>1, <2>2 DEF SwapOut, ControlOK
  <2>3. CASE Halt
    BY <1>3, <1>4, <2>3 DEF Halt, ControlOK
  <2>. QED
    BY <2>2, <2>3
<1>6. slot' = NoInst /\ pml4' = Null /\ UNCHANGED <<root_, snap_addr>>
  BY <1>1 DEF slot_unload_instance
<1>7. ~Running'
  BY <1>6 DEF Running
<1>8. ControlOK'
  BY <1>4, <1>5, <1>6 DEF ControlOK
<1>9. LifeInv'
  <2>1. life[slot] = "live"
    BY <1>1, <1>4 DEF LifeInv
  <2>2. \A q \in Owner : life'[q] = "none" => root_'[q] = Null
    BY <1>4, <1>5, <1>6 DEF LifeInv
  <2>3. \A x \in Snap : life'[x] # "none" => life'[x] = "live" /\ root_'[x] # Null
    BY <1>3, <1>4, <1>5, <1>6 DEF LifeInv, Owner
  <2>. QED
    BY <1>7, <2>2, <2>3 DEF LifeInv
<1>. QED
  BY <1>2, <1>8, <1>9, PgInvNext

\* Booting keeps the invariant.
LEMMA BootKeeps ==
    ASSUME PgInv, NEW u \in Inst, Boot(u)
    PROVE  PgInv'
<1>1. ControlOK /\ LifeInv /\ HeapInv(heap, Roots)
  BY ControlIs DEF PgInv
<1>2. UNCHANGED <<root_, pml4, snap_addr, slot, heap>> /\ life' = [life EXCEPT ![u] = "live"]
  BY DEF Boot
<1>3. u \in Owner /\ u \notin Snap
  BY PgTblAssumption DEF Owner
<1>4. /\ life' \in [Owner -> {"none", "live", "halted"}]
      /\ life'[u] = "live" /\ \A q \in Owner : q # u => life'[q] = life[q]
  BY <1>1, <1>2, <1>3 DEF ControlOK
<1>5. Roots' = Roots
  BY <1>2 DEF Roots, RootOf
<1>6. ControlOK'
  BY <1>1, <1>2, <1>4 DEF ControlOK, Running
<1>7. LifeInv'
  <2>1. Running => slot \in Owner
    BY InSlot
  <2>2. Running' = Running
    BY <1>2 DEF Running
  <2>3. Running' => life'[slot'] = "live"
    BY <1>1, <1>2, <1>4, <2>1, <2>2 DEF LifeInv
  <2>4. \A q \in Owner : life'[q] = "none" => root_'[q] = Null
    BY <1>1, <1>2, <1>4 DEF LifeInv
  <2>5. \A x \in Snap : life'[x] # "none" => life'[x] = "live" /\ root_'[x] # Null
    BY <1>1, <1>2, <1>3, <1>4 DEF LifeInv, Owner
  <2>6. Running' /\ root_'[slot'] # Null => pml4' = root_'[slot']
    BY <1>1, <1>2, <2>2 DEF LifeInv
  <2>. QED
    BY <2>3, <2>4, <2>5, <2>6 DEF LifeInv
<1>8. HeapInv(heap', Roots')
  BY <1>1, <1>2, <1>5
<1>. QED
  BY <1>6, <1>7, <1>8, PgInvNext

\* Asking for a checkpoint keeps the invariant.
LEMMA SetCheckpointKeeps ==
    ASSUME PgInv, NEW u \in Inst, SetCheckpoint(u)
    PROVE  PgInv'
<1>1. ControlOK /\ LifeInv /\ HeapInv(heap, Roots)
  BY ControlIs DEF PgInv
<1>2. UNCHANGED <<life, root_, pml4, slot, heap>> /\ snap_addr' = [snap_addr EXCEPT ![u] = "set"]
  BY DEF SetCheckpoint
<1>3. Roots' = Roots
  BY <1>2 DEF Roots, RootOf
<1>4. ControlOK'
  BY <1>1, <1>2 DEF ControlOK, Running
<1>5. LifeInv'
  BY <1>1, <1>2 DEF LifeInv, Running
<1>6. HeapInv(heap', Roots')
  BY <1>1, <1>2, <1>3
<1>. QED
  BY <1>4, <1>5, <1>6, PgInvNext

\* Loading moves a root into the PML4 entry.
LEMMA LoadEffect ==
    ASSUME PgInv, NEW u \in Inst, slot_load_instance(u)
    PROVE  heap' = heap /\ (\A q \in Owner : Roots'[q] = Roots[q]) /\ HeapInv(heap', Roots')
<1>1. slot = NoInst /\ slot' = u /\ pml4' = root_[u] /\ root_' = root_ /\ heap' = heap
  BY DEF slot_load_instance, Running
<1>2. \A q \in Owner : Roots[q] = root_[q] /\ Roots'[q] = root_[q]
  BY <1>1, PgTblAssumption DEF Roots, RootOf, Owner
<1>3. HeapInv(heap, Roots)
  BY RootsAre
<1>4. HeapInv(heap, Roots')
  BY <1>2, <1>3, SameRoots
<1>. QED
  BY <1>1, <1>2, <1>4

\* Loading keeps the invariant.
LEMMA LoadKeeps ==
    ASSUME PgInv, NEW u \in Inst, slot_load_instance(u)
    PROVE  PgInv'
<1>1. HeapInv(heap', Roots')
  BY LoadEffect
<1>2. ControlOK /\ LifeInv
  BY ControlIs DEF PgInv
<1>3. /\ slot' = u /\ pml4' = root_[u] /\ life[u] = "live"
      /\ UNCHANGED <<life, root_, snap_addr>>
  BY DEF slot_load_instance
<1>4. u \in Owner /\ u # NoInst
  BY PgTblAssumption DEF Owner
<1>5. root_[u] \in Frame \cup {Null}
  BY <1>2, <1>4 DEF ControlOK
<1>6. ControlOK'
  BY <1>2, <1>3, <1>4, <1>5 DEF ControlOK, Running
<1>7. LifeInv'
  BY <1>2, <1>3 DEF LifeInv
<1>. QED
  BY <1>1, <1>6, <1>7, PgInvNext

(***************************************************************************)
(* Stores.                                                                 *)
(***************************************************************************)
\* The heap after a store of val to virt in the address space of o.
Dirtied(pte) == [pte EXCEPT !.dirty = TRUE]
Stored(mem, f, val) == [mem EXCEPT ![f] = val]
Written(h, R, o, virt, val, g) ==
    /\ HeapOK(g) /\ Forest(g, R)
    /\ Tabs(g) = Tabs(h) /\ g.data = h.data
    /\ \A q \in Owner, w \in Addr, k \in Level :
          TableAt(g, R[q], w, k) = TableAt(h, R[q], w, k)
    /\ \A q \in Owner, w \in Addr :
          Walk(g, R[q], w) = IF q = o /\ w = virt THEN Dirtied(Walk(h, R[o], virt))
                             ELSE Walk(h, R[q], w)
    /\ g.mem = Stored(h.mem, Walk(h, R[o], virt).frame, val)

\* The fields of a dirtied entry.
LEMMA DirtiedIs ==
    ASSUME NEW pte \in Pte
    PROVE  /\ Dirtied(pte) \in Pte
           /\ Dirtied(pte).frame = pte.frame /\ Dirtied(pte).rw = pte.rw
           /\ Dirtied(pte).acc = pte.acc /\ Dirtied(pte).dirty = TRUE
  BY DEF Dirtied, Pte

\* A data page is written.
PageWritten(h, f, val) == [h EXCEPT !.mem[f] = val]

\* What a write to a page changes.
LEMMA PageWrittenEffect ==
    ASSUME NEW h, HeapOK(h), NEW f \in Frame \cup Elf, NEW val \in Val,
           NEW g, g = PageWritten(h, f, val)
    PROVE  /\ HeapOK(g)
           /\ g.tables = h.tables /\ g.data = h.data
           /\ g.mem = Stored(h.mem, f, val)
<1>. DEFINE m == [h.mem EXCEPT ![f] = val]
<1>1. g = [h EXCEPT !.mem = m]
  BY DEF PageWritten
<1>2. m \in [Frame \cup Elf -> Val]
  BY DEF HeapOK
<1>. HIDE DEF m
<1>3. g = [tables |-> h.tables, data |-> h.data, mem |-> m]
  BY <1>1 DEF HeapOK
<1>4. /\ g = [tables |-> g.tables, data |-> g.data, mem |-> g.mem]
      /\ g.tables = h.tables /\ g.data = h.data /\ g.mem = m
  BY ONLY <1>3
<1>5. Tabs(g) = Tabs(h)
  BY <1>4 DEF Tabs
<1>6. HeapOK(g)
  BY <1>2, <1>4, <1>5 DEF HeapOK
<1>. QED
  BY <1>4, <1>6 DEF m, Stored

\* A store marks one entry dirty and writes one page.
LEMMA WriteOK ==
    ASSUME NEW h, NEW R, HeapInv(h, R), NEW o \in Owner, NEW virt \in Page, NEW val \in Val,
           Walk(h, R[o], virt).rw,
           NEW r, r = R[o],
           NEW g, g = [MarkDirty(h, r, virt) EXCEPT !.mem[Walk(h, r, virt).frame] = val]
    PROVE  Written(h, R, o, virt, val, g)
<1>. DEFINE w == Walk(h, R[o], virt)
            tab == TableAt(h, R[o], virt, 1)
            m == MarkDirty(h, r, virt)
<1>1. virt \in Addr
  BY PgTblAssumption
<1>2. HeapOK(h) /\ Forest(h, R)
  BY DEF HeapInv
<1>3. w \in Pte /\ (w = Absent \/ (exists(w) /\ w.acc))
  BY <1>1, <1>2, ForestWalk
<1>4. Absent.rw = FALSE
  BY DEF Absent
<1>5. exists(w) /\ w.acc /\ w.frame \in Frame
  <2>1. w.frame \in h.data
    BY <1>1 DEF HeapInv, WritersOK
  <2>2. h.data \subseteq Frame
    BY <1>2 DEF HeapOK
  <2>. QED
    BY <1>3, <1>4, <2>1, <2>2
<1>6. tab # Null
  <2>1. tab = Null => w = Absent
    BY <1>2, NullNoTable DEF Walk, Tabs, TBL_LEVEL
  <2>. QED
    BY <1>4, <2>1
<1>7. m = setPte(h, tab, virt[1], Dirtied(w))
  BY DEF MarkDirty, Dirtied, TBL_LEVEL
<1>8. g = PageWritten(m, w.frame, val)
  BY DEF PageWritten
<1>9. PICK pte : pte = Dirtied(w)
  OBVIOUS
<1>10. pte \in Pte /\ exists(pte) /\ pte.acc
  BY <1>3, <1>5, <1>9, DirtiedIs DEF exists
<1>11. tab = TableAt(h, R[o], virt, 1) /\ w = Walk(h, R[o], virt)
  OBVIOUS
<1>. HIDE DEF w, tab, m
<1>12. m = setPte(h, tab, virt[1], pte)
  BY <1>7, <1>9
<1>13. Forest(m, R)
  BY <1>1, <1>2, <1>6, <1>10, <1>11, <1>12, LeafForest
<1>14. /\ HeapOK(m)
       /\ Tabs(m) = Tabs(h) /\ m.data = h.data /\ m.mem = h.mem
       /\ \A q \in Owner, x \in Addr, k \in Level :
             TableAt(m, R[q], x, k) = TableAt(h, R[q], x, k)
       /\ \A q \in Owner, x \in Addr :
             Walk(m, R[q], x) = IF q = o /\ x = virt THEN pte ELSE Walk(h, R[q], x)
  BY <1>1, <1>2, <1>6, <1>10, <1>11, <1>12, LeafOK
<1>15. /\ HeapOK(g) /\ g.tables = m.tables /\ g.data = m.data
       /\ g.mem = Stored(m.mem, w.frame, val)
  <2>1. HeapOK(m) /\ w.frame \in Frame \cup Elf
    BY <1>5, <1>14
  <2>. QED
    BY ONLY <1>8, <2>1, val \in Val, PageWrittenEffect
<1>16. /\ Tabs(g) = Tabs(m)
       /\ \A x, y, l : TableAt(g, x, y, l) = TableAt(m, x, y, l)
       /\ \A x, y : Walk(g, x, y) = Walk(m, x, y)
       /\ Forest(g, R)
  BY ONLY <1>13, <1>15, DataOnly
<1>. QED
  BY <1>9, <1>11, <1>14, <1>15, <1>16 DEF Written

\* A store keeps heap and roots in order.
LEMMA WriteInv ==
    ASSUME NEW h, NEW R, HeapInv(h, R), NEW o \in Owner, NEW virt \in Addr, NEW val, NEW g,
           Written(h, R, o, virt, val, g)
    PROVE  HeapInv(g, R)
<1>1. \A q \in Owner, w \in Addr : Walk(h, R[q], w) \in Pte
  BY ForestWalk DEF HeapInv
<1>2. \A q \in Owner, w \in Addr : /\ Walk(g, R[q], w).frame = Walk(h, R[q], w).frame
                                  /\ Walk(g, R[q], w).rw = Walk(h, R[q], w).rw
  <2>1. TAKE q \in Owner, w \in Addr
  <2>2. PICK x, y : x = Walk(h, R[q], w) /\ y = Walk(g, R[q], w)
    OBVIOUS
  <2>3. x \in Pte
    BY <1>1, <2>2
  <2>4. y = Dirtied(x) \/ y = x
    BY <2>2 DEF Written
  <2>5. Dirtied(x).frame = x.frame /\ Dirtied(x).rw = x.rw
    BY ONLY <2>3, DirtiedIs
  <2>. QED
    BY ONLY <2>2, <2>4, <2>5
<1>3. g.data = h.data /\ WritersOK(h, R)
  BY DEF Written, HeapInv
<1>4. WritersOK(g, R)
  BY ONLY <1>2, <1>3 DEF WritersOK
<1>. QED
  BY <1>4 DEF HeapInv, Written

\* A store of the guest, by its entry in the table in the slot.
LEMMA StoreEffect ==
    ASSUME PgInv, NEW p \in Page, NEW v \in Val, Store(p, v)
    PROVE  /\ Written(heap, Roots, slot, p, v, heap')
           /\ Roots' = Roots
           /\ HeapInv(heap', Roots')
<1>1. Running /\ slot \in Owner /\ Roots[slot] = pml4 /\ RootOf(slot) = pml4
  BY InSlot, RootsAre DEF Store
<1>2. /\ Walk(heap, pml4, p).rw
      /\ heap' = [MarkDirty(heap, pml4, p) EXCEPT !.mem[Walk(heap, pml4, p).frame] = v]
      /\ UNCHANGED <<root_, pml4, slot>>
  BY <1>1 DEF Store, Translation
<1>3. Roots' = Roots
  BY <1>2 DEF Roots, RootOf
<1>4. HeapInv(heap, Roots)
  BY RootsAre
<1>5. Written(heap, Roots, slot, p, v, heap')
  BY <1>1, <1>2, <1>4, WriteOK
<1>6. p \in Addr
  BY PgTblAssumption
<1>7. HeapInv(heap', Roots)
  BY <1>1, <1>4, <1>5, <1>6, WriteInv
<1>. QED
  BY <1>3, <1>5, <1>7

\* A store keeps the invariant.
LEMMA StoreKeeps ==
    ASSUME PgInv, NEW p \in Page, NEW v \in Val, Store(p, v)
    PROVE  PgInv'
<1>1. HeapInv(heap', Roots')
  BY StoreEffect
<1>2. ControlOK /\ LifeInv /\ UNCHANGED <<life, root_, pml4, snap_addr, slot>>
  BY ControlIs DEF PgInv, Store
<1>3. ControlOK' /\ LifeInv'
  BY <1>2 DEF ControlOK, LifeInv, Running
<1>. QED
  BY <1>1, <1>3, PgInvNext

(***************************************************************************)
(* Page faults.                                                            *)
(***************************************************************************)
\* What page p contains, if w is its entry.
Contents(h, w, p) == IF exists(w) THEN h.mem[w.frame] ELSE Image[p]

\* Page b.page backs p from now on, whose entry was w.
Backed(h, w, p, b) ==
    /\ p \notin Writable => b.page = p /\ b.heap = h
    /\ p \in Writable =>
          /\ b.page \in Frame /\ b.page \notin Tabs(h) /\ b.page \notin h.data
          /\ b.heap = CopiedPage(h, b.page, Contents(h, w, p))

\* Heap and roots after a page fault of o at p.
FaultStep(h, R, o, p, rw, write, g, S) ==
    \E b, m : /\ Backed(h, Walk(h, R[o], p), p, b)
              /\ g = m.heap
              /\ Mapped(b.heap, R, o, p, Entry(b.page, rw, write), m, S)
              /\ Rerooted(R, S, o, m.root)

\* What a backing page contains is a value.
LEMMA ContentsType ==
    ASSUME NEW h, HeapOK(h), NEW w \in Pte, NEW p \in Page
    PROVE  Contents(h, w, p) \in Val
<1>1. exists(w) => w.frame \in Frame \cup Elf
  BY DEF exists, Pte
<1>2. h.mem \in [Frame \cup Elf -> Val]
  BY DEF HeapOK
<1>3. Image[p] \in Val
  BY PgTblAssumption
<1>. QED
  BY <1>1, <1>2, <1>3 DEF Contents

\* A backing page is new, or the image's.
LEMMA BackedOK ==
    ASSUME NEW h, NEW R, HeapInv(h, R), NEW w \in Pte, NEW p \in Page, NEW b, Backed(h, w, p, b)
    PROVE  /\ HeapInv(b.heap, R)
           /\ b.page \in Frame \cup Elf /\ b.page # Null
           /\ b.heap.tables = h.tables
<1>1. HeapOK(h) /\ Forest(h, R) /\ WritersOK(h, R)
  BY DEF HeapInv
<1>2. CASE p \notin Writable
  <2>1. b.page = p /\ b.heap = h
    BY <1>2 DEF Backed
  <2>2. p \in Elf /\ p # Null
    BY <1>2, PgTblAssumption DEF Elf
  <2>. QED
    BY <2>1, <2>2
<1>3. CASE p \in Writable
  <2>1. /\ b.page \in Frame /\ b.page \notin Tabs(h)
        /\ b.heap = CopiedPage(h, b.page, Contents(h, w, p))
    BY <1>3 DEF Backed
  <2>2. PICK g, f, val : g = b.heap /\ f = b.page /\ val = Contents(h, w, p)
    OBVIOUS
  <2>3. HeapOK(g) /\ g.tables = h.tables /\ g.data = h.data \cup {f}
    <3>1. f \in Frame /\ f \notin Tabs(h) /\ g = CopiedPage(h, f, val) /\ val \in Val
      BY <1>1, <2>1, <2>2, ContentsType
    <3>. QED
      BY ONLY <1>1, <3>1, CopiedPageEffect
  <2>4. Forest(g, R) /\ \A r, v : Walk(g, r, v) = Walk(h, r, v)
    BY ONLY <1>1, <2>3, DataOnly
  <2>5. WritersOK(g, R)
    BY <1>1, <2>3, <2>4 DEF WritersOK
  <2>6. b.page # Null
    BY <2>1, PgTblAssumption
  <2>. QED
    BY <2>1, <2>2, <2>3, <2>4, <2>5, <2>6 DEF HeapInv
<1>. QED
  BY <1>2, <1>3

\* The page that backs p, if the step does not run out of pages.
LEMMA BackingIs ==
    ASSUME PgInv, NEW p \in Page, Running, NEW b, b = GetBackingPage(p),
           p \in Writable => b.page # Null
    PROVE  Backed(heap, Walk(heap, Roots[slot], p), p, b)
<1>1. Translation(slot, p) = Walk(heap, Roots[slot], p)
  BY InSlot, RootsAre DEF Translation
<1>2. CASE p \notin Writable
  BY <1>2 DEF GetBackingPage, Backed
<1>3. CASE p \in Writable
  <2>1. PICK w : w = Walk(heap, Roots[slot], p)
    OBVIOUS
  <2>2. b = [page |-> Alloc(heap),
             heap |-> CopiedPage(heap, Alloc(heap), Contents(heap, w, p))]
    BY <1>1, <1>3, <2>1 DEF GetBackingPage, CopiedPage, Contents
  <2>3. /\ b.page = Alloc(heap)
        /\ b.heap = CopiedPage(heap, b.page, Contents(heap, w, p))
    BY <2>2
  <2>4. b.page \in Frame /\ b.page \notin Tabs(heap) /\ b.page \notin heap.data
    BY <1>3, <2>3, AllocFree
  <2>. QED
    BY <1>3, <2>1, <2>3, <2>4 DEF Backed
<1>. QED
  BY <1>2, <1>3

\* A page fault maps its page and keeps heap and roots in order.
LEMMA FaultStepOK ==
    ASSUME NEW h, NEW R, HeapInv(h, R), NEW o \in Owner, NEW p \in Page,
           NEW b, Backed(h, Walk(h, R[o], p), p, b),
           NEW rw \in BOOLEAN, rw => p \in Writable, NEW write \in BOOLEAN,
           NEW r, r = R[o],
           NEW m, m = mapIntoPgTbl(b.heap, r, p, Entry(b.page, rw, write)),
           NEW g, g = m.heap, ~RanOut(g), NEW S, Rerooted(R, S, o, m.root)
    PROVE  FaultStep(h, R, o, p, rw, write, g, S) /\ HeapInv(g, S)
<1>1. p \in Addr
  BY PgTblAssumption
<1>2. HeapOK(h) /\ Forest(h, R) /\ WritersOK(h, R)
  BY DEF HeapInv
<1>3. Walk(h, R[o], p) \in Pte
  BY <1>1, <1>2, ForestWalk
<1>4. PICK w : w = Walk(h, R[o], p)
  OBVIOUS
<1>5. /\ HeapInv(b.heap, R)
      /\ b.page \in Frame \cup Elf /\ b.page # Null
      /\ b.heap.tables = h.tables
  BY <1>3, <1>4, BackedOK
<1>6. PICK f, k, e : f = b.page /\ k = b.heap /\ e = Entry(f, rw, write)
  OBVIOUS
<1>7. e \in Pte /\ exists(e) /\ e.acc /\ e.frame = f /\ e.rw = rw
  <2>1. f \in Frame \cup Elf /\ f # Null
    BY <1>5, <1>6
  <2>2. e = Entry(f, rw, write)
    BY <1>6
  <2>. QED
    BY ONLY <2>1, <2>2, rw \in BOOLEAN, write \in BOOLEAN DEF Entry, Pte, exists
<1>8. HeapInv(k, R) /\ HeapOK(k) /\ Forest(k, R)
  BY <1>5, <1>6 DEF HeapInv
<1>9. Mapped(k, R, o, p, e, m, S)
  <2>1. m = mapIntoPgTbl(k, r, p, e) /\ ~RanOut(m.heap)
    BY <1>6
  <2>. QED
    BY <1>7, <1>8, <2>1, MapOK
<1>10. e.rw => /\ e.frame \in k.data
               /\ \A q \in Owner, x \in Addr : Walk(k, R[q], x).rw => Walk(k, R[q], x).frame # e.frame
  <2>. SUFFICES ASSUME e.rw
                PROVE  /\ e.frame \in k.data
                       /\ \A q \in Owner, x \in Addr :
                             Walk(k, R[q], x).rw => Walk(k, R[q], x).frame # e.frame
    OBVIOUS
  <2>1. p \in Writable
    BY <1>7
  <2>2. /\ f \notin h.data /\ f \in Frame /\ f \notin Tabs(h)
        /\ k = CopiedPage(h, f, Contents(h, w, p))
    BY <1>4, <1>6, <2>1 DEF Backed
  <2>3. f \in k.data
    <3>1. PICK val : val = Contents(h, w, p)
      OBVIOUS
    <3>2. val \in Val
      BY <1>2, <1>3, <1>4, <3>1, ContentsType
    <3>3. k = CopiedPage(h, f, val)
      BY <2>2, <3>1
    <3>4. k.data = h.data \cup {f}
      BY ONLY <1>2, <2>2, <3>2, <3>3, CopiedPageEffect
    <3>. QED
      BY <3>4
  <2>4. \A x, v : Walk(k, x, v) = Walk(h, x, v)
    <3>1. k.tables = h.tables
      BY <1>5, <1>6
    <3>. QED
      BY ONLY <3>1, DataOnly
  <2>5. \A q \in Owner, x \in Addr : Walk(h, R[q], x).rw => Walk(h, R[q], x).frame # f
    BY <1>2, <2>2 DEF WritersOK
  <2>. QED
    BY <1>7, <2>3, <2>4, <2>5
<1>11. HeapInv(m.heap, S)
  BY <1>8, <1>9, <1>10, MapInv
<1>12. FaultStep(h, R, o, p, rw, write, g, S)
  BY <1>6, <1>9 DEF FaultStep
<1>. QED
  BY <1>11, <1>12

\* A page fault of the guest, in the table in the slot.
LEMMA FaultEffect ==
    ASSUME PgInv, NEW p \in Page, NEW write \in BOOLEAN, PageFault(p, write)
    PROVE  /\ FaultStep(heap, Roots, slot, p, p \in Writable, write, heap', Roots')
           /\ HeapInv(heap', Roots')
           /\ pml4' = Roots'[slot] /\ slot \in Owner
<1>1. PICK b : b = GetBackingPage(p)
  OBVIOUS
<1>2. PICK rw \in BOOLEAN : rw = (p \in Writable)
  <2>1. (p \in Writable) \in BOOLEAN
    OBVIOUS
  <2>. QED
    BY ONLY <2>1, Zenon
<1>3. PICK m : m = mapIntoPgTbl(b.heap, pml4, p, Entry(b.page, rw, write))
  OBVIOUS
<1>4. /\ Running /\ heap' = m.heap /\ ~RanOut(heap')
      /\ pml4' = IF pml4 = Null THEN m.root ELSE pml4
      /\ UNCHANGED <<root_, slot>>
  BY <1>1, <1>2, <1>3 DEF PageFault
<1>5. slot \in Owner /\ Roots[slot] = pml4
  BY <1>4, InSlot
<1>6. HeapInv(heap, Roots) /\ HeapOK(heap)
  BY RootsAre
<1>7. p \in Writable => b.page # Null
  <2>. SUFFICES ASSUME p \in Writable, b.page = Null
                PROVE  FALSE
    OBVIOUS
  <2>1. PICK val : b.heap = CopiedPage(heap, Null, val)
    BY <1>1 DEF GetBackingPage, CopiedPage
  <2>2. Shape(heap)
    BY <1>6 DEF HeapOK, Shape
  <2>3. PICK k : k = b.heap
    OBVIOUS
  <2>4. Shape(k) /\ k.data = heap.data \cup {Null}
    BY <2>1, <2>2, <2>3, CopiedPageShape
  <2>5. Grows(k, m.heap)
    BY <1>3, <2>3, <2>4, MapGrows
  <2>. QED
    BY <1>4, <2>4, <2>5 DEF Grows, RanOut
<1>8. Backed(heap, Walk(heap, Roots[slot], p), p, b)
  BY <1>1, <1>4, <1>7, BackingIs
<1>9. pml4 # Null => m.root = pml4
  BY <1>3, MapSteps DEF MapTop
<1>10. pml4' = m.root
  BY <1>4, <1>9
<1>11. Rerooted(Roots, Roots', slot, m.root)
  BY <1>4, <1>5, <1>10 DEF Rerooted, Roots, RootOf
<1>12. FaultStep(heap, Roots, slot, p, rw, write, heap', Roots') /\ HeapInv(heap', Roots')
  BY <1>2, <1>3, <1>4, <1>5, <1>6, <1>8, <1>11, FaultStepOK
<1>. QED
  BY <1>2, <1>5, <1>10, <1>11, <1>12 DEF Rerooted

\* A page fault keeps the invariant.
LEMMA FaultKeeps ==
    ASSUME PgInv, NEW p \in Page, NEW write \in BOOLEAN, PageFault(p, write)
    PROVE  PgInv'
<1>1. HeapInv(heap', Roots') /\ pml4' = Roots'[slot] /\ slot \in Owner
  BY FaultEffect
<1>2. pml4' \in Frame \cup {Null}
  BY <1>1, RootsType DEF HeapInv
<1>3. ControlOK /\ LifeInv /\ Running /\ UNCHANGED <<life, root_, snap_addr, slot>>
  BY ControlIs DEF PgInv, PageFault
<1>4. ControlOK'
  BY <1>2, <1>3 DEF ControlOK, Running
<1>5. root_[slot] # Null => pml4' = pml4
  <2>1. root_[slot] # Null => pml4 # Null
    BY <1>3 DEF LifeInv
  <2>. QED
    BY <2>1 DEF PageFault
<1>6. LifeInv'
  BY <1>3, <1>5 DEF LifeInv, Running
<1>. QED
  BY <1>1, <1>4, <1>6, PgInvNext

(***************************************************************************)
(* The invariant.                                                          *)
(***************************************************************************)
LEMMA PgInvInit ==
    ASSUME Init
    PROVE  PgInv
<1>1. \A o \in Owner : Roots[o] = Null
  BY DEF Init, Roots, RootOf
<1>2. heap = [tables |-> heap.tables, data |-> heap.data, mem |-> heap.mem]
  BY DEF Init
<1>3. Tabs(heap) = {} /\ heap.data = {} /\ heap.tables \in [Tabs(heap) -> [Index -> Pte]]
  BY DEF Init, Tabs
<1>4. heap.mem \in [Frame \cup Elf -> Val]
  <2>1. (CHOOSE v \in Val : TRUE) \in Val
    BY PgTblAssumption
  <2>2. \A f \in Elf : Image[f] \in Val
    BY PgTblAssumption DEF Elf
  <2>3. heap.mem = [f \in Frame \cup Elf |->
                          IF f \in Elf THEN Image[f] ELSE CHOOSE v \in Val : TRUE]
    BY DEF Init
  <2>. QED
    BY <2>1, <2>2, <2>3
<1>5. HeapOK(heap)
  BY <1>2, <1>3, <1>4 DEF HeapOK
<1>6. Forest(heap, Roots)
  <2>. DEFINE none == [t \in {} |-> Null]
  <2>1. none \in [{} -> Owner] /\ none \in [{} -> Level] /\ none \in [{} -> Addr]
    OBVIOUS
  <2>2. Trees(heap, Roots, {}, none, none, none)
    BY <1>1, <2>1 DEF Trees, PlacedRoot
  <2>. HIDE DEF none
  <2>. QED
    BY <2>1, <2>2 DEF Forest
<1>7. \A o \in Owner, v \in Addr : ~Walk(heap, Roots[o], v).rw
  BY <1>1, <1>5, NoTree DEF Absent
<1>8. WritersOK(heap, Roots)
  BY <1>7 DEF WritersOK
<1>9. LifeInv
  BY DEF Init, LifeInv, Running, Owner
<1>10. ControlOK
  BY DEF Init, ControlOK, Running
<1>11. TypeOK
  BY <1>5, <1>10, HeapTyped DEF TypeOK, ControlOK
<1>. QED
  BY <1>5, <1>6, <1>8, <1>9, <1>11 DEF PgInv, HeapInv

\* Every step keeps the invariant.
LEMMA PgInvStep ==
    ASSUME PgInv, [Next]_vars
    PROVE  PgInv'
<1>1. ASSUME NEW u \in Inst, Boot(u) \/ SetCheckpoint(u) \/ slot_load_instance(u)
      PROVE  PgInv'
  BY <1>1, BootKeeps, SetCheckpointKeeps, LoadKeeps
<1>2. ASSUME NEW u \in Inst, NEW s \in Snap, Deploy(u, s)
      PROVE  PgInv'
  BY <1>2, DeployKeeps
<1>3. ASSUME NEW o \in Owner, Destroy(o)
      PROVE  PgInv'
  BY <1>3, DestroyKeeps
<1>4. CASE SwapOut \/ Halt
  BY <1>4, UnloadKeeps
<1>5. ASSUME NEW p \in Page, NEW v \in Val, Store(p, v)
      PROVE  PgInv'
  BY <1>5, StoreKeeps
<1>6. ASSUME NEW p \in Page, NEW write \in BOOLEAN, PageFault(p, write)
      PROVE  PgInv'
  BY <1>6, FaultKeeps
<1>7. ASSUME NEW s \in Snap, Checkpoint(s)
      PROVE  PgInv'
  BY <1>7, CheckpointKeeps
<1>8. CASE UNCHANGED vars
  <2>1. UNCHANGED <<life, root_, pml4, snap_addr, slot, heap>>
    BY <1>8 DEF vars
  <2>2. Roots' = Roots
    BY <2>1 DEF Roots, RootOf
  <2>3. TypeOK' /\ LifeInv'
    BY <2>1 DEF PgInv, TypeOK, LifeInv, Running
  <2>. QED
    BY <2>1, <2>2, <2>3 DEF PgInv
<1>. QED
  BY <1>1, <1>2, <1>3, <1>4, <1>5, <1>6, <1>7, <1>8 DEF Next

\* The page tables of all address spaces are trees of their own, and pages that may be
\* written belong to one of them, whatever is mapped (mapIntoPgTbl), copied
\* (walkPgTblCOW, walkPgTblCopyDirtyCOW) and freed (freePageTable).
THEOREM PgInvHolds == Spec => []PgInv
<1>1. Init => PgInv
  BY PgInvInit
<1>2. PgInv /\ [Next]_vars => PgInv'
  BY PgInvStep
<1>. QED
  BY <1>1, <1>2, PTL DEF Spec

(***************************************************************************)
(* Tables are trees.                                                       *)
(***************************************************************************)
LEMMA SpotPath ==
    ASSUME NEW s \in Spots
    PROVE  s[1] \in Addr /\ s[2] \in Level /\ Path(s[1], s[2]) = s[1] /\ s = <<s[1], s[2]>>
<1>1. s \in Addr \X Level /\ \A l \in Level : l <= s[2] => s[1][l] = 0
  BY DEF Spots
<1>2. s[1] \in Addr /\ s[2] \in Level /\ s = <<s[1], s[2]>>
  BY <1>1
<1>3. PICK v, n : v = s[1] /\ n = s[2]
  OBVIOUS
<1>4. Path(v, n) = v
  <2>1. v \in Addr /\ n \in Level /\ \A l \in Level : l <= n => v[l] = 0
    BY <1>1, <1>2, <1>3
  <2>2. \A l \in Level : Path(v, n)[l] = v[l]
    BY <2>1, PathType
  <2>3. Path(v, n) \in Addr
    BY <2>1, PathType
  <2>. QED
    BY <2>1, <2>2, <2>3, AddrEqual
<1>. QED
  BY <1>2, <1>3, <1>4

\* Where tables have places they are trees.
LEMMA TreesFollow ==
    ASSUME PgInv
    PROVE  TablesAreTrees
<1>1. HeapOK(heap) /\ Forest(heap, Roots) /\ \A o \in Owner : Roots[o] = RootOf(o)
  BY RootsAre
<1>2. ASSUME NEW o1 \in Live, NEW o2 \in Live, NEW s1 \in Spots, NEW s2 \in Spots,
             TableOf(o1, s1) = TableOf(o2, s2), TableOf(o1, s1) # Null
      PROVE  o1 = o2 /\ s1 = s2
  <2>1. PICK v1, l1, v2, l2 : v1 = s1[1] /\ l1 = s1[2] /\ v2 = s2[1] /\ l2 = s2[2]
    OBVIOUS
  <2>2. /\ v1 \in Addr /\ l1 \in Level /\ Path(v1, l1) = v1 /\ s1 = <<v1, l1>>
        /\ v2 \in Addr /\ l2 \in Level /\ Path(v2, l2) = v2 /\ s2 = <<v2, l2>>
    BY <2>1, SpotPath
  <2>3. o1 \in Owner /\ o2 \in Owner
    BY DEF Live
  <2>4. /\ TableAt(heap, Roots[o1], v1, l1) = TableAt(heap, Roots[o2], v2, l2)
        /\ TableAt(heap, Roots[o1], v1, l1) # Null
    BY <1>1, <1>2, <2>1, <2>3 DEF TableOf
  <2>5. o1 = o2 /\ l1 = l2 /\ Path(v1, l1) = Path(v2, l2)
    BY <1>1, <2>2, <2>3, <2>4, TreesAreTrees
  <2>. QED
    BY <2>2, <2>5
<1>3. Reached \subseteq Tabs(heap)
  <2>. SUFFICES ASSUME NEW o \in Live, NEW s \in Spots, TableOf(o, s) # Null
                PROVE  TableOf(o, s) \in Tabs(heap)
    BY DEF Reached
  <2>1. PICK v, l : v = s[1] /\ l = s[2]
    OBVIOUS
  <2>2. v \in Addr /\ l \in Level /\ o \in Owner
    BY <2>1, SpotPath DEF Live
  <2>3. TableOf(o, s) = TableAt(heap, Roots[o], v, l)
    BY <1>1, <2>1, <2>2 DEF TableOf
  <2>4. TableAt(heap, Roots[o], v, l) # Null => TableAt(heap, Roots[o], v, l) \in Tabs(heap)
    BY ONLY <1>1, <2>2, ForestWalk
  <2>. QED
    BY <2>3, <2>4
<1>4. Tabs(heap) \cap heap.data = {}
  BY <1>1 DEF HeapOK
<1>. QED
  BY <1>2, <1>3, <1>4 DEF TablesAreTrees, Tabs, PgInv

\* Tables are trees of their own, whatever is mapped, copied and freed.
THEOREM TablesAreTreesHolds == Spec => []TablesAreTrees
<1>1. PgInv => TablesAreTrees
  BY TreesFollow
<1>. QED
  BY <1>1, PgInvHolds, PTL

(***************************************************************************)
(* Traversals.                                                             *)
(***************************************************************************)
\* The address that the indices of three entries make.
Made(i, j, k) == Sub(Sub(Sub(Zero, 3, i), 2, j), 1, k)

\* An address from three indices.
LEMMA MadeIs ==
    ASSUME NEW i \in Index, NEW j \in Index, NEW k \in Index, NEW v, v = Made(i, j, k)
    PROVE  v \in Addr /\ v[3] = i /\ v[2] = j /\ v[1] = k
<1>1. PICK a : a = [Zero EXCEPT ![3] = i]
  OBVIOUS
<1>2. PICK b : b = [a EXCEPT ![2] = j]
  OBVIOUS
<1>3. v = [b EXCEPT ![1] = k]
  BY <1>1, <1>2 DEF Made, Sub
<1>4. a \in [1 .. 3 -> Index] /\ a[3] = i
  BY <1>1, ZeroIndex DEF Addr
<1>5. b \in [1 .. 3 -> Index] /\ b[3] = i /\ b[2] = j
  BY ONLY <1>2, <1>4, j \in Index
<1>6. v \in [1 .. 3 -> Index] /\ v[3] = i /\ v[2] = j /\ v[1] = k
  BY ONLY <1>3, <1>5, k \in Index
<1>. QED
  BY <1>6 DEF Addr

\* An entry is followed if the walk goes on.
FollowedAt(h, r, v, k, l, t, accessed) ==
    /\ v[l] \in Followed(h, t, accessed) <=> TableAt(h, r, v, k) # Null
    /\ TableAt(h, r, v, k) = h.tables[t][v[l]].frame
FollowedLast(h, r, v, t, accessed) ==
    /\ v[1] \in Followed(h, t, accessed) <=> exists(Walk(h, r, v))
    /\ Walk(h, r, v) = h.tables[t][v[1]]

\* Which entries a traversal follows above the leaves.
LEMMA FollowedBelow ==
    ASSUME NEW h, HeapOK(h), NEW R, Forest(h, R), NEW o \in Owner, NEW v \in Addr,
           NEW l \in {2, 3}, NEW k, k = l - 1,
           NEW t, t = TableAt(h, R[o], v, l), t # Null, NEW accessed \in BOOLEAN
    PROVE  FollowedAt(h, R[o], v, k, l, t, accessed)
<1>1. PICK e : e = h.tables[t][v[l]]
  OBVIOUS
<1>2. /\ TableAt(h, R[o], v, k) = e.frame
      /\ e = Absent \/ (exists(e) /\ e.acc)
  <2>1. e = Absent \/ (exists(e) /\ e.acc)
    BY ONLY <1>1, EntryIn, HeapOK(h), Forest(h, R), o \in Owner, v \in Addr, l \in {2, 3},
            t = TableAt(h, R[o], v, l), t # Null
  <2>2. t \in Tabs(h)
    <3>1. l \in Level
      OBVIOUS
    <3>2. TableAt(h, R[o], v, l) # Null => TableAt(h, R[o], v, l) \in Tabs(h)
      BY <3>1, ForestWalk
    <3>. QED
      BY <3>2
  <2>3. TableAt(h, R[o], v, l - 1) = Below(h, t, v[l])
    BY ONLY TableBelow, l \in {2, 3}, t = TableAt(h, R[o], v, l)
  <2>4. Below(h, t, v[l]) = h.tables[t][v[l]].frame
    BY <2>2 DEF Below, Tabs
  <2>. QED
    BY <1>1, <2>1, <2>3, <2>4
<1>3. v[l] \in Index
  BY AddrIndex
<1>4. Absent.frame = Null
  BY DEF Absent
<1>. QED
  BY <1>1, <1>2, <1>3, <1>4 DEF Followed, FollowedAt, exists

\* Which leaves a traversal calls its function with.
LEMMA FollowedLeaf ==
    ASSUME NEW h, HeapOK(h), NEW R, Forest(h, R), NEW o \in Owner, NEW v \in Addr,
           NEW t, t = TableAt(h, R[o], v, 1), t # Null, NEW accessed \in BOOLEAN
    PROVE  FollowedLast(h, R[o], v, t, accessed)
<1>1. t \in Tabs(h)
  <2>1. 1 \in Level
    OBVIOUS
  <2>2. TableAt(h, R[o], v, 1) # Null => TableAt(h, R[o], v, 1) \in Tabs(h)
    BY <2>1, ForestWalk
  <2>. QED
    BY <2>2
<1>2. PICK e : e = Walk(h, R[o], v)
  OBVIOUS
<1>3. e = h.tables[t][v[1]]
  BY <1>1, <1>2 DEF Walk, Tabs
<1>4. e = Absent \/ (exists(e) /\ e.acc)
  BY <1>2, ForestWalk
<1>5. Absent.frame = Null
  BY DEF Absent
<1>6. v[1] \in Index
  BY AddrIndex
<1>. QED
  BY <1>2, <1>3, <1>4, <1>5, <1>6 DEF Followed, FollowedLast, exists

\* What a traversal should find.
FoundBy(h, r, x) == \E v \in Page : exists(Walk(h, r, v)) /\ x = <<v, Walk(h, r, v)>>

\* A traversal finds nothing that a walk does not.
LEMMA TraverseFinds ==
    ASSUME NEW h, HeapOK(h), NEW R, Forest(h, R), NEW o \in Owner, NEW r, r = R[o], r # Null,
           NEW accessed \in BOOLEAN, NEW x \in traversePageTable(h, r, accessed)
    PROVE  FoundBy(h, r, x)
<1>. DEFINE d(i) == h.tables[r][i].frame
            t(i, j) == h.tables[d(i)][j].frame
<1>1. PICK i \in Followed(h, r, accessed) : x \in traverseDir(h, d(i), Sub(Zero, 3, i), accessed)
  BY DEF traversePageTable, nextTableOrFrame, Sub
<1>2. PICK j \in Followed(h, d(i), accessed) :
         x \in traverseTbl(h, t(i, j), Sub(Sub(Zero, 3, i), 2, j), accessed)
  BY <1>1 DEF traverseDir, nextTableOrFrame, Sub
<1>3. PICK k \in Followed(h, t(i, j), accessed) : x = <<Made(i, j, k), h.tables[t(i, j)][k]>>
  BY <1>2 DEF traverseTbl, Sub, Made
<1>4. i \in Index /\ j \in Index /\ k \in Index
  BY DEF Followed
<1>5. PICK v : v = Made(i, j, k)
  OBVIOUS
<1>6. v \in Addr /\ v[3] = i /\ v[2] = j /\ v[1] = k
  BY <1>4, <1>5, MadeIs
<1>7. TableAt(h, R[o], v, 3) = r
  BY TableAtIs
<1>8. TableAt(h, R[o], v, 2) # Null /\ TableAt(h, R[o], v, 2) = d(i)
  <2>1. PICK l, n : l = 3 /\ n = 2
    OBVIOUS
  <2>2. l \in {2, 3} /\ n = l - 1 /\ r = TableAt(h, R[o], v, l)
    BY <1>7, <2>1
  <2>3. FollowedAt(h, R[o], v, n, l, r, accessed)
    BY <1>6, <2>2, FollowedBelow
  <2>. QED
    BY <1>6, <2>1, <2>3 DEF FollowedAt
<1>9. TableAt(h, R[o], v, 1) # Null /\ TableAt(h, R[o], v, 1) = t(i, j)
  <2>1. PICK l, n, y : l = 2 /\ n = 1 /\ y = d(i)
    OBVIOUS
  <2>2. l \in {2, 3} /\ n = l - 1 /\ y = TableAt(h, R[o], v, l) /\ y # Null
    BY <1>8, <2>1
  <2>3. FollowedAt(h, R[o], v, n, l, y, accessed)
    BY <1>6, <2>2, FollowedBelow
  <2>. QED
    BY <1>6, <2>1, <2>3 DEF FollowedAt
<1>10. exists(Walk(h, R[o], v)) /\ Walk(h, R[o], v) = h.tables[t(i, j)][k]
  <2>1. PICK y : y = t(i, j)
    OBVIOUS
  <2>2. y = TableAt(h, R[o], v, 1) /\ y # Null /\ v[1] \in Followed(h, y, accessed)
    BY <1>6, <1>9, <2>1
  <2>3. FollowedLast(h, R[o], v, y, accessed)
    BY <1>6, <2>2, FollowedLeaf
  <2>. QED
    BY <1>6, <2>1, <2>2, <2>3 DEF FollowedLast
<1>11. v \in Page
  <2>1. PICK e : e = Walk(h, R[o], v)
    OBVIOUS
  <2>2. e = Absent \/ v \in Page
    BY <1>6, <2>1, ForestWalk
  <2>3. exists(e)
    BY <1>10, <2>1
  <2>4. ~exists(Absent)
    BY DEF Absent, exists
  <2>. QED
    BY ONLY <2>2, <2>3, <2>4
<1>. QED
  BY <1>3, <1>5, <1>10, <1>11 DEF FoundBy

\* A traversal finds all that walks find.
LEMMA TraverseMeets ==
    ASSUME NEW h, HeapOK(h), NEW R, Forest(h, R), NEW o \in Owner, NEW r, r = R[o], r # Null,
           NEW accessed \in BOOLEAN, NEW v \in Page, exists(Walk(h, r, v))
    PROVE  <<v, Walk(h, r, v)>> \in traversePageTable(h, r, accessed)
<1>. DEFINE d == TableAt(h, R[o], v, 2)
            t == TableAt(h, R[o], v, 1)
            i == v[3]
            j == v[2]
            k == v[1]
<1>1. v \in Addr
  BY PgTblAssumption
<1>2. i \in Index /\ j \in Index /\ k \in Index
  BY <1>1, AddrIndex
<1>3. t # Null
  <2>1. t = Null => Walk(h, R[o], v) = Absent
    BY NullNoTable DEF Walk, Tabs
  <2>. QED
    BY <2>1 DEF Absent, exists
<1>4. d # Null
  <2>1. 2 \in Level /\ 1 \in Level /\ 1 < 2
    OBVIOUS
  <2>2. t = Below(h, d, v[2])
    BY TableAtIs
  <2>3. d = Null => t = Null
    BY <2>2, NullNoTable DEF Below, Tabs
  <2>. QED
    BY <1>3, <2>3
<1>5. i \in Followed(h, r, accessed) /\ d = h.tables[r][i].frame
  <2>1. PICK l, n : l = 3 /\ n = 2
    OBVIOUS
  <2>2. l \in {2, 3} /\ n = l - 1 /\ r = TableAt(h, R[o], v, l)
    BY <2>1, TableAtIs
  <2>3. FollowedAt(h, R[o], v, n, l, r, accessed)
    BY <1>1, <2>2, FollowedBelow
  <2>. QED
    BY <1>4, <2>1, <2>3 DEF FollowedAt
<1>6. j \in Followed(h, d, accessed) /\ t = h.tables[d][j].frame
  <2>1. PICK l, n, y : l = 2 /\ n = 1 /\ y = d
    OBVIOUS
  <2>2. l \in {2, 3} /\ n = l - 1 /\ y = TableAt(h, R[o], v, l) /\ y # Null
    BY <1>4, <2>1
  <2>3. FollowedAt(h, R[o], v, n, l, y, accessed)
    BY <1>1, <2>2, FollowedBelow
  <2>. QED
    BY <1>3, <2>1, <2>3 DEF FollowedAt
<1>7. k \in Followed(h, t, accessed) /\ Walk(h, R[o], v) = h.tables[t][k]
  <2>1. PICK y : y = t
    OBVIOUS
  <2>2. y = TableAt(h, R[o], v, 1) /\ y # Null
    BY <1>3, <2>1
  <2>3. FollowedLast(h, R[o], v, y, accessed)
    BY <1>1, <2>2, FollowedLeaf
  <2>. QED
    BY <2>1, <2>3 DEF FollowedLast
<1>8. Made(i, j, k) = v
  <2>1. PICK w : w = Made(i, j, k)
    OBVIOUS
  <2>2. w \in Addr /\ w[3] = v[3] /\ w[2] = v[2] /\ w[1] = v[1]
    BY <1>2, <2>1, MadeIs
  <2>3. w = v
    BY <1>1, <2>2, AddrEqual
  <2>. QED
    BY <2>1, <2>3
<1>. HIDE DEF d, t, i, j, k
<1>9. <<Made(i, j, k), h.tables[t][k]>> \in traverseTbl(h, t, Sub(Sub(Zero, 3, i), 2, j), accessed)
  BY <1>7 DEF traverseTbl, Made, Sub
<1>10. <<Made(i, j, k), h.tables[t][k]>> \in traverseDir(h, d, Sub(Zero, 3, i), accessed)
  BY <1>6, <1>9 DEF traverseDir, nextTableOrFrame, Sub
<1>11. <<Made(i, j, k), h.tables[t][k]>> \in traversePageTable(h, r, accessed)
  BY <1>5, <1>10 DEF traversePageTable, nextTableOrFrame, Sub
<1>. QED
  BY <1>7, <1>8, <1>11

\* Both together.
LEMMA MeetsFollows ==
    ASSUME PgInv
    PROVE  TraversalMeetsWalk
<1>. SUFFICES ASSUME NEW o \in Live, NEW accessed \in BOOLEAN
              PROVE  traversePageTable(heap, RootOf(o), accessed) =
                       {<<p, Translation(o, p)>> : p \in {q \in Page : exists(Translation(o, q))}}
  BY DEF TraversalMeetsWalk
<1>1. HeapOK(heap) /\ Forest(heap, Roots) /\ \A q \in Owner : Roots[q] = RootOf(q)
  BY RootsAre
<1>2. PICK r : r = Roots[o]
  OBVIOUS
<1>3. o \in Owner /\ r = RootOf(o) /\ r # Null
  BY <1>1, <1>2 DEF Live
<1>4. \A p : Translation(o, p) = Walk(heap, r, p)
  BY <1>3 DEF Translation
<1>5. \A x \in traversePageTable(heap, r, accessed) :
         \E v \in Page : exists(Walk(heap, r, v)) /\ x = <<v, Walk(heap, r, v)>>
  <2>1. TAKE x \in traversePageTable(heap, r, accessed)
  <2>2. FoundBy(heap, r, x)
    BY <1>1, <1>2, <1>3, <2>1, TraverseFinds
  <2>. QED
    BY <2>2 DEF FoundBy
<1>6. \A v \in Page : exists(Walk(heap, r, v)) =>
         <<v, Walk(heap, r, v)>> \in traversePageTable(heap, r, accessed)
  BY <1>1, <1>2, <1>3, TraverseMeets
<1>7. traversePageTable(heap, r, accessed) =
         {<<p, Walk(heap, r, p)>> : p \in {q \in Page : exists(Walk(heap, r, q))}}
  BY ONLY <1>5, <1>6
<1>. QED
  BY <1>3, <1>4, <1>7

\* Traversals visit what the processor finds, under the addresses it finds it at.
THEOREM TraversalMeetsWalkHolds == Spec => []TraversalMeetsWalk
<1>1. PgInv => TraversalMeetsWalk
  BY MeetsFollows
<1>. QED
  BY <1>1, PgInvHolds, PTL

(***************************************************************************)
(* Tables are kept.                                                        *)
(***************************************************************************)
\* The tables that no walk comes to.
LostIn(h, R) ==
    {t \in Tabs(h) : \A o \in Owner, v \in Addr, l \in Level : TableAt(h, R[o], v, l) # t}

\* A path is its own path.
LEMMA PathPath ==
    ASSUME NEW v \in Addr, NEW l \in Level
    PROVE  Path(Path(v, l), l) = Path(v, l)
<1>1. PICK w : w = Path(v, l)
  OBVIOUS
<1>2. w \in Addr /\ \A k \in Level : w[k] = IF k > l THEN v[k] ELSE 0
  BY <1>1, PathType
<1>3. Path(w, l) \in Addr /\ \A k \in Level : Path(w, l)[k] = IF k > l THEN w[k] ELSE 0
  BY <1>2, PathType
<1>4. \A k \in Level : Path(w, l)[k] = w[k]
  BY <1>2, <1>3
<1>5. Path(w, l) = w
  BY <1>2, <1>3, <1>4, AddrEqual
<1>. QED
  BY <1>1, <1>5

\* What walks come to is what TablesKept calls reached.
LostAre == LostTables = LostIn(heap, Roots)

\* Lost tables by heap and roots.
LEMMA LostIs == PgInv => LostAre
<1>. SUFFICES ASSUME PgInv
              PROVE  LostTables = LostIn(heap, Roots)
  BY DEF LostAre
<1>1. HeapOK(heap) /\ Forest(heap, Roots) /\ \A o \in Owner : Roots[o] = RootOf(o)
  BY RootsAre
<1>2. ASSUME NEW t \in Reached
      PROVE  \E o \in Owner, v \in Addr, l \in Level : TableAt(heap, Roots[o], v, l) = t
  <2>1. PICK o \in Live, s \in Spots : t = TableOf(o, s)
    BY <1>2 DEF Reached
  <2>2. s[1] \in Addr /\ s[2] \in Level /\ o \in Owner
    BY SpotPath DEF Live
  <2>. QED
    BY <1>1, <2>1, <2>2 DEF TableOf
<1>3. ASSUME NEW o \in Owner, NEW v \in Addr, NEW l \in Level,
             TableAt(heap, Roots[o], v, l) \in Tabs(heap)
      PROVE  TableAt(heap, Roots[o], v, l) \in Reached
  <2>1. PICK t, r, w : t = TableAt(heap, r, v, l) /\ r = Roots[o] /\ w = Path(v, l)
    OBVIOUS
  <2>2. w \in Addr /\ Path(w, l) = Path(v, l) /\ \A k \in Level : k <= l => w[k] = 0
    <3>1. \A k \in Level : w[k] = IF k > l THEN v[k] ELSE 0
      BY ONLY <2>1, v \in Addr, l \in Level, PathType
    <3>2. w \in Addr /\ Path(w, l) = Path(v, l)
      BY ONLY <2>1, v \in Addr, l \in Level, PathType, PathPath
    <3>3. ASSUME NEW k \in Level, k <= l
          PROVE  w[k] = 0
      <4>1. ~(k > l)
        BY ONLY <3>3, l \in Level
      <4>. QED
        BY ONLY <3>1, <4>1, k \in Level
    <3>. QED
      BY <3>2, <3>3
  <2>3. t # Null
    BY <1>1, <1>3, <2>1, NullNoTable
  <2>4. r # Null
    BY <1>1, <2>1, <2>3, NoTree
  <2>5. o \in Live
    BY <1>1, <2>1, <2>4 DEF Live
  <2>6. TableAt(heap, r, w, l) = TableAt(heap, r, v, l)
    BY <2>2, ThroughSame
  <2>7. PICK s : s = <<w, l>>
    OBVIOUS
  <2>8. s \in Spots /\ s[1] = w /\ s[2] = l
    BY <2>2, <2>7 DEF Spots
  <2>9. TableOf(o, s) = t
    BY <1>1, <2>1, <2>6, <2>8 DEF TableOf
  <2>. QED
    BY <2>1, <2>3, <2>5, <2>8, <2>9 DEF Reached
<1>. QED
  BY <1>2, <1>3 DEF LostTables, LostIn, Tabs

\* The same after a step.
LEMMA LostIsNext == PgInv' => LostAre'
  BY LostIs, PTL

\* A tree that grows, and nothing else, loses no table.
LEMMA GrownKeeps ==
    ASSUME NEW h, HeapOK(h), NEW R, NEW o \in Owner, NEW g, NEW S, Rerooted(R, S, o, S[o]),
           OthersSame(h, g, R, o), GrownTree(h, R[o], g, S[o])
    PROVE  LostIn(g, S) \subseteq LostIn(h, R)
<1>. SUFFICES ASSUME NEW t \in LostIn(g, S)
              PROVE  t \in LostIn(h, R)
  OBVIOUS
<1>1. t \in Tabs(g) /\ \A q \in Owner, v \in Addr, l \in Level : TableAt(g, S[q], v, l) # t
  BY DEF LostIn
<1>2. t \in Tabs(h)
  BY <1>1 DEF GrownTree
<1>3. t # Null
  BY <1>2, NullNoTable
<1>4. \A v \in Addr, l \in Level : TableAt(h, R[o], v, l) # t
  BY <1>1, <1>3 DEF GrownTree
<1>5. ASSUME NEW q \in Owner, q # o, NEW v \in Addr, NEW l \in Level
      PROVE  TableAt(h, R[q], v, l) # t
  <2>1. TableAt(g, R[q], v, l) = TableAt(h, R[q], v, l)
    BY <1>5 DEF OthersSame, SameWalk
  <2>2. S[q] = R[q]
    BY <1>5 DEF Rerooted
  <2>3. TableAt(g, S[q], v, l) # t
    BY <1>1
  <2>. QED
    BY <2>1, <2>2, <2>3
<1>. QED
  BY <1>2, <1>4, <1>5 DEF LostIn

\* Neither does freeing a tree.
LEMMA FreedKeeps ==
    ASSUME NEW h, HeapOK(h), NEW R, NEW o \in Owner, NEW g, NEW S, FreeStep(h, R, g, S, o)
    PROVE  LostIn(g, S) \subseteq LostIn(h, R)
<1>. SUFFICES ASSUME NEW t \in LostIn(g, S)
              PROVE  t \in LostIn(h, R)
  OBVIOUS
<1>1. t \in Tabs(g) /\ \A q \in Owner, v \in Addr, l \in Level : TableAt(g, S[q], v, l) # t
  BY DEF LostIn
<1>2. \A q \in Owner : q # o => S[q] = R[q]
  BY DEF FreeStep, Rerooted
<1>3. CASE R[o] = Null
  <2>1. g = h
    BY <1>3 DEF FreeStep
  <2>2. t # Null /\ t \in Tabs(h)
    BY <1>1, <2>1, NullNoTable
  <2>3. \A v \in Addr, l \in Level : TableAt(h, Null, v, l) = Null
    BY NoTree
  <2>. QED
    BY <1>1, <1>2, <1>3, <2>1, <2>2, <2>3 DEF LostIn
<1>4. CASE R[o] # Null
  <2>1. OthersSame(h, g, R, o) /\ Tabs(g) = Tabs(h) \ TablesOf(h, R[o], Level, Addr)
    BY <1>4 DEF FreeStep, FreedTree
  <2>2. t \in Tabs(h) /\ t # Null
    BY <1>1, <2>1, NullNoTable
  <2>3. \A v \in Addr, l \in Level : TableAt(h, R[o], v, l) # t
    BY <1>1, <2>1, <2>2 DEF TablesOf
  <2>4. ASSUME NEW q \in Owner, q # o, NEW v \in Addr, NEW l \in Level
        PROVE  TableAt(h, R[q], v, l) # t
    <3>1. TableAt(g, R[q], v, l) = TableAt(h, R[q], v, l)
      BY <2>1, <2>4 DEF OthersSame, SameWalk
    <3>. QED
      BY <1>1, <1>2, <2>4, <3>1
  <2>. QED
    BY <2>2, <2>3, <2>4 DEF LostIn
<1>. QED
  BY <1>3, <1>4

\* No step loses a table, except the unloading of an instance that has no root of its own.
KeepStep ==
    \/ LostIn(heap', Roots') \subseteq LostIn(heap, Roots)
    \/ Running /\ slot' = NoInst /\ root_[slot] = Null

\* A copy loses no table.
LEMMA CopyStepKeeps ==
    ASSUME PgInv, NEW src, NEW u, NEW deep, CopyStep(heap, Roots, src, u, deep, heap', Roots')
    PROVE  KeepStep
<1>1. PICK c : /\ heap' = c.heap /\ Copied(heap, Roots, src, u, deep, c, Addr)
               /\ Rerooted(Roots, Roots', u, c.root)
  BY DEF CopyStep
<1>2. PICK S, g : S = Roots' /\ g = heap'
  OBVIOUS
<1>3. HeapOK(heap) /\ u \in Owner /\ Roots[u] = Null
  BY DEF CopyStep, SourceOK
<1>4. OthersSame(heap, g, Roots, u) /\ GrownTree(heap, Roots[u], g, S[u])
      /\ Rerooted(Roots, S, u, S[u])
  BY <1>1, <1>2, <1>3 DEF Copied, Rerooted
<1>5. LostIn(g, S) \subseteq LostIn(heap, Roots)
  BY <1>3, <1>4, GrownKeeps
<1>. QED
  BY <1>2, <1>5 DEF KeepStep

\* Nothing happens to tables.
LEMMA SameKeeps ==
    ASSUME PgInv, heap' = heap, \A q \in Owner : Roots'[q] = Roots[q]
    PROVE  KeepStep
  BY DEF KeepStep, LostIn

\* Unloading loses tables of booted instances only.
LEMMA UnloadLoses ==
    ASSUME PgInv, SwapOut \/ Halt
    PROVE  KeepStep
<1>1. Running /\ slot_unload_instance
  BY DEF SwapOut, Halt
<1>2. heap' = heap /\ slot' = NoInst
  BY <1>1 DEF slot_unload_instance
<1>3. CASE root_[slot] = Null
  BY <1>1, <1>2, <1>3 DEF KeepStep
<1>4. CASE root_[slot] # Null
  <2>1. Rerooted(Roots, Roots', slot, root_[slot]) /\ root_[slot] = Roots[slot]
    BY <1>1, <1>4, UnloadEffect
  <2>2. \A q \in Owner : Roots'[q] = Roots[q]
    BY <2>1 DEF Rerooted
  <2>. QED
    BY <1>2, <2>2, SameKeeps
<1>. QED
  BY <1>3, <1>4

\* A page fault loses no table.
LEMMA FaultStepKeeps ==
    ASSUME PgInv, NEW p \in Page, NEW write \in BOOLEAN, PageFault(p, write)
    PROVE  KeepStep
<1>1. /\ FaultStep(heap, Roots, slot, p, p \in Writable, write, heap', Roots')
      /\ slot \in Owner
  BY FaultEffect
<1>2. PICK b, m : /\ Backed(heap, Walk(heap, Roots[slot], p), p, b)
                  /\ heap' = m.heap
                  /\ Mapped(b.heap, Roots, slot, p, Entry(b.page, p \in Writable, write), m, Roots')
                  /\ Rerooted(Roots, Roots', slot, m.root)
  BY <1>1 DEF FaultStep
<1>3. HeapInv(heap, Roots) /\ HeapOK(heap) /\ Forest(heap, Roots)
  BY RootsAre
<1>4. p \in Addr
  BY PgTblAssumption
<1>5. PICK w : w = Walk(heap, Roots[slot], p)
  OBVIOUS
<1>6. w \in Pte
  BY <1>1, <1>3, <1>4, <1>5, ForestWalk
<1>7. HeapInv(b.heap, Roots) /\ b.heap.tables = heap.tables
  BY <1>2, <1>3, <1>5, <1>6, BackedOK
<1>8. PICK S, g, k : S = Roots' /\ g = heap' /\ k = b.heap
  OBVIOUS
<1>9. OthersSame(k, g, Roots, slot) /\ GrownTree(k, Roots[slot], g, S[slot])
      /\ Rerooted(Roots, S, slot, S[slot])
  BY <1>2, <1>8 DEF Mapped, TreeGrew, Rerooted
<1>10. HeapOK(k)
  BY <1>7, <1>8 DEF HeapInv
<1>11. LostIn(g, S) \subseteq LostIn(k, Roots)
  BY <1>1, <1>9, <1>10, GrownKeeps
<1>12. LostIn(k, Roots) = LostIn(heap, Roots)
  <2>1. k.tables = heap.tables
    BY <1>7, <1>8
  <2>2. Tabs(k) = Tabs(heap) /\ \A r, v, l : TableAt(k, r, v, l) = TableAt(heap, r, v, l)
    BY ONLY <2>1, DataOnly
  <2>. QED
    BY <2>2 DEF LostIn
<1>. QED
  BY <1>8, <1>11, <1>12 DEF KeepStep

\* A store loses no table.
LEMMA StoreStepKeeps ==
    ASSUME PgInv, NEW p \in Page, NEW v \in Val, Store(p, v)
    PROVE  KeepStep
<1>1. Written(heap, Roots, slot, p, v, heap') /\ Roots' = Roots
  BY StoreEffect
<1>2. Tabs(heap') = Tabs(heap)
      /\ \A q \in Owner, w \in Addr, k \in Level :
            TableAt(heap', Roots[q], w, k) = TableAt(heap, Roots[q], w, k)
  BY <1>1 DEF Written
<1>. QED
  BY <1>1, <1>2 DEF KeepStep, LostIn

\* No step loses tables, with that exception.
LEMMA StepKeeps ==
    ASSUME PgInv, [Next]_vars
    PROVE  KeepStep
<1>1. ASSUME NEW u \in Inst, Boot(u) \/ SetCheckpoint(u)
      PROVE  KeepStep
  <2>1. UNCHANGED <<root_, pml4, slot, heap>>
    BY <1>1 DEF Boot, SetCheckpoint
  <2>2. Roots' = Roots
    BY <2>1 DEF Roots, RootOf
  <2>. QED
    BY <2>1, <2>2, SameKeeps
<1>2. ASSUME NEW u \in Inst, slot_load_instance(u)
      PROVE  KeepStep
  BY <1>2, LoadEffect, SameKeeps
<1>3. ASSUME NEW u \in Inst, NEW s \in Snap, Deploy(u, s)
      PROVE  KeepStep
  <2>1. PICK deep : deep = FALSE
    OBVIOUS
  <2>2. CopyStep(heap, Roots, s, u, deep, heap', Roots')
    BY <1>3, <2>1, DeployEffect
  <2>. QED
    BY <2>2, CopyStepKeeps
<1>4. ASSUME NEW o \in Owner, Destroy(o)
      PROVE  KeepStep
  <2>1. FreeStep(heap, Roots, heap', Roots', o) /\ HeapOK(heap)
    BY <1>4, DestroyEffect, RootsAre
  <2>2. PICK S, g : S = Roots' /\ g = heap'
    OBVIOUS
  <2>3. LostIn(g, S) \subseteq LostIn(heap, Roots)
    BY <2>1, <2>2, FreedKeeps
  <2>. QED
    BY <2>2, <2>3 DEF KeepStep
<1>5. CASE SwapOut \/ Halt
  BY <1>5, UnloadLoses
<1>6. ASSUME NEW p \in Page, NEW v \in Val, Store(p, v)
      PROVE  KeepStep
  BY <1>6, StoreStepKeeps
<1>7. ASSUME NEW p \in Page, NEW write \in BOOLEAN, PageFault(p, write)
      PROVE  KeepStep
  BY <1>7, FaultStepKeeps
<1>8. ASSUME NEW s \in Snap, Checkpoint(s)
      PROVE  KeepStep
  <2>1. PICK deep : deep = TRUE
    OBVIOUS
  <2>2. CopyStep(heap, Roots, slot, s, deep, heap', Roots')
    BY <1>8, <2>1, CheckpointEffect
  <2>. QED
    BY <2>2, CopyStepKeeps
<1>9. CASE UNCHANGED vars
  <2>1. UNCHANGED <<root_, pml4, slot, heap>>
    BY <1>9 DEF vars
  <2>2. Roots' = Roots
    BY <2>1 DEF Roots, RootOf
  <2>. QED
    BY <2>1, <2>2, SameKeeps
<1>. QED
  BY <1>1, <1>2, <1>3, <1>4, <1>5, <1>6, <1>7, <1>8, <1>9 DEF Next

\* No step loses a table but the unloading of an instance booted from the image: walkers
\* link what they create, and what freePageTable does not free is reached.
THEOREM TablesKeptHolds == Spec => TablesKept
<1>1. PgInv /\ PgInv' /\ [Next]_vars =>
         [\/ LostTables' \subseteq LostTables
          \/ Running /\ slot' = NoInst /\ root_[slot] = Null]_vars
  BY LostIs, LostIsNext, StepKeeps DEF KeepStep, LostAre
<1>. QED
  BY <1>1, PgInvHolds, PTL DEF Spec, TablesKept

(***************************************************************************)
(* Tables as UmMemory has them.                                            *)
(***************************************************************************)
Flat(w) == [frame |-> w.frame, rw |-> w.rw, dirty |-> w.dirty]
FlatWalk(h, r) == [p \in Page |-> Flat(Walk(h, r, p))]

\* A page that may be written below root r, or below any root.
WriterBy(h, r, f) == \E p \in Page : Walk(h, r, p).rw /\ Walk(h, r, p).frame = f
Writer(h, R, f) == \E o \in Owner : WriterBy(h, R[o], f)
LostData(h, R) == {f \in h.data : ~Writer(h, R, f)}

\* UmMemory's variables.
MRoot == [o \in Owner |-> root_[o] # Null]
MTable == [o \in Owner |-> FlatTable(o)]
MSlot == [c \in {"core"} |-> slot]
MTlb == [c \in {"core"} |-> NoTlb]
MLost == heap.data \ UNION {Owned(o) : o \in Owner}

TablesFlat(h, R) == [o \in Owner |-> FlatWalk(h, R[o])]

\* The leaf entries of all tables, from heap and roots.
LEMMA TableIs == MTable = TablesFlat(heap, Roots)
<1>1. ASSUME NEW o \in Owner
      PROVE  FlatTable(o) = FlatWalk(heap, Roots[o])
  BY DEF FlatTable, FlatWalk, Flat, Translation, Roots
<1>. QED
  BY <1>1 DEF MTable, TablesFlat

\* The lost pages, from heap and roots.
LEMMA LostDataIs == MLost = LostData(heap, Roots)
<1>1. ASSUME NEW o \in Owner
      PROVE  Owned(o) = {Walk(heap, Roots[o], p).frame : p \in {q \in Page : Walk(heap, Roots[o], q).rw}}
  BY DEF Owned, Translation, Roots
<1>2. ASSUME NEW f
      PROVE  f \in UNION {Owned(o) : o \in Owner} <=> Writer(heap, Roots, f)
  BY <1>1 DEF Writer, WriterBy
<1>. QED
  BY <1>2 DEF MLost, LostData

\* The same after a step.
Abstracted == MTable = TablesFlat(heap, Roots) /\ MLost = LostData(heap, Roots)
\* Both hold in every state.
LEMMA AbstractedNow == Abstracted
  BY TableIs, LostDataIs DEF Abstracted
\* So they do after a step.
LEMMA AbstractedNext == Abstracted'
  BY AbstractedNow, PTL

\* One element of a function changes.
Put(f, x, y) == [f EXCEPT ![x] = y]

\* Only u's walks find something else.
OnlyOf(h, R, g, S, u) ==
    \A q \in Owner, p \in Page : q # u => Walk(g, S[q], p) = Walk(h, R[q], p)

\* One address space's entries change.
LEMMA TablesPut ==
    ASSUME NEW h, NEW R, NEW g, NEW S, NEW u \in Owner, OnlyOf(h, R, g, S, u)
    PROVE  TablesFlat(g, S) = Put(TablesFlat(h, R), u, FlatWalk(g, S[u]))
<1>1. ASSUME NEW q \in Owner, q # u
      PROVE  FlatWalk(g, S[q]) = FlatWalk(h, R[q])
  BY <1>1 DEF FlatWalk, OnlyOf
<1>. QED
  BY <1>1 DEF TablesFlat, Put

\* No entries change.
LEMMA TablesSame ==
    ASSUME NEW h, NEW R, NEW g, NEW S,
           \A q \in Owner, p \in Page : Walk(g, S[q], p) = Walk(h, R[q], p)
    PROVE  TablesFlat(g, S) = TablesFlat(h, R) /\ (g.data = h.data => LostData(g, S) = LostData(h, R))
<1>1. ASSUME NEW q \in Owner
      PROVE  FlatWalk(g, S[q]) = FlatWalk(h, R[q])
  BY <1>1 DEF FlatWalk
<1>. QED
  BY <1>1 DEF TablesFlat, LostData, Writer, WriterBy

\* One root changes.
LEMMA RootPut ==
    ASSUME NEW u \in Owner, NEW b \in BOOLEAN, (root_'[u] # Null) <=> b,
           \A q \in Owner : q # u => root_'[q] = root_[q]
    PROVE  MRoot' = Put(MRoot, u, b)
<1>1. ASSUME NEW q \in Owner
      PROVE  (root_'[q] # Null) <=> IF q = u THEN b ELSE root_[q] # Null
  BY <1>1
<1>. QED
  BY <1>1 DEF MRoot, Put

\* Nothing that hangs off the roots changes.
LEMMA UnchangedFlat ==
    ASSUME heap' = heap, \A q \in Owner : Roots'[q] = Roots[q]
    PROVE  MTable' = MTable /\ MLost' = MLost
<1>1. /\ TablesFlat(heap', Roots') = TablesFlat(heap, Roots)
      /\ LostData(heap', Roots') = LostData(heap, Roots)
  BY TablesSame
<1>. QED
  BY <1>1, AbstractedNow, AbstractedNext DEF Abstracted

\* Booting implements Boot.
LEMMA BootFlat ==
    ASSUME NEW u \in Inst, Boot(u)
    PROVE  Memory!Boot(u)
<1>1. UNCHANGED <<root_, pml4, snap_addr, slot, heap>>
  BY DEF Boot
<1>2. Roots' = Roots
  BY <1>1 DEF Roots, RootOf
<1>3. MTable' = MTable /\ MLost' = MLost
  BY <1>1, <1>2, UnchangedFlat
<1>4. MRoot' = MRoot /\ MSlot' = MSlot /\ MTlb' = MTlb
  BY <1>1 DEF MRoot, MSlot, MTlb, NoTlb
<1>5. life[u] = "none" /\ life' = [life EXCEPT ![u] = "live"]
  BY DEF Boot
<1>. QED
  BY <1>1, <1>3, <1>4, <1>5 DEF Memory!Boot, MRoot, MTable, MSlot, MTlb, MLost, Owner

\* An instance is loaded for UmMemory if it is.
LEMMA MLoaded ==
    ASSUME NEW u
    PROVE  Memory!Loaded(u) <=> Loaded(u)
  BY DEF Memory!Loaded, Loaded

\* Asking for a checkpoint implements SetCheckpoint.
LEMMA SetCheckpointFlat ==
    ASSUME NEW u \in Inst, SetCheckpoint(u)
    PROVE  Memory!SetCheckpoint(u)
<1>1. UNCHANGED <<life, root_, pml4, slot, heap>>
  BY DEF SetCheckpoint
<1>2. Roots' = Roots
  BY <1>1 DEF Roots, RootOf
<1>3. MTable' = MTable /\ MLost' = MLost
  BY <1>1, <1>2, UnchangedFlat
<1>4. MRoot' = MRoot /\ MSlot' = MSlot /\ MTlb' = MTlb
  BY <1>1 DEF MRoot, MSlot, MTlb, NoTlb
<1>5. /\ life[u] = "live" /\ ~Memory!Loaded(u) /\ snap_addr[u] = "unset"
      /\ snap_addr' = [snap_addr EXCEPT ![u] = "set"]
  BY MLoaded DEF SetCheckpoint
<1>. QED
  BY <1>1, <1>3, <1>4, <1>5 DEF Memory!SetCheckpoint, MRoot, MTable, MSlot, MTlb, MLost

\* Loading implements slot_load_instance.
LEMMA LoadFlat ==
    ASSUME PgInv, NEW u \in Inst, slot_load_instance(u)
    PROVE  Memory!slot_load_instance("core", u)
<1>1. UNCHANGED <<life, root_, snap_addr, heap>> /\ slot' = u /\ ~Running /\ life[u] = "live"
  BY DEF slot_load_instance
<1>2. MTable' = MTable /\ MLost' = MLost
  BY LoadEffect, UnchangedFlat
<1>3. MRoot' = MRoot /\ MTlb' = MTlb /\ MSlot' = [MSlot EXCEPT !["core"] = u]
  BY <1>1 DEF MRoot, MSlot, MTlb, NoTlb
<1>4. u # NoInst
  BY PgTblAssumption
<1>5. ~Memory!Running("core") /\ ~Memory!Loaded(u)
  BY <1>1, <1>4, MLoaded DEF Memory!Running, Running, Loaded
<1>. QED
  BY <1>1, <1>2, <1>3, <1>5
     DEF Memory!slot_load_instance, MRoot, MTable, MSlot, MTlb, MLost

\* How UmMemory translates: nothing is cached.
LEMMA MTranslation ==
    ASSUME PgInv, Running, NEW p \in Page
    PROVE  /\ Memory!Translation("core", p) = Flat(Walk(heap, Roots[slot], p))
           /\ MTable[slot] = FlatWalk(heap, Roots[slot])
           /\ MTable[slot][p] = Flat(Walk(heap, Roots[slot], p))
<1>1. slot \in Owner
  BY InSlot
<1>2. MTable[slot] = FlatWalk(heap, Roots[slot])
  BY <1>1, TableIs DEF TablesFlat
<1>3. MTable[slot][p] = Flat(Walk(heap, Roots[slot], p))
  BY <1>2 DEF FlatWalk
<1>4. NoTlb[p].frame = Null
  BY DEF NoTlb
<1>5. Memory!Translation("core", p) = MTable[slot][p]
  BY <1>4 DEF Memory!Translation, Memory!exists, MTable
<1>. QED
  BY <1>2, <1>3, <1>5

\* Entries that UmMemory has.
FlatPte == [frame : Frame \cup Elf \cup {Null}, rw : BOOLEAN, dirty : BOOLEAN]

\* Entries with the same fields are the same.
LEMMA FlatEqual ==
    ASSUME NEW a \in FlatPte, NEW b \in FlatPte,
           a.frame = b.frame, a.rw = b.rw, a.dirty = b.dirty
    PROVE  a = b
  BY DEF FlatPte

\* A dirtied entry, as UmMemory has it.
LEMMA FlatDirty ==
    ASSUME NEW w \in Pte, NEW t, t = Flat(w)
    PROVE  Flat(Dirtied(w)) = [t EXCEPT !.dirty = TRUE]
<1>1. PICK a, b : a = Flat(Dirtied(w)) /\ b = [t EXCEPT !.dirty = TRUE]
  OBVIOUS
<1>2. t \in FlatPte /\ t.frame = w.frame /\ t.rw = w.rw
  BY DEF Flat, FlatPte, Pte
<1>3. b \in FlatPte /\ b.frame = t.frame /\ b.rw = t.rw /\ b.dirty = TRUE
  BY <1>1, <1>2 DEF FlatPte
<1>4. PICK d : d = Dirtied(w)
  OBVIOUS
<1>5. d \in Pte /\ d.frame = w.frame /\ d.rw = w.rw /\ d.dirty = TRUE
  BY <1>4, DirtiedIs
<1>6. a \in FlatPte /\ a.frame = d.frame /\ a.rw = d.rw /\ a.dirty = d.dirty
  BY <1>1, <1>4, <1>5 DEF Flat, FlatPte, Pte
<1>7. a.frame = b.frame /\ a.rw = b.rw /\ a.dirty = b.dirty
  BY ONLY <1>2, <1>3, <1>5, <1>6
<1>8. a = b
  BY ONLY <1>3, <1>6, <1>7, FlatEqual
<1>. QED
  BY ONLY <1>1, <1>8

\* A store implements Store.
LEMMA StoreFlat ==
    ASSUME PgInv, NEW p \in Page, NEW v \in Val, Store(p, v)
    PROVE  Memory!Store("core", p, v)
<1>1. Running /\ UNCHANGED <<life, root_, pml4, snap_addr, slot>>
  BY DEF Store
<1>2. slot \in Owner /\ slot \in Inst
  BY <1>1, InSlot
<1>3. Written(heap, Roots, slot, p, v, heap') /\ Roots' = Roots
  BY StoreEffect
<1>4. PICK g, w : g = heap' /\ w = Walk(heap, Roots[slot], p)
  OBVIOUS
<1>5. Walk(heap, Roots[slot], p).rw
  BY <1>2, RootsAre DEF Store, Translation
<1>6. PICK t : t = Flat(w)
  OBVIOUS
<1>7. t.rw /\ t.frame = w.frame
  BY <1>4, <1>5, <1>6 DEF Flat
<1>8. \A x \in Page : x \in Addr
  BY PgTblAssumption
<1>9. \A q \in Owner, x \in Page : q # slot => Walk(g, Roots[q], x) = Walk(heap, Roots[q], x)
  BY <1>3, <1>4, <1>8 DEF Written
<1>10. \A x \in Page : Walk(g, Roots[slot], x) = IF x = p THEN Dirtied(w)
                                                ELSE Walk(heap, Roots[slot], x)
  BY <1>2, <1>3, <1>4, <1>8 DEF Written
<1>11. w \in Pte
  BY <1>2, <1>4, <1>8, RootsAre, ForestWalk
<1>12. Flat(Dirtied(w)) = [t EXCEPT !.dirty = TRUE]
  BY <1>6, <1>11, FlatDirty
<1>13. FlatWalk(g, Roots[slot]) = [FlatWalk(heap, Roots[slot]) EXCEPT ![p] = [t EXCEPT !.dirty = TRUE]]
  BY <1>10, <1>12 DEF FlatWalk
<1>14. TablesFlat(g, Roots) = Put(TablesFlat(heap, Roots), slot, FlatWalk(g, Roots[slot]))
  <2>1. OnlyOf(heap, Roots, g, Roots, slot)
    BY <1>9 DEF OnlyOf
  <2>. QED
    BY <1>2, <2>1, TablesPut
<1>15. /\ MTable[slot] = FlatWalk(heap, Roots[slot]) /\ MTable[slot][p] = t
       /\ Memory!Translation("core", p) = t
  BY <1>1, <1>4, <1>6, MTranslation
<1>16. MTable' = [MTable EXCEPT ![slot] = [MTable[slot] EXCEPT ![p] = [t EXCEPT !.dirty = TRUE]]]
  BY <1>3, <1>4, <1>13, <1>14, <1>15, AbstractedNow, AbstractedNext DEF Abstracted, Put
<1>17. MLost' = MLost
  <2>1. \A q \in Owner, x \in Page : /\ Walk(g, Roots[q], x).rw = Walk(heap, Roots[q], x).rw
                                     /\ Walk(g, Roots[q], x).frame = Walk(heap, Roots[q], x).frame
    <3>1. Dirtied(w).frame = w.frame /\ Dirtied(w).rw = w.rw
      BY <1>11, DirtiedIs
    <3>2. \A x \in Page : /\ Walk(g, Roots[slot], x).rw = Walk(heap, Roots[slot], x).rw
                          /\ Walk(g, Roots[slot], x).frame = Walk(heap, Roots[slot], x).frame
      BY <1>4, <1>10, <3>1
    <3>. QED
      BY ONLY <1>9, <3>2
  <2>2. g.data = heap.data
    BY <1>3, <1>4 DEF Written
  <2>3. LostData(g, Roots) = LostData(heap, Roots)
    BY <2>1, <2>2 DEF LostData, Writer, WriterBy
  <2>. QED
    BY <1>3, <1>4, <2>3, AbstractedNow, AbstractedNext DEF Abstracted
<1>18. heap'.mem = [heap.mem EXCEPT ![t.frame] = v] /\ heap'.data = heap.data
  BY <1>3, <1>4, <1>7 DEF Written, Stored
<1>19. MTlb' = [MTlb EXCEPT !["core"] = [MTlb["core"] EXCEPT ![p] = Memory!Absent]]
  BY DEF MTlb, NoTlb, Memory!Absent, Memory!Entry
<1>20. MRoot' = MRoot /\ MSlot' = MSlot /\ MSlot["core"] = slot
  BY <1>1 DEF MRoot, MSlot
<1>21. Memory!Running("core")
  BY <1>1 DEF Memory!Running, Running
<1>. QED
  BY <1>1, <1>7, <1>15, <1>16, <1>17, <1>18, <1>19, <1>20, <1>21
     DEF Memory!Store, Memory!mapIntoPgTbl, MRoot, MTable, MSlot, MTlb, MLost

\* Pages that UmMemory frees with a table.
LEMMA MFreed ==
    ASSUME NEW h, HeapOK(h), NEW R, Forest(h, R), NEW o \in Owner,
           NEW t, t = FlatWalk(h, R[o]), NEW f
    PROVE  f \in Memory!freePageTable(t) <=> WriterBy(h, R[o], f)
<1>1. ASSUME NEW p \in Page
      PROVE  /\ t[p].frame = Walk(h, R[o], p).frame /\ t[p].rw = Walk(h, R[o], p).rw
             /\ t[p].rw => t[p].frame # Null
  <2>1. t[p] = Flat(Walk(h, R[o], p))
    BY DEF FlatWalk
  <2>2. t[p].frame = Walk(h, R[o], p).frame /\ t[p].rw = Walk(h, R[o], p).rw
    BY <2>1 DEF Flat
  <2>3. p \in Addr
    BY PgTblAssumption
  <2>4. Walk(h, R[o], p) = Absent \/ exists(Walk(h, R[o], p))
    BY <2>3, ForestWalk
  <2>5. ~Absent.rw
    BY DEF Absent
  <2>. QED
    BY <2>2, <2>4, <2>5 DEF exists
<1>. QED
  BY <1>1 DEF Memory!freePageTable, Memory!Leaves, Memory!exists, WriterBy

\* A root that is null.
LEMMA NullFlat ==
    ASSUME NEW h, HeapOK(h)
    PROVE  FlatWalk(h, Null) = Memory!Empty /\ \A f : ~WriterBy(h, Null, f)
<1>1. \A p \in Page : Walk(h, Null, p) = Absent
  BY NoTree, PgTblAssumption
<1>2. Flat(Absent) = Memory!Absent /\ ~Absent.rw
  BY DEF Flat, Absent, Memory!Absent, Memory!Entry
<1>. QED
  BY <1>1, <1>2 DEF FlatWalk, Memory!Empty, WriterBy

\* Unloading implements slot_unload_instance.
LEMMA UnloadFlat ==
    ASSUME FlatInv, Running, slot_unload_instance
    PROVE  Memory!slot_unload_instance("core")
<1>1. pml4 # Null /\ slot' = NoInst /\ UNCHANGED <<root_, snap_addr, heap>>
  BY DEF slot_unload_instance
<1>2. PgInv /\ HeapInv(heap, Roots) /\ HeapOK(heap) /\ Forest(heap, Roots)
  BY RootsAre DEF FlatInv
<1>3. slot \in Owner /\ Roots[slot] = pml4
  BY <1>2, InSlot
<1>4. MTable[slot] = FlatWalk(heap, Roots[slot]) /\ MSlot["core"] = slot
  BY <1>2, <1>3, TableIs DEF TablesFlat, MSlot
<1>5. Memory!SlotRoot("core")
  <2>1. PICK p \in Page : exists(Walk(heap, Roots[slot], p))
    BY <1>1, <1>3 DEF FlatInv, RootsUseful
  <2>2. MTable[slot][p].frame # Null
    BY <1>4, <2>1 DEF FlatWalk, Flat, exists
  <2>. QED
    BY <1>4, <2>2 DEF Memory!SlotRoot, Memory!exists, MTable, MSlot
<1>6. MSlot' = [MSlot EXCEPT !["core"] = NoInst]
  BY <1>1 DEF MSlot
<1>7. MTlb' = Memory!FlushedAll("core") /\ MRoot' = MRoot
  BY <1>1 DEF Memory!FlushedAll, Memory!Empty, Memory!Absent, Memory!Entry, MTlb, NoTlb, MRoot
<1>8. /\ MRoot[slot] => MTable' = MTable /\ MLost' = MLost
      /\ ~MRoot[slot] => /\ MTable' = [MTable EXCEPT ![slot] = Memory!Empty]
                         /\ MLost' = MLost \cup Memory!freePageTable(MTable[slot])
  <2>1. Rerooted(Roots, Roots', slot, root_[slot])
        /\ (root_[slot] # Null => root_[slot] = Roots[slot])
    BY <1>2, UnloadEffect
  <2>2. CASE root_[slot] # Null
    <3>1. \A q \in Owner : Roots'[q] = Roots[q]
      BY <2>1, <2>2 DEF Rerooted
    <3>2. MTable' = MTable /\ MLost' = MLost
      BY <1>1, <3>1, UnchangedFlat
    <3>3. MRoot[slot]
      BY <1>3, <2>2 DEF MRoot
    <3>. QED
      BY <3>2, <3>3
  <2>3. CASE root_[slot] = Null
    <3>1. PICK S, o : S = Roots' /\ o = slot
      OBVIOUS
    <3>2. S[o] = Null /\ o \in Owner /\ \A q \in Owner : q # o => S[q] = Roots[q]
      BY <1>3, <2>1, <2>3, <3>1 DEF Rerooted
    <3>3. TablesFlat(heap, S) = Put(TablesFlat(heap, Roots), o, FlatWalk(heap, S[o]))
      <4>1. OnlyOf(heap, Roots, heap, S, o)
        BY <3>2 DEF OnlyOf
      <4>. QED
        BY <3>2, <4>1, TablesPut
    <3>4. FlatWalk(heap, S[o]) = Memory!Empty /\ \A f : ~WriterBy(heap, S[o], f)
      BY <1>2, <3>2, NullFlat
    <3>5. MTable' = [MTable EXCEPT ![slot] = Memory!Empty]
      BY <1>1, <3>1, <3>3, <3>4, AbstractedNow, AbstractedNext DEF Abstracted, Put
    <3>6. PICK F : F = Memory!freePageTable(MTable[slot])
      OBVIOUS
    <3>7. \A f : f \in F <=> WriterBy(heap, Roots[o], f)
      BY <1>2, <1>4, <3>1, <3>2, <3>6, MFreed
    <3>8. \A f \in F : f \in heap.data
      <4>1. \A p \in Page : Walk(heap, Roots[o], p).rw => Walk(heap, Roots[o], p).frame \in heap.data
        BY <1>2, <3>2, PgTblAssumption DEF HeapInv, WritersOK
      <4>. QED
        BY ONLY <3>7, <4>1 DEF WriterBy
    <3>9. ASSUME NEW f, WriterBy(heap, Roots[o], f)
          PROVE  ~Writer(heap, S, f)
      <4>. SUFFICES ASSUME NEW q \in Owner, WriterBy(heap, S[q], f)
                    PROVE  FALSE
        BY DEF Writer
      <4>1. q # o /\ WriterBy(heap, Roots[q], f)
        BY <3>2, <3>4
      <4>2. PICK x \in Page : Walk(heap, Roots[o], x).rw /\ Walk(heap, Roots[o], x).frame = f
        BY <3>9 DEF WriterBy
      <4>3. PICK y \in Page : Walk(heap, Roots[q], y).rw /\ Walk(heap, Roots[q], y).frame = f
        BY <4>1 DEF WriterBy
      <4>4. x \in Addr /\ y \in Addr
        BY PgTblAssumption
      <4>. QED
        BY <1>2, <3>2, <4>1, <4>2, <4>3, <4>4 DEF HeapInv, WritersOK
    <3>10. \A f : ~Writer(heap, S, f) /\ ~WriterBy(heap, Roots[o], f) <=> ~Writer(heap, Roots, f)
      BY <3>2, <3>4 DEF Writer
    <3>11. LostData(heap, S) = LostData(heap, Roots) \cup F
      BY ONLY <3>7, <3>8, <3>9, <3>10 DEF LostData
    <3>12. MLost' = MLost \cup F
      BY <1>1, <3>1, <3>11, AbstractedNow, AbstractedNext DEF Abstracted
    <3>13. ~MRoot[slot]
      BY <1>3, <2>3 DEF MRoot
    <3>. QED
      BY <3>5, <3>6, <3>12, <3>13
  <2>. QED
    BY <2>2, <2>3
<1>. QED
  BY <1>1, <1>4, <1>5, <1>6, <1>7, <1>8
     DEF Memory!slot_unload_instance, MRoot, MTable, MSlot, MTlb, MLost

\* Swapping out implements SwapOut.
LEMMA SwapOutFlat ==
    ASSUME FlatInv, SwapOut
    PROVE  Memory!SwapOut("core")
<1>1. Running /\ slot_unload_instance /\ UNCHANGED life /\ (root_[slot] # Null \/ SwapBooted)
  BY DEF SwapOut
<1>2. slot \in Owner
  BY <1>1, InSlot DEF FlatInv
<1>3. Memory!slot_unload_instance("core")
  BY <1>1, UnloadFlat
<1>4. MSlot["core"] = slot /\ (MRoot[slot] \/ SwapBooted)
  BY <1>1, <1>2 DEF MSlot, MRoot
<1>. QED
  BY <1>1, <1>3, <1>4 DEF Memory!SwapOut, Memory!Running, Running, MRoot, MSlot

\* Halting implements Halt.
LEMMA HaltFlat ==
    ASSUME FlatInv, Halt
    PROVE  Memory!Halt("core")
<1>1. Running /\ slot_unload_instance /\ life' = [life EXCEPT ![slot] = "halted"]
  BY DEF Halt
<1>2. Memory!slot_unload_instance("core")
  BY <1>1, UnloadFlat
<1>. QED
  BY <1>1, <1>2 DEF Memory!Halt, Memory!Running, Running

\* A tree is freed, or there was none.
LEMMA FreeStepFlat ==
    ASSUME NEW h, NEW R, HeapInv(h, R), NEW o \in Owner, NEW g, HeapOK(g), NEW S,
           FreeStep(h, R, g, S, o), NEW F, \A f : f \in F <=> WriterBy(h, R[o], f)
    PROVE  /\ TablesFlat(g, S) = Put(TablesFlat(h, R), o, Memory!Empty)
           /\ g.data = h.data \ F /\ g.mem = h.mem
           /\ LostData(g, S) = LostData(h, R)
<1>1. HeapOK(h) /\ Forest(h, R) /\ \A p \in Page : p \in Addr
  BY PgTblAssumption DEF HeapInv
<1>2. S[o] = Null /\ \A q \in Owner : q # o => S[q] = R[q]
  BY DEF FreeStep, Rerooted
<1>3. /\ \A q \in Owner, p \in Page : q # o => Walk(g, S[q], p) = Walk(h, R[q], p)
      /\ g.data = h.data \ F /\ g.mem = h.mem
  <2>1. CASE R[o] = Null
    <3>1. g = h
      BY <2>1 DEF FreeStep
    <3>2. F = {}
      BY <1>1, <2>1, NullFlat
    <3>. QED
      BY <1>2, <3>1, <3>2
  <2>2. CASE R[o] # Null
    <3>1. /\ OthersSame(h, g, R, o) /\ g.mem = h.mem
          /\ g.data = h.data \ PagesOf(h, R[o], Addr)
      BY <2>2 DEF FreeStep, FreedTree
    <3>2. \A v \in Addr : Walk(h, R[o], v).rw => v \in Page
      <4>1. TAKE v \in Addr
      <4>2. Walk(h, R[o], v) = Absent \/ v \in Page
        BY <1>1, ForestWalk
      <4>3. ~Absent.rw
        BY DEF Absent
      <4>. QED
        BY <4>2, <4>3
    <3>3. PagesOf(h, R[o], Addr) = F
      BY <1>1, <3>2 DEF PagesOf, WriterBy
    <3>4. \A q \in Owner, p \in Page : q # o => Walk(g, R[q], p) = Walk(h, R[q], p)
      BY <1>1, <3>1 DEF OthersSame, SameWalk
    <3>. QED
      BY <1>2, <3>1, <3>3, <3>4
  <2>. QED
    BY <2>1, <2>2
<1>4. FlatWalk(g, S[o]) = Memory!Empty /\ \A f : ~WriterBy(g, S[o], f)
  BY <1>2, NullFlat
<1>5. TablesFlat(g, S) = Put(TablesFlat(h, R), o, Memory!Empty)
  <2>1. TablesFlat(g, S) = Put(TablesFlat(h, R), o, FlatWalk(g, S[o]))
    <3>1. OnlyOf(h, R, g, S, o)
      BY <1>3 DEF OnlyOf
    <3>. QED
      BY ONLY <3>1, o \in Owner, TablesPut
  <2>. QED
    BY ONLY <1>4, <2>1
<1>6. \A q \in Owner : \A f : q # o => (WriterBy(g, S[q], f) <=> WriterBy(h, R[q], f))
  BY <1>3 DEF WriterBy
<1>7. \A f : Writer(h, R, f) <=> Writer(g, S, f) \/ WriterBy(h, R[o], f)
  BY <1>4, <1>6 DEF Writer
<1>8. LostData(g, S) = LostData(h, R)
  BY <1>3, <1>7 DEF LostData
<1>. QED
  BY <1>3, <1>5, <1>8

\* Destruction implements Destroy.
LEMMA DestroyFlat ==
    ASSUME PgInv, NEW o \in Owner, Destroy(o)
    PROVE  Memory!Destroy(o)
<1>1. /\ FreeStep(heap, Roots, heap', Roots', o)
      /\ HeapInv(heap', Roots')
      /\ slot # o /\ Roots[o] = root_[o] /\ root_'[o] = Null
  BY DestroyEffect
<1>2. HeapInv(heap, Roots) /\ HeapOK(heap) /\ Forest(heap, Roots) /\ HeapOK(heap')
  BY <1>1, RootsAre DEF HeapInv
<1>3. PICK F : F = Memory!freePageTable(MTable[o])
  OBVIOUS
<1>4. \A q \in Owner : MTable[q] = FlatWalk(heap, Roots[q])
  BY TableIs DEF TablesFlat
<1>5. \A f : f \in F <=> WriterBy(heap, Roots[o], f)
  BY <1>2, <1>3, <1>4, MFreed
<1>6. PICK S, g : S = Roots' /\ g = heap'
  OBVIOUS
<1>7. /\ TablesFlat(g, S) = Put(TablesFlat(heap, Roots), o, Memory!Empty)
      /\ g.data = heap.data \ F /\ g.mem = heap.mem
      /\ LostData(g, S) = LostData(heap, Roots)
  BY <1>1, <1>2, <1>5, <1>6, FreeStepFlat
<1>8. MTable' = [MTable EXCEPT ![o] = Memory!Empty] /\ MLost' = MLost
  BY <1>6, <1>7, AbstractedNow, AbstractedNext DEF Abstracted, Put
<1>9. heap'.mem = heap.mem
      /\ heap'.data = IF MRoot[o] THEN heap.data \ F ELSE heap.data
  <2>1. MRoot[o] <=> Roots[o] # Null
    BY <1>1 DEF MRoot
  <2>2. Roots[o] = Null => heap' = heap
    BY <1>1 DEF FreeStep
  <2>. QED
    BY <1>6, <1>7, <2>1, <2>2
<1>10. MRoot' = [MRoot EXCEPT ![o] = FALSE]
  <2>1. root_ \in [Owner -> Frame \cup {Null}]
    BY DEF PgInv, TypeOK
  <2>2. root_'[o] = Null /\ \A q \in Owner : q # o => root_'[q] = root_[q]
    BY <2>1 DEF Destroy
  <2>. QED
    BY <2>2 DEF MRoot
<1>11. MSlot' = MSlot /\ MTlb' = MTlb
  BY DEF Destroy, MSlot, MTlb, NoTlb
<1>12. /\ life' = [life EXCEPT ![o] = "none"]
       /\ snap_addr' = [u \in Inst |-> IF u = o THEN "unset" ELSE snap_addr[u]]
  BY DEF Destroy
<1>13. ~InUse(o) => ~Memory!InUse(o)
  <2>. SUFFICES ASSUME Memory!InUse(o)
                PROVE  InUse(o)
    OBVIOUS
  <2>1. PICK q \in Owner \ {o}, p \in Page : MTable[q][p].frame \in F
    BY <1>3 DEF Memory!InUse, Memory!Owner, Owner, MTable
  <2>2. MTable[q][p].frame = Walk(heap, Roots[q], p).frame
    <3>1. MTable[q] = FlatWalk(heap, Roots[q])
      BY <1>4, <2>1
    <3>2. MTable[q][p] = Flat(Walk(heap, Roots[q], p))
      BY ONLY <3>1, p \in Page DEF FlatWalk
    <3>. QED
      BY ONLY <3>2 DEF Flat
  <2>3. PICK x \in Page : /\ Walk(heap, Roots[o], x).rw
                          /\ Walk(heap, Roots[o], x).frame = Walk(heap, Roots[q], p).frame
    BY <1>5, <2>1, <2>2 DEF WriterBy
  <2>4. Roots[o] = RootOf(o) /\ Roots[q] = RootOf(q)
    BY <2>1 DEF Roots
  <2>. QED
    BY <2>1, <2>3, <2>4 DEF InUse, Owned, Translation
<1>14. \/ o \in Inst /\ life[o] = "halted"
       \/ o \in Snap /\ life[o] = "live" /\ ~Memory!InUse(o)
  BY <1>13 DEF Destroy
<1>. QED
  BY <1>3, <1>8, <1>9, <1>10, <1>11, <1>12, <1>14
     DEF Memory!Destroy, MRoot, MTable, MSlot, MTlb, MLost

\* A page that was not writable is mapped.  Backing pages are new, or the image's.
FaultFlattened(h, R, o, p, rw, write, f, w, g, S) ==
    /\ TablesFlat(g, S) =
          Put(TablesFlat(h, R), o, Put(FlatWalk(h, R[o]), p, Memory!Entry(f, rw, write)))
    /\ g.data = h.data \cup ({f} \cap Frame)
    /\ \A x \in Frame \cup Elf : g.mem[x] = IF x = f THEN Contents(h, w, p) ELSE h.mem[x]
    /\ LostData(g, S) = LostData(h, R)
    /\ f \in IF p \in Writable THEN Frame \ h.data ELSE {p}

\* A page fault, as UmMemory has it.
LEMMA FaultStepFlat ==
    ASSUME NEW h, NEW R, HeapInv(h, R), ImageKept(h), NEW o \in Owner, NEW p \in Page,
           NEW w, w = Walk(h, R[o], p), ~w.rw, p \notin Writable => ~exists(w),
           NEW b, Backed(h, w, p, b), NEW f, f = b.page,
           NEW rw \in BOOLEAN, rw <=> p \in Writable, NEW write \in BOOLEAN,
           NEW e, e = Entry(f, rw, write), NEW k, k = b.heap,
           NEW m, NEW S, Mapped(k, R, o, p, e, m, S), Rerooted(R, S, o, m.root),
           NEW g, g = m.heap
    PROVE  FaultFlattened(h, R, o, p, rw, write, f, w, g, S)
<1>1. HeapOK(h) /\ Forest(h, R) /\ \A x \in Page : x \in Addr
  BY PgTblAssumption DEF HeapInv
<1>2. w \in Pte
  BY <1>1, ForestWalk
<1>3. HeapInv(k, R) /\ f \in Frame \cup Elf /\ k.tables = h.tables
  BY <1>2, BackedOK
<1>4. \A r, v : Walk(k, r, v) = Walk(h, r, v)
  BY ONLY <1>3, DataOnly
<1>5. /\ OthersSame(k, g, R, o) /\ g.data = k.data /\ g.mem = k.mem
      /\ \A x \in Addr : Walk(g, S[o], x) = IF x = p THEN e ELSE Walk(k, R[o], x)
  BY DEF Mapped, TreeGrew, Rerooted
<1>6. \A q \in Owner : q # o => S[q] = R[q]
  BY DEF Rerooted
<1>7. \A q \in Owner, x \in Page : q # o => Walk(g, S[q], x) = Walk(h, R[q], x)
  BY <1>1, <1>4, <1>5, <1>6 DEF OthersSame, SameWalk
<1>8. \A x \in Page : Walk(g, S[o], x) = IF x = p THEN e ELSE Walk(h, R[o], x)
  BY <1>1, <1>4, <1>5
<1>9. Flat(e) = Memory!Entry(f, rw, write) /\ e.rw = rw /\ e.frame = f
  BY DEF Flat, Entry, Memory!Entry
<1>10. FlatWalk(g, S[o]) = Put(FlatWalk(h, R[o]), p, Memory!Entry(f, rw, write))
  BY <1>8, <1>9 DEF FlatWalk, Put
<1>11. TablesFlat(g, S) = Put(TablesFlat(h, R), o, FlatWalk(g, S[o]))
  <2>1. OnlyOf(h, R, g, S, o)
    BY <1>7 DEF OnlyOf
  <2>. QED
    BY ONLY <2>1, o \in Owner, TablesPut
<1>12. p \notin Writable => f = p /\ k = h /\ f \notin Frame
  BY PgTblAssumption DEF Backed
<1>13. PICK val : val = Contents(h, w, p)
  OBVIOUS
<1>14. val \in Val
  BY <1>1, <1>2, <1>13, ContentsType
<1>15. p \in Writable => /\ f \in Frame /\ f \notin h.data
                         /\ k.data = h.data \cup {f} /\ k.mem[f] = val
                         /\ \A x \in Frame \cup Elf : x # f => k.mem[x] = h.mem[x]
  <2>. SUFFICES ASSUME p \in Writable
                PROVE  /\ f \in Frame /\ f \notin h.data
                       /\ k.data = h.data \cup {f} /\ k.mem[f] = val
                       /\ \A x \in Frame \cup Elf : x # f => k.mem[x] = h.mem[x]
    OBVIOUS
  <2>1. f \in Frame /\ f \notin Tabs(h) /\ f \notin h.data /\ k = CopiedPage(h, f, val)
    BY <1>13 DEF Backed
  <2>. QED
    BY ONLY <1>1, <1>14, <2>1, CopiedPageEffect
<1>16. g.data = h.data \cup ({f} \cap Frame)
  BY <1>5, <1>12, <1>15
<1>17. \A x \in Frame \cup Elf : g.mem[x] = IF x = f THEN val ELSE h.mem[x]
  <2>1. CASE p \in Writable
    BY <1>5, <1>15, <2>1
  <2>2. CASE p \notin Writable
    <3>1. val = h.mem[p]
      BY <1>13, <2>2 DEF Contents, ImageKept, Elf
    <3>. QED
      BY <1>5, <1>12, <2>2, <3>1
  <2>. QED
    BY <2>1, <2>2
<1>18. LostData(g, S) = LostData(h, R)
  <2>1. \A q \in Owner : \A x : q # o => (WriterBy(g, S[q], x) <=> WriterBy(h, R[q], x))
    BY <1>7 DEF WriterBy
  <2>2. \A x : WriterBy(g, S[o], x) <=> WriterBy(h, R[o], x) \/ (rw /\ x = f)
    BY <1>8, <1>9 DEF WriterBy
  <2>3. \A x : Writer(g, S, x) <=> Writer(h, R, x) \/ (rw /\ x = f)
    BY <2>1, <2>2 DEF Writer
  <2>4. ~rw => f \notin Frame
    BY <1>12
  <2>5. rw => f \notin h.data
    BY <1>15
  <2>6. \A x \in g.data : x \in h.data \/ (rw /\ x = f)
    BY <1>16, <2>4
  <2>7. h.data \subseteq g.data
    BY <1>16
  <2>. QED
    BY ONLY <2>3, <2>5, <2>6, <2>7 DEF LostData
<1>19. f \in IF p \in Writable THEN Frame \ h.data ELSE {p}
  BY <1>12, <1>15
<1>. QED
  BY <1>10, <1>11, <1>13, <1>16, <1>17, <1>18, <1>19 DEF FaultFlattened

\* A page fault implements PageFault.
LEMMA FaultFlat ==
    ASSUME FlatInv, NEW p \in Page, NEW write \in BOOLEAN, PageFault(p, write)
    PROVE  Memory!PageFault("core", p, write)
<1>1. PgInv /\ HeapInv(heap, Roots) /\ HeapOK(heap) /\ ImageKept(heap)
  BY RootsAre DEF FlatInv
<1>2. PICK rw \in BOOLEAN : rw = (p \in Writable)
  <2>1. (p \in Writable) \in BOOLEAN
    OBVIOUS
  <2>. QED
    BY ONLY <2>1, Zenon
<1>3. /\ FaultStep(heap, Roots, slot, p, rw, write, heap', Roots')
      /\ HeapInv(heap', Roots') /\ slot \in Owner
  BY <1>1, <1>2, FaultEffect
<1>4. /\ Running /\ UNCHANGED <<life, root_, snap_addr, slot>>
      /\ write => p \in Writable
  BY DEF PageFault
<1>5. PICK w : w = Walk(heap, Roots[slot], p)
  OBVIOUS
<1>6. ~exists(w) \/ (write /\ ~w.rw)
  BY <1>3, <1>5 DEF PageFault, Translation, Roots
<1>7. ~w.rw /\ (p \notin Writable => ~exists(w))
  <2>1. w = Absent \/ exists(w)
    BY <1>1, <1>3, <1>5, PgTblAssumption, ForestWalk DEF HeapInv
  <2>2. ~Absent.rw
    BY DEF Absent
  <2>. QED
    BY <1>4, <1>6, <2>1, <2>2
<1>8. PICK g, S : g = heap' /\ S = Roots'
  OBVIOUS
<1>9. PICK b, m : /\ Backed(heap, w, p, b)
                  /\ g = m.heap
                  /\ Mapped(b.heap, Roots, slot, p, Entry(b.page, rw, write), m, S)
                  /\ Rerooted(Roots, S, slot, m.root)
  BY <1>3, <1>5, <1>8 DEF FaultStep
<1>10. PICK f, e, k : f = b.page /\ e = Entry(f, rw, write) /\ k = b.heap
  OBVIOUS
<1>11. FaultFlattened(heap, Roots, slot, p, rw, write, f, w, g, S)
  <2>1. Mapped(k, Roots, slot, p, e, m, S)
    BY <1>9, <1>10
  <2>2. rw <=> p \in Writable
    BY <1>2
  <2>. QED
    BY ONLY <1>1, <1>3, <1>5, <1>7, <1>9, <1>10, <2>1, <2>2, FaultStepFlat,
            p \in Page, rw \in BOOLEAN, write \in BOOLEAN
<1>12. PICK t : t = Flat(w)
  OBVIOUS
<1>13. /\ MTable[slot] = FlatWalk(heap, Roots[slot]) /\ MTable[slot][p] = t
       /\ Memory!Translation("core", p) = t
  BY <1>1, <1>4, <1>5, <1>12, MTranslation
<1>14. t.frame = w.frame /\ t.rw = w.rw
  BY <1>12 DEF Flat
<1>15. MTable' = [MTable EXCEPT ![slot] = [MTable[slot] EXCEPT ![p] = Memory!Entry(f, rw, write)]]
  BY <1>8, <1>11, <1>13, AbstractedNow, AbstractedNext DEF FaultFlattened, Abstracted, Put
<1>16. MLost' = MLost /\ heap'.data = heap.data \cup ({f} \cap Frame)
  BY <1>8, <1>11, AbstractedNow, AbstractedNext DEF FaultFlattened, Abstracted
<1>17. f \in Memory!BackingFrames(p)
  BY <1>11 DEF FaultFlattened, Memory!BackingFrames
<1>18. Memory!BackingContent("core", p) = Contents(heap, w, p)
  BY <1>13, <1>14 DEF Memory!BackingContent, Contents, exists, Memory!exists
<1>19. heap'.mem = [x \in DOMAIN heap.mem |-> IF x = f THEN Memory!BackingContent("core", p)
                                             ELSE heap.mem[x]]
  <2>1. heap.mem \in [Frame \cup Elf -> Val] /\ heap'.mem \in [Frame \cup Elf -> Val]
    BY <1>1, <1>3 DEF HeapInv, HeapOK
  <2>2. \A x \in Frame \cup Elf : heap'.mem[x] = IF x = f THEN Memory!BackingContent("core", p)
                                                 ELSE heap.mem[x]
    BY <1>8, <1>11, <1>18 DEF FaultFlattened
  <2>. QED
    BY ONLY <2>1, <2>2
<1>20. MTlb' = MTlb /\ Memory!FlushedPage("core", p) = MTlb
  BY DEF MTlb, NoTlb, Memory!FlushedPage, Memory!Absent, Memory!Entry
<1>21. MRoot' = MRoot /\ MSlot' = MSlot /\ MSlot["core"] = slot
  BY <1>4 DEF MRoot, MSlot
<1>22. Memory!Running("core")
  BY <1>4 DEF Memory!Running, Running
<1>23. ~Memory!exists(t) \/ (write /\ ~t.rw)
  BY <1>6, <1>14 DEF exists, Memory!exists
<1>24. MTable' = [MTable EXCEPT ![slot] =
                    Memory!mapIntoPgTbl(MTable[slot], p, Memory!Entry(f, p \in Writable, write))]
  BY ONLY <1>2, <1>15 DEF Memory!mapIntoPgTbl
<1>25. MTlb' = IF Memory!exists(t) THEN Memory!FlushedPage("core", p) ELSE MTlb
  BY ONLY <1>20
<1>. QED
  BY ONLY <1>4, <1>13, <1>16, <1>17, <1>19, <1>21, <1>22, <1>23, <1>24, <1>25
     DEF Memory!PageFault, MRoot, MTable, MSlot, MTlb, MLost

\* A table is copied.
CopyFlattened(h, R, src, u, deep, g, S) ==
    /\ TablesFlat(g, S) = Put(TablesFlat(h, R), u, FlatWalk(g, S[u]))
    /\ \A p \in Page : EntryCopied(h, g, Walk(h, R[src], p), Walk(g, S[u], p), deep)
    /\ S[u] # Null <=> \E p \in Page : Walk(h, R[src], p).dirty
    /\ h.data \subseteq g.data
    /\ \A f \in g.data : f \in h.data \/ \E p \in PagesCopied(h, R[src], deep, Page) :
                                            Walk(g, S[u], p).frame = f
    /\ \A p, q \in PagesCopied(h, R[src], deep, Page) :
          Walk(g, S[u], p).frame = Walk(g, S[u], q).frame => p = q
    /\ \A f \in Frame \cup Elf : f \in h.data \/ f \notin g.data => g.mem[f] = h.mem[f]
    /\ LostData(g, S) = LostData(h, R)

\* What may be written in a copy is what was copied.
LEMMA CopiedWriters ==
    ASSUME NEW h, NEW g, NEW r, NEW s, NEW deep,
           \A p \in Page : EntryCopied(h, g, Walk(h, r, p), Walk(g, s, p), deep), NEW f
    PROVE  /\ WriterBy(g, s, f) <=> \E p \in PagesCopied(h, r, deep, Page) : Walk(g, s, p).frame = f
           /\ WriterBy(g, s, f) => f \in g.data \ h.data
<1>1. ASSUME NEW p \in Page
      PROVE  /\ Walk(g, s, p).rw <=> p \in PagesCopied(h, r, deep, Page)
             /\ Walk(g, s, p).rw => Walk(g, s, p).frame \in g.data \ h.data
  <2>1. PICK w, e, x : w = Walk(h, r, p) /\ e = Walk(g, s, p) /\ x = e.frame
    OBVIOUS
  <2>2. EntryCopied(h, g, w, e, deep)
    BY <2>1
  <2>3. ~Absent.rw /\ ~Entry(w.frame, FALSE, TRUE).rw /\ Entry(x, TRUE, TRUE).rw
    BY DEF Absent, Entry
  <2>4. e.rw <=> deep /\ w.dirty /\ w.rw
    BY <2>1, <2>2, <2>3 DEF EntryCopied
  <2>5. e.rw => x \in g.data \ h.data
    BY ONLY <2>1, <2>2, <2>4 DEF EntryCopied
  <2>. QED
    BY <2>1, <2>4, <2>5 DEF PagesCopied
<1>. QED
  BY <1>1 DEF WriterBy, PagesCopied

\* A copied table, as UmMemory has it.
LEMMA CopyStepFlat ==
    ASSUME NEW h, NEW R, HeapInv(h, R), NEW src, NEW u, NEW deep, NEW g, NEW S,
           CopyStep(h, R, src, u, deep, g, S)
    PROVE  CopyFlattened(h, R, src, u, deep, g, S)
<1>1. SourceOK(h, R, src, u) /\ HeapOK(h) /\ Forest(h, R) /\ \A x \in Page : x \in Addr
  BY PgTblAssumption DEF HeapInv, CopyStep
<1>2. PICK c : g = c.heap /\ Copied(h, R, src, u, deep, c, Addr) /\ Rerooted(R, S, u, c.root)
  BY DEF CopyStep
<1>3. u \in Owner /\ src \in Owner /\ R[u] = Null
  BY <1>1 DEF SourceOK
<1>4. S[u] = c.root /\ \A q \in Owner : q # u => S[q] = R[q]
  BY <1>2 DEF Rerooted
<1>5. /\ HeapOK(g) /\ OthersSame(h, g, R, u)
      /\ h.data \subseteq g.data
      /\ S[u] # Null => \E v \in Addr : Walk(h, R[src], v).dirty
      /\ \A f \in Frame \cup Elf : f \in h.data \/ f \notin g.data => g.mem[f] = h.mem[f]
  BY ONLY <1>2, <1>4 DEF Copied
<1>6. \A v \in Addr : EntryCopied(h, g, Walk(h, R[src], v), Walk(g, S[u], v), deep)
  BY ONLY <1>2, <1>4 DEF Copied
<1>7. /\ \A f \in g.data : f \in h.data \/ \E v \in PagesCopied(h, R[src], deep, Addr) :
                                              Walk(g, S[u], v).frame = f
      /\ \A v, w \in PagesCopied(h, R[src], deep, Addr) :
            Walk(g, S[u], v).frame = Walk(g, S[u], w).frame => v = w
  BY ONLY <1>2, <1>4 DEF Copied
<1>8. \A v \in Addr : Walk(h, R[src], v).dirty => v \in Page
  BY <1>1, DirtyEntry
<1>9. PagesCopied(h, R[src], deep, Addr) = PagesCopied(h, R[src], deep, Page)
  BY <1>1, <1>8 DEF PagesCopied
<1>10. \A p \in Page : EntryCopied(h, g, Walk(h, R[src], p), Walk(g, S[u], p), deep)
  BY <1>1, <1>6
<1>11. S[u] # Null <=> \E p \in Page : Walk(h, R[src], p).dirty
  <2>1. ASSUME NEW p \in Page, Walk(h, R[src], p).dirty, S[u] = Null
        PROVE  FALSE
    <3>1. PICK w, e : w = Walk(h, R[src], p) /\ e = Walk(g, S[u], p)
      OBVIOUS
    <3>2. EntryCopied(h, g, w, e, deep) /\ w.dirty
      BY <1>10, <2>1, <3>1
    <3>3. e = Absent
      BY <1>1, <1>5, <2>1, <3>1, NoTree
    <3>4. ~Absent.dirty /\ Entry(w.frame, FALSE, TRUE).dirty /\ Entry(e.frame, TRUE, TRUE).dirty
      BY DEF Absent, Entry
    <3>. QED
      BY <3>2, <3>3, <3>4 DEF EntryCopied
  <2>. QED
    BY <1>5, <1>8, <2>1
<1>12. OnlyOf(h, R, g, S, u)
  BY <1>1, <1>4, <1>5 DEF OnlyOf, OthersSame, SameWalk
<1>13. TablesFlat(g, S) = Put(TablesFlat(h, R), u, FlatWalk(g, S[u]))
  BY <1>3, <1>12, TablesPut
<1>14. LostData(g, S) = LostData(h, R)
  <2>1. \A q \in Owner : \A x : q # u => (WriterBy(g, S[q], x) <=> WriterBy(h, R[q], x))
    BY <1>12 DEF OnlyOf, WriterBy
  <2>2. \A x : ~WriterBy(h, R[u], x)
    BY <1>1, <1>3, NullFlat
  <2>3. PICK s : s = S[u]
    OBVIOUS
  <2>4. PICK r : r = R[src]
    OBVIOUS
  <2>5. \A p \in Page : EntryCopied(h, g, Walk(h, r, p), Walk(g, s, p), deep)
    BY <1>10, <2>3, <2>4
  <2>6. \A x : /\ WriterBy(g, s, x) <=> \E p \in PagesCopied(h, r, deep, Page) : Walk(g, s, p).frame = x
               /\ WriterBy(g, s, x) => x \in g.data \ h.data
    BY <2>5, CopiedWriters
  <2>7. \A x : Writer(g, S, x) <=> Writer(h, R, x) \/ WriterBy(g, s, x)
    BY <1>3, <2>1, <2>2, <2>3 DEF Writer
  <2>8. \A x \in g.data : x \in h.data \/ WriterBy(g, s, x)
    BY <1>7, <1>9, <2>3, <2>4, <2>6
  <2>. QED
    BY <1>5, <2>6, <2>7, <2>8 DEF LostData
<1>. QED
  BY <1>5, <1>7, <1>9, <1>10, <1>11, <1>13, <1>14 DEF CopyFlattened

\* An entry of the copy, as UmMemory has it.
FlatCopied(w, e, deep) ==
    /\ ~w.dirty => Flat(e) = Memory!Absent
    /\ w.dirty /\ deep /\ w.rw => Flat(e) = Memory!Entry(e.frame, TRUE, TRUE)
    /\ w.dirty /\ ~(deep /\ w.rw) => Flat(e) = Memory!Entry(w.frame, FALSE, TRUE)

\* The three cases of an entry.
LEMMA CopiedFlat ==
    ASSUME NEW h, NEW g, NEW w, NEW e, NEW deep, EntryCopied(h, g, w, e, deep)
    PROVE  FlatCopied(w, e, deep)
<1>1. Flat(Absent) = Memory!Absent
  BY DEF Flat, Absent, Memory!Absent, Memory!Entry
<1>2. \A f : Flat(Entry(f, TRUE, TRUE)) = Memory!Entry(f, TRUE, TRUE)
  BY DEF Flat, Entry, Memory!Entry
<1>3. \A f : Flat(Entry(f, FALSE, TRUE)) = Memory!Entry(f, FALSE, TRUE)
  BY DEF Flat, Entry, Memory!Entry
<1>4. CASE ~w.dirty
  BY <1>1, <1>4 DEF EntryCopied, FlatCopied
<1>5. CASE w.dirty /\ deep /\ w.rw
  <2>1. PICK f : f = e.frame
    OBVIOUS
  <2>2. e = Entry(f, TRUE, TRUE)
    BY <1>5, <2>1 DEF EntryCopied
  <2>3. Flat(e) = Memory!Entry(f, TRUE, TRUE)
    BY ONLY <1>2, <2>2
  <2>. QED
    BY ONLY <1>5, <2>1, <2>3 DEF FlatCopied
<1>6. CASE w.dirty /\ ~(deep /\ w.rw)
  <2>1. e = Entry(w.frame, FALSE, TRUE)
    BY <1>6 DEF EntryCopied
  <2>. QED
    BY ONLY <1>3, <1>6, <2>1 DEF FlatCopied
<1>. QED
  BY <1>4, <1>5, <1>6

\* The copy for an instance, as UmMemory has it.
LEMMA SharedFlat ==
    ASSUME NEW h, HeapOK(h), NEW R, NEW src, NEW u, NEW deep, ~deep, NEW g, HeapOK(g), NEW S,
           CopyFlattened(h, R, src, u, deep, g, S), NEW t, t = FlatWalk(h, R[src])
    PROVE  /\ FlatWalk(g, S[u]) = Memory!walkPgTblCOW(t)
           /\ g.data = h.data /\ g.mem = h.mem
           /\ S[u] # Null <=> \E p \in Page : t[p].dirty
<1>1. ASSUME NEW p \in Page
      PROVE  Flat(Walk(g, S[u], p)) = IF t[p].dirty THEN Memory!findAndSetPTECOW(t[p])
                                      ELSE Memory!Absent
  <2>1. PICK w, e : w = Walk(h, R[src], p) /\ e = Walk(g, S[u], p)
    OBVIOUS
  <2>2. EntryCopied(h, g, w, e, deep)
    BY <2>1 DEF CopyFlattened
  <2>3. PICK a : a = t[p]
    OBVIOUS
  <2>4. a = Flat(w)
    BY <2>1, <2>3 DEF FlatWalk
  <2>5. a.frame = w.frame /\ a.dirty = w.dirty
    BY <2>4 DEF Flat
  <2>6. Memory!findAndSetPTECOW(a) = Memory!Entry(w.frame, FALSE, TRUE)
    BY <2>5 DEF Memory!findAndSetPTECOW
  <2>7. FlatCopied(w, e, deep)
    BY ONLY <2>2, CopiedFlat
  <2>8. /\ ~w.dirty => Flat(e) = Memory!Absent
        /\ w.dirty => Flat(e) = Memory!Entry(w.frame, FALSE, TRUE)
    BY ONLY ~deep, <2>7 DEF FlatCopied
  <2>. QED
    BY ONLY <2>1, <2>3, <2>5, <2>6, <2>8
<1>2. FlatWalk(g, S[u]) = Memory!walkPgTblCOW(t)
  BY <1>1 DEF FlatWalk, Memory!walkPgTblCOW
<1>3. PagesCopied(h, R[src], deep, Page) = {}
  BY DEF PagesCopied
<1>4. g.data = h.data
  BY <1>3 DEF CopyFlattened
<1>5. g.mem = h.mem
  <2>1. h.mem \in [Frame \cup Elf -> Val] /\ g.mem \in [Frame \cup Elf -> Val]
    BY DEF HeapOK
  <2>2. \A f \in Frame \cup Elf : g.mem[f] = h.mem[f]
    BY <1>4 DEF CopyFlattened
  <2>. QED
    BY ONLY <2>1, <2>2
<1>6. \A p \in Page : t[p].dirty <=> Walk(h, R[src], p).dirty
  BY DEF FlatWalk, Flat
<1>. QED
  BY <1>2, <1>4, <1>5, <1>6 DEF CopyFlattened

\* Deploying implements Deploy.
LEMMA DeployFlat ==
    ASSUME PgInv, NEW u \in Inst, NEW s \in Snap, Deploy(u, s)
    PROVE  Memory!Deploy(u, s)
<1>1. PICK deep \in BOOLEAN : deep = FALSE
  OBVIOUS
<1>2. PICK g, S, t : g = heap' /\ S = Roots' /\ t = MTable[s]
  OBVIOUS
<1>3. /\ CopyStep(heap, Roots, s, u, deep, g, S)
      /\ HeapInv(g, S) /\ slot # u /\ root_'[u] = S[u]
  BY <1>1, <1>2, DeployEffect
<1>4. HeapInv(heap, Roots) /\ HeapOK(heap) /\ HeapOK(g) /\ s \in Owner /\ u \in Owner
  BY <1>3, RootsAre DEF HeapInv, Owner
<1>5. CopyFlattened(heap, Roots, s, u, deep, g, S)
  BY <1>3, <1>4, CopyStepFlat
<1>6. t = FlatWalk(heap, Roots[s])
  BY <1>2, <1>4, TableIs DEF TablesFlat
<1>7. /\ FlatWalk(g, S[u]) = Memory!walkPgTblCOW(t)
      /\ g.data = heap.data /\ g.mem = heap.mem
      /\ S[u] # Null <=> \E p \in Page : t[p].dirty
  BY <1>1, <1>4, <1>5, <1>6, SharedFlat
<1>8. MTable' = [MTable EXCEPT ![u] = Memory!walkPgTblCOW(MTable[s])] /\ MLost' = MLost
  BY <1>2, <1>5, <1>7, AbstractedNow, AbstractedNext DEF Abstracted, CopyFlattened, Put
<1>9. PICK b \in BOOLEAN : b = \E p \in Page : t[p].dirty
  <2>1. (\E p \in Page : t[p].dirty) \in BOOLEAN
    OBVIOUS
  <2>. QED
    BY ONLY <2>1, Zenon
<1>10. MRoot' = Put(MRoot, u, b)
  <2>1. root_ \in [Owner -> Frame \cup {Null}]
    BY DEF PgInv, TypeOK
  <2>2. \A q \in Owner : q # u => root_'[q] = root_[q]
    BY <2>1 DEF Deploy
  <2>3. (root_'[u] # Null) <=> b
    BY <1>3, <1>7, <1>9
  <2>. QED
    BY <1>4, <2>2, <2>3, RootPut
<1>11. MRoot' = [MRoot EXCEPT ![u] = \E p \in Page : MTable[s][p].dirty]
  BY <1>2, <1>9, <1>10 DEF Put
<1>12. /\ life[u] = "none" /\ life[s] = "live" /\ life' = [life EXCEPT ![u] = "live"]
       /\ UNCHANGED <<pml4, snap_addr, slot>>
  BY DEF Deploy
<1>13. MSlot' = MSlot /\ MTlb' = MTlb
  BY <1>12 DEF MSlot, MTlb, NoTlb
<1>14. heap'.data = heap.data /\ heap'.mem = heap.mem
  BY <1>2, <1>7
<1>. QED
  BY <1>8, <1>11, <1>12, <1>13, <1>14
     DEF Memory!Deploy, MRoot, MTable, MSlot, MTlb, MLost

\* The copy for a checkpoint, as UmMemory has it: the pages copied to are fresh.
ClonedMem(h, t, fresh) ==
    [f \in DOMAIN h.mem |->
        IF \E p \in Memory!ToCopy(t) : fresh[p] = f
        THEN h.mem[t[CHOOSE p \in Memory!ToCopy(t) : fresh[p] = f].frame]
        ELSE h.mem[f]]
Cloned(h, t, fresh, g, s) ==
    /\ fresh \in [Memory!ToCopy(t) -> Frame \ h.data]
    /\ \A p, q \in Memory!ToCopy(t) : fresh[p] = fresh[q] => p = q
    /\ FlatWalk(g, s) = Memory!walkPgTblCopyDirtyCOW(t, fresh)
    /\ g.data = h.data \cup {fresh[p] : p \in Memory!ToCopy(t)}
    /\ g.mem = ClonedMem(h, t, fresh)

\* The fresh pages are those that the walk has allocated.
LEMMA ClonedFlat ==
    ASSUME NEW h, HeapOK(h), NEW R, NEW src, NEW u, NEW deep, deep, NEW g, HeapOK(g), NEW S,
           CopyFlattened(h, R, src, u, deep, g, S), NEW t, t = FlatWalk(h, R[src])
    PROVE  \E fresh : Cloned(h, t, fresh, g, S[u])
<1>1. PICK s, T : s = S[u] /\ T = Memory!ToCopy(t)
  OBVIOUS
<1>2. PICK fresh : fresh = [p \in T |-> Walk(g, s, p).frame]
  OBVIOUS
<1>3. \A p \in Page : /\ t[p].frame = Walk(h, R[src], p).frame
                      /\ t[p].rw = Walk(h, R[src], p).rw
                      /\ t[p].dirty = Walk(h, R[src], p).dirty
  BY DEF FlatWalk, Flat
<1>4. T = PagesCopied(h, R[src], deep, Page)
  BY <1>1, <1>3 DEF Memory!ToCopy, PagesCopied
<1>5. \A p \in T : p \in Page /\ fresh[p] = Walk(g, s, p).frame
  BY <1>2, <1>4 DEF PagesCopied
<1>6. \A p \in Page : EntryCopied(h, g, Walk(h, R[src], p), Walk(g, s, p), deep)
  BY <1>1 DEF CopyFlattened
<1>7. ASSUME NEW p \in T
      PROVE  /\ fresh[p] \in g.data /\ fresh[p] \notin h.data
             /\ g.mem[fresh[p]] = h.mem[t[p].frame]
  <2>1. PICK w, e : w = Walk(h, R[src], p) /\ e = Walk(g, s, p)
    OBVIOUS
  <2>2. EntryCopied(h, g, w, e, deep) /\ w.dirty /\ w.rw
    BY <1>4, <1>5, <1>6, <2>1 DEF PagesCopied
  <2>3. e.frame \in g.data \ h.data /\ g.mem[e.frame] = h.mem[w.frame]
    BY ONLY deep, <2>2 DEF EntryCopied
  <2>. QED
    BY <1>3, <1>5, <2>1, <2>3
<1>8. fresh \in [T -> Frame \ h.data]
  <2>1. g.data \subseteq Frame
    BY DEF HeapOK
  <2>. QED
    BY ONLY <1>2, <1>5, <1>7, <2>1
<1>9. \A p, q \in T : fresh[p] = fresh[q] => p = q
  <2>1. \A p, q \in T : Walk(g, s, p).frame = Walk(g, s, q).frame => p = q
    BY <1>1, <1>4 DEF CopyFlattened
  <2>. QED
    BY ONLY <1>5, <2>1
<1>10. FlatWalk(g, s) = Memory!walkPgTblCopyDirtyCOW(t, fresh)
  <2>1. ASSUME NEW p \in Page
        PROVE  Flat(Walk(g, s, p)) = IF p \in T THEN Memory!Entry(fresh[p], TRUE, TRUE)
                                     ELSE IF t[p].dirty THEN Memory!findAndSetPTECOW(t[p])
                                     ELSE Memory!Absent
    <3>1. PICK w, e, a : w = Walk(h, R[src], p) /\ e = Walk(g, s, p) /\ a = t[p]
      OBVIOUS
    <3>2. EntryCopied(h, g, w, e, deep)
      BY <1>6, <3>1
    <3>3. FlatCopied(w, e, deep)
      BY ONLY <3>2, CopiedFlat
    <3>4. a.frame = w.frame /\ a.dirty = w.dirty /\ (p \in T <=> w.dirty /\ w.rw)
      BY <1>3, <1>4, <3>1 DEF PagesCopied
    <3>5. Memory!findAndSetPTECOW(a) = Memory!Entry(w.frame, FALSE, TRUE)
      BY <3>4 DEF Memory!findAndSetPTECOW
    <3>6. p \in T => fresh[p] = e.frame
      BY <1>5, <3>1
    <3>7. CASE p \in T
      <4>1. PICK f : f = e.frame
        OBVIOUS
      <4>2. Flat(e) = Memory!Entry(f, TRUE, TRUE)
        BY ONLY deep, <3>3, <3>4, <3>7, <4>1 DEF FlatCopied
      <4>3. fresh[p] = f
        BY ONLY <3>6, <3>7, <4>1
      <4>. QED
        BY ONLY <3>1, <3>7, <4>2, <4>3
    <3>8. CASE p \notin T
      <4>1. /\ ~w.dirty => Flat(e) = Memory!Absent
            /\ w.dirty => Flat(e) = Memory!Entry(w.frame, FALSE, TRUE)
        BY ONLY <3>3, <3>4, <3>8 DEF FlatCopied
      <4>. QED
        BY ONLY <3>1, <3>4, <3>5, <3>8, <4>1
    <3>. QED
      BY ONLY <3>7, <3>8
  <2>. QED
    BY <1>1, <2>1 DEF FlatWalk, Memory!walkPgTblCopyDirtyCOW
<1>11. g.data = h.data \cup {fresh[p] : p \in T}
  <2>1. \A f \in g.data : f \in h.data \/ \E p \in T : Walk(g, s, p).frame = f
    BY <1>1, <1>4 DEF CopyFlattened
  <2>2. h.data \subseteq g.data
    BY DEF CopyFlattened
  <2>. QED
    BY ONLY <1>5, <1>7, <2>1, <2>2
<1>12. g.mem = ClonedMem(h, t, fresh)
  <2>1. h.mem \in [Frame \cup Elf -> Val] /\ g.mem \in [Frame \cup Elf -> Val]
    BY DEF HeapOK
  <2>2. ASSUME NEW f \in Frame \cup Elf, NEW q \in T, fresh[q] = f
        PROVE  g.mem[f] = h.mem[t[CHOOSE p \in T : fresh[p] = f].frame]
    <3>1. PICK x : x = CHOOSE p \in T : fresh[p] = f
      OBVIOUS
    <3>2. x \in T /\ fresh[x] = f
      BY ONLY <2>2, <3>1
    <3>3. g.mem[f] = h.mem[t[x].frame]
      BY ONLY <1>7, <3>2
    <3>. QED
      BY ONLY <3>1, <3>3
  <2>3. ASSUME NEW f \in Frame \cup Elf, \A q \in T : fresh[q] # f
        PROVE  g.mem[f] = h.mem[f]
    <3>1. f \in h.data \/ f \notin g.data
      BY <1>11, <2>3
    <3>. QED
      BY ONLY <3>1, f \in Frame \cup Elf, CopyFlattened(h, R, src, u, deep, g, S)
         DEF CopyFlattened
  <2>4. ClonedMem(h, t, fresh) =
          [f \in DOMAIN h.mem |-> IF \E p \in T : fresh[p] = f
                                  THEN h.mem[t[CHOOSE p \in T : fresh[p] = f].frame]
                                  ELSE h.mem[f]]
    BY ONLY <1>1, Zenon DEF ClonedMem
  <2>5. ASSUME NEW f \in Frame \cup Elf
        PROVE  g.mem[f] = IF \E p \in T : fresh[p] = f
                          THEN h.mem[t[CHOOSE p \in T : fresh[p] = f].frame]
                          ELSE h.mem[f]
    BY ONLY <2>2, <2>3, f \in Frame \cup Elf
  <2>. QED
    BY ONLY <2>1, <2>4, <2>5
<1>. QED
  BY ONLY <1>1, <1>8, <1>9, <1>10, <1>11, <1>12 DEF Cloned

\* A checkpoint implements Checkpoint.
LEMMA CheckpointFlat ==
    ASSUME PgInv, NEW s \in Snap, Checkpoint(s)
    PROVE  Memory!Checkpoint("core", s)
<1>1. PICK deep \in BOOLEAN : deep = TRUE
  OBVIOUS
<1>2. PICK g, S, t : g = heap' /\ S = Roots' /\ t = MTable[slot]
  OBVIOUS
<1>3. /\ CopyStep(heap, Roots, slot, s, deep, g, S)
      /\ HeapInv(g, S) /\ root_'[s] # Null
  BY <1>1, <1>2, CheckpointEffect
<1>4. /\ Running /\ snap_addr[slot] = "set" /\ life[s] = "none"
      /\ snap_addr' = [snap_addr EXCEPT ![slot] = "taken"]
      /\ life' = [life EXCEPT ![s] = "live"]
      /\ UNCHANGED <<pml4, slot>>
  BY DEF Checkpoint
<1>5. HeapInv(heap, Roots) /\ HeapOK(heap) /\ HeapOK(g) /\ s \in Owner /\ slot \in Owner
  BY <1>3, <1>4, RootsAre, InSlot DEF HeapInv, Owner
<1>6. CopyFlattened(heap, Roots, slot, s, deep, g, S)
  BY <1>3, <1>5, CopyStepFlat
<1>7. t = FlatWalk(heap, Roots[slot])
  BY <1>2, <1>5, TableIs DEF TablesFlat
<1>8. PICK fresh : Cloned(heap, t, fresh, g, S[s])
  BY ONLY <1>1, <1>5, <1>6, <1>7, ClonedFlat
<1>9. MTable' = [MTable EXCEPT ![s] = Memory!walkPgTblCopyDirtyCOW(t, fresh)] /\ MLost' = MLost
  BY <1>2, <1>6, <1>8, AbstractedNow, AbstractedNext DEF Abstracted, CopyFlattened, Cloned, Put
<1>10. heap'.mem = Memory!copyDirtyPages(t, fresh)
  BY <1>2, <1>8 DEF Cloned, ClonedMem, Memory!copyDirtyPages
<1>11. /\ fresh \in [Memory!ToCopy(t) -> Frame \ heap.data]
       /\ \A p, q \in Memory!ToCopy(t) : fresh[p] = fresh[q] => p = q
       /\ heap'.data = heap.data \cup {fresh[p] : p \in Memory!ToCopy(t)}
  BY <1>2, <1>8 DEF Cloned
<1>12. MRoot' = [MRoot EXCEPT ![s] = TRUE]
  <2>1. root_ \in [Owner -> Frame \cup {Null}]
    BY DEF PgInv, TypeOK
  <2>2. \A q \in Owner : q # s => root_'[q] = root_[q]
    BY <2>1 DEF Checkpoint
  <2>3. MRoot' = Put(MRoot, s, deep)
    BY <1>1, <1>3, <1>5, <2>2, RootPut
  <2>. QED
    BY <1>1, <2>3 DEF Put
<1>13. MTlb' = Memory!FlushedAll("core") /\ MSlot' = MSlot /\ MSlot["core"] = slot
  BY <1>4 DEF Memory!FlushedAll, Memory!Empty, Memory!Absent, Memory!Entry, MTlb, NoTlb, MSlot
<1>14. \E p \in Page : MTable[slot][p].dirty
  <2>1. PICK p \in Page : Translation(slot, p).dirty
    BY DEF Checkpoint
  <2>2. Translation(slot, p) = Walk(heap, Roots[slot], p)
    BY <1>5 DEF Translation, Roots
  <2>3. t[p] = Flat(Walk(heap, Roots[slot], p))
    BY ONLY <1>7, p \in Page DEF FlatWalk
  <2>4. t[p].dirty
    BY <2>1, <2>2, <2>3 DEF Flat
  <2>. QED
    BY <1>2, <2>4
<1>15. Memory!Running("core")
  BY <1>4 DEF Memory!Running, Running
<1>. QED
  BY <1>2, <1>4, <1>9, <1>10, <1>11, <1>12, <1>13, <1>14, <1>15
     DEF Memory!Checkpoint, MRoot, MTable, MSlot, MTlb, MLost

\* What FlatInv adds to PgInv, of a heap and roots.
Useful(h, R) == RootsUseful(h, R) /\ ImageKept(h)

\* One address space, u, has other entries, X, and perhaps another root.
LEMMA UsefulPut ==
    ASSUME NEW h, NEW R, RootsUseful(h, R), NEW u \in Owner, NEW g, NEW S,
           \A q \in Owner : q # u => S[q] = R[q],
           NEW X, TablesFlat(g, S) = Put(TablesFlat(h, R), u, X),
           S[u] # Null => \E p \in Page : X[p].frame # Null
    PROVE  RootsUseful(g, S)
<1>1. \A q \in Owner, p \in Page : TablesFlat(g, S)[q][p].frame = Walk(g, S[q], p).frame
  BY DEF TablesFlat, FlatWalk, Flat
<1>2. \A q \in Owner, p \in Page : TablesFlat(h, R)[q][p].frame = Walk(h, R[q], p).frame
  BY DEF TablesFlat, FlatWalk, Flat
<1>3. TablesFlat(g, S)[u] = X
  BY DEF Put, TablesFlat
<1>4. \A q \in Owner : q # u => TablesFlat(g, S)[q] = TablesFlat(h, R)[q]
  BY DEF Put, TablesFlat
<1>5. ASSUME NEW q \in Owner, S[q] # Null
      PROVE  \E p \in Page : exists(Walk(g, S[q], p))
  <2>1. CASE q = u
    <3>1. PICK p \in Page : X[p].frame # Null
      BY <1>5, <2>1
    <3>. QED
      BY <1>1, <1>3, <2>1, <3>1 DEF exists
  <2>2. CASE q # u
    <3>1. PICK p \in Page : exists(Walk(h, R[q], p))
      BY <1>5, <2>2 DEF RootsUseful
    <3>2. Walk(g, S[q], p).frame = Walk(h, R[q], p).frame
      BY ONLY <1>1, <1>2, <1>4, <2>2, q \in Owner, p \in Page
    <3>. QED
      BY <3>1, <3>2 DEF exists
  <2>. QED
    BY <2>1, <2>2
<1>. QED
  BY <1>5 DEF RootsUseful

\* Roots are dropped, or nothing happens.
LEMMA UsefulDropped ==
    ASSUME NEW h, NEW R, Useful(h, R), NEW S, \A q \in Owner : S[q] \in {R[q], Null}
    PROVE  Useful(h, S)
  BY DEF Useful, RootsUseful

\* Unloading drops a root or none.
LEMMA UnloadUseful ==
    ASSUME FlatInv, SwapOut \/ Halt
    PROVE  Useful(heap', Roots')
<1>1. Running /\ slot_unload_instance
  BY DEF SwapOut, Halt
<1>2. /\ Rerooted(Roots, Roots', slot, root_[slot])
      /\ root_[slot] # Null => root_[slot] = Roots[slot]
  BY <1>1, UnloadEffect DEF FlatInv
<1>3. heap' = heap
  BY <1>1 DEF slot_unload_instance
<1>4. \A q \in Owner : Roots'[q] \in {Roots[q], Null}
  BY <1>2 DEF Rerooted
<1>. QED
  BY <1>3, <1>4, UsefulDropped DEF FlatInv, Useful

\* Destruction drops a root and writes nothing.
LEMMA DestroyUseful ==
    ASSUME FlatInv, NEW o \in Owner, Destroy(o)
    PROVE  Useful(heap', Roots')
<1>1. PgInv /\ HeapInv(heap, Roots) /\ HeapOK(heap) /\ Forest(heap, Roots) /\ RootsUseful(heap, Roots)
      /\ ImageKept(heap)
  BY RootsAre DEF FlatInv
<1>2. PICK S, g : S = Roots' /\ g = heap'
  OBVIOUS
<1>3. FreeStep(heap, Roots, g, S, o) /\ HeapOK(g)
  BY <1>1, <1>2, DestroyEffect DEF HeapInv
<1>4. PICK t, F : t = FlatWalk(heap, Roots[o]) /\ F = Memory!freePageTable(t)
  OBVIOUS
<1>5. \A f : f \in F <=> WriterBy(heap, Roots[o], f)
  BY <1>1, <1>4, MFreed
<1>6. /\ TablesFlat(g, S) = Put(TablesFlat(heap, Roots), o, Memory!Empty)
      /\ g.mem = heap.mem
  BY <1>1, <1>3, <1>5, FreeStepFlat
<1>7. S[o] = Null /\ \A q \in Owner : q # o => S[q] = Roots[q]
  BY <1>3 DEF FreeStep, Rerooted
<1>8. RootsUseful(g, S)
  BY <1>1, <1>6, <1>7, UsefulPut
<1>. QED
  BY <1>1, <1>2, <1>6, <1>8 DEF Useful, ImageKept

\* A store unmaps nothing, and pages that may be written are not the image's.
LEMMA StoreUseful ==
    ASSUME FlatInv, NEW p \in Page, NEW v \in Val, Store(p, v)
    PROVE  Useful(heap', Roots')
<1>1. PgInv /\ HeapInv(heap, Roots) /\ HeapOK(heap) /\ Forest(heap, Roots) /\ RootsUseful(heap, Roots)
      /\ ImageKept(heap) /\ \A x \in Page : x \in Addr
  BY RootsAre, PgTblAssumption DEF FlatInv
<1>2. PICK g, w : g = heap' /\ w = Walk(heap, Roots[slot], p)
  OBVIOUS
<1>3. Written(heap, Roots, slot, p, v, g) /\ Roots' = Roots
  BY <1>1, <1>2, StoreEffect
<1>4. slot \in Owner
  BY <1>1, InSlot DEF Store
<1>5. w \in Pte
  BY <1>1, <1>2, <1>4, ForestWalk
<1>6. Dirtied(w).frame = w.frame
  BY <1>5, DirtiedIs
<1>7. \A q \in Owner, x \in Page : Walk(g, Roots[q], x).frame = Walk(heap, Roots[q], x).frame
  BY <1>1, <1>2, <1>3, <1>6 DEF Written
<1>8. RootsUseful(g, Roots)
  BY <1>1, <1>7 DEF RootsUseful, exists
<1>9. w.rw
  BY <1>1, <1>2, <1>4, RootsAre DEF Store, Translation
<1>10. w.frame \in Frame
  <2>1. w.frame \in heap.data
    BY <1>1, <1>2, <1>4, <1>9 DEF HeapInv, WritersOK
  <2>. QED
    BY <1>1, <2>1 DEF HeapOK
<1>11. \A x \in Elf : g.mem[x] = heap.mem[x]
  <2>1. g.mem = Stored(heap.mem, w.frame, v)
    BY <1>2, <1>3 DEF Written
  <2>2. \A x \in Elf : x # w.frame
    BY <1>10, PgTblAssumption DEF Elf
  <2>3. heap.mem \in [Frame \cup Elf -> Val]
    BY <1>1 DEF HeapOK
  <2>. QED
    BY ONLY <2>1, <2>2, <2>3 DEF Stored
<1>12. ImageKept(g)
  BY <1>1, <1>11 DEF ImageKept
<1>. QED
  BY <1>2, <1>3, <1>8, <1>12 DEF Useful

\* A copy that has a root has a page, and is written to new pages.
LEMMA CopyUseful ==
    ASSUME NEW h, NEW R, HeapInv(h, R), Useful(h, R), NEW src, NEW u, NEW deep,
           NEW g, HeapOK(g), NEW S, CopyStep(h, R, src, u, deep, g, S)
    PROVE  Useful(g, S)
<1>1. CopyFlattened(h, R, src, u, deep, g, S)
  BY CopyStepFlat
<1>2. SourceOK(h, R, src, u) /\ u \in Owner /\ \A q \in Owner : q # u => S[q] = R[q]
  BY DEF CopyStep, SourceOK, Rerooted
<1>3. ASSUME S[u] # Null
      PROVE  \E p \in Page : FlatWalk(g, S[u])[p].frame # Null
  <2>1. PICK p \in Page : Walk(h, R[src], p).dirty
    BY <1>1, <1>3 DEF CopyFlattened
  <2>2. PICK w, e : w = Walk(h, R[src], p) /\ e = Walk(g, S[u], p)
    OBVIOUS
  <2>3. EntryCopied(h, g, w, e, deep)
    BY <1>1, <2>2 DEF CopyFlattened
  <2>4. p \in Addr
    BY PgTblAssumption
  <2>5. w.dirty /\ w.frame # Null
    BY <1>2, <2>1, <2>2, <2>4, DirtyEntry
  <2>6. g.data \subseteq Frame /\ Null \notin Frame
    BY PgTblAssumption DEF HeapOK
  <2>7. e.frame # Null
    <3>1. Entry(w.frame, FALSE, TRUE).frame = w.frame
      BY DEF Entry
    <3>. QED
      BY ONLY <2>3, <2>5, <2>6, <3>1 DEF EntryCopied
  <2>8. FlatWalk(g, S[u])[p].frame = e.frame
    BY <2>2 DEF FlatWalk, Flat
  <2>. QED
    BY <2>7, <2>8
<1>4. RootsUseful(g, S)
  <2>1. TablesFlat(g, S) = Put(TablesFlat(h, R), u, FlatWalk(g, S[u]))
    BY <1>1 DEF CopyFlattened
  <2>2. RootsUseful(h, R)
    BY DEF Useful
  <2>. QED
    BY ONLY <1>2, <1>3, <2>1, <2>2, UsefulPut
<1>5. ImageKept(g)
  <2>1. \A x \in Elf : x \notin g.data
    BY PgTblAssumption DEF HeapOK, Elf
  <2>2. \A x \in Elf : g.mem[x] = h.mem[x]
    BY <1>1, <2>1 DEF CopyFlattened
  <2>. QED
    BY <2>2 DEF Useful, ImageKept
<1>. QED
  BY <1>4, <1>5 DEF Useful

\* A page fault maps a page, and fills a new one.
LEMMA FaultUseful ==
    ASSUME FlatInv, NEW p \in Page, NEW write \in BOOLEAN, PageFault(p, write)
    PROVE  Useful(heap', Roots')
<1>1. PgInv /\ HeapInv(heap, Roots) /\ RootsUseful(heap, Roots) /\ ImageKept(heap) /\ Running
  BY RootsAre DEF FlatInv, PageFault
<1>2. slot \in Owner /\ FaultStep(heap, Roots, slot, p, p \in Writable, write, heap', Roots')
  BY <1>1, FaultEffect
<1>3. \A q \in Owner : q # slot => Roots'[q] = Roots[q]
  BY <1>2 DEF FaultStep, Rerooted
<1>4. PICK t, X, S, g : /\ t = Memory!Translation("core", p) /\ X = MTable'[slot]
                        /\ S = Roots' /\ g = heap'
  OBVIOUS
<1>5. Memory!PageFault("core", p, write) /\ MSlot["core"] = slot
  BY FaultFlat DEF MSlot
<1>6. PICK f \in Memory!BackingFrames(p) :
         /\ MTable' = [MTable EXCEPT ![slot] = [MTable[slot] EXCEPT ![p] =
                                                   Memory!Entry(f, p \in Writable, write)]]
         /\ g.mem = [x \in DOMAIN heap.mem |-> IF x = f THEN Memory!BackingContent("core", p)
                                               ELSE heap.mem[x]]
  BY <1>4, <1>5 DEF Memory!PageFault, Memory!mapIntoPgTbl, MTable, MSlot
<1>7. ~Memory!exists(t) \/ (write /\ ~t.rw)
  BY <1>4, <1>5 DEF Memory!PageFault
<1>8. write => p \in Writable
  BY <1>5 DEF Memory!PageFault
<1>9. f \in Frame \/ (f = p /\ p \notin Writable)
  BY DEF Memory!BackingFrames
<1>10. X[p].frame = f /\ f # Null
  <2>1. MTable[slot] = FlatWalk(heap, Roots[slot])
    BY <1>1, MTranslation
  <2>2. X = [MTable[slot] EXCEPT ![p] = Memory!Entry(f, p \in Writable, write)]
    BY <1>2, <1>4, <1>6 DEF MTable
  <2>3. X[p] = Memory!Entry(f, p \in Writable, write)
    BY <2>1, <2>2 DEF FlatWalk
  <2>4. X[p].frame = f
    BY <2>3 DEF Memory!Entry
  <2>. QED
    BY <1>9, <2>4, PgTblAssumption
<1>11. TablesFlat(g, S) = Put(TablesFlat(heap, Roots), slot, X)
  BY <1>2, <1>4, <1>6, AbstractedNow, AbstractedNext DEF Abstracted, Put, MTable
<1>12. RootsUseful(g, S)
  BY <1>1, <1>2, <1>3, <1>4, <1>10, <1>11, UsefulPut
<1>13. ImageKept(g)
  <2>. SUFFICES ASSUME NEW x \in Elf
                PROVE  g.mem[x] = Image[x]
    BY DEF ImageKept
  <2>1. x \in DOMAIN heap.mem /\ heap.mem[x] = Image[x] /\ x \notin Frame
    BY <1>1, PgTblAssumption DEF HeapInv, HeapOK, ImageKept, Elf
  <2>2. x = f => x = p /\ Memory!BackingContent("core", p) = Image[p]
    BY <1>4, <1>7, <1>8, <1>9, <2>1 DEF Memory!BackingContent
  <2>. QED
    BY <1>6, <2>1, <2>2
<1>. QED
  BY <1>4, <1>12, <1>13 DEF Useful

\* Every step keeps roots useful and the image as it is.
LEMMA UsefulStep ==
    ASSUME FlatInv, [Next]_vars
    PROVE  Useful(heap', Roots')
<1>. Useful(heap, Roots) /\ PgInv
  BY DEF FlatInv, Useful
<1>1. CASE heap' = heap /\ \A q \in Owner : Roots'[q] = Roots[q]
  BY <1>1, UsefulDropped
<1>2. ASSUME NEW u \in Inst, Boot(u) \/ SetCheckpoint(u) \/ slot_load_instance(u)
      PROVE  Useful(heap', Roots')
  <2>1. slot_load_instance(u) => heap' = heap /\ \A q \in Owner : Roots'[q] = Roots[q]
    BY LoadEffect
  <2>2. Boot(u) \/ SetCheckpoint(u) => UNCHANGED <<root_, pml4, slot, heap>>
    BY DEF Boot, SetCheckpoint
  <2>. QED
    BY <1>1, <1>2, <2>1, <2>2 DEF Roots, RootOf
<1>3. ASSUME NEW u \in Inst, NEW s \in Snap, Deploy(u, s)
      PROVE  Useful(heap', Roots')
  <2>1. PICK deep, g, S : deep = FALSE /\ g = heap' /\ S = Roots'
    OBVIOUS
  <2>2. CopyStep(heap, Roots, s, u, deep, g, S) /\ HeapInv(g, S)
    BY <1>3, <2>1, DeployEffect
  <2>3. HeapInv(heap, Roots) /\ HeapOK(g)
    BY <2>2, RootsAre DEF HeapInv
  <2>. QED
    BY <2>1, <2>2, <2>3, CopyUseful
<1>4. ASSUME NEW o \in Owner, Destroy(o)
      PROVE  Useful(heap', Roots')
  BY <1>4, DestroyUseful
<1>5. CASE SwapOut \/ Halt
  BY <1>5, UnloadUseful
<1>6. ASSUME NEW p \in Page, NEW v \in Val, Store(p, v)
      PROVE  Useful(heap', Roots')
  BY <1>6, StoreUseful
<1>7. ASSUME NEW p \in Page, NEW write \in BOOLEAN, PageFault(p, write)
      PROVE  Useful(heap', Roots')
  BY <1>7, FaultUseful
<1>8. ASSUME NEW s \in Snap, Checkpoint(s)
      PROVE  Useful(heap', Roots')
  <2>1. PICK deep, g, S : deep = TRUE /\ g = heap' /\ S = Roots'
    OBVIOUS
  <2>2. CopyStep(heap, Roots, slot, s, deep, g, S) /\ HeapInv(g, S)
    BY <1>8, <2>1, CheckpointEffect
  <2>3. HeapInv(heap, Roots) /\ HeapOK(g)
    BY <2>2, RootsAre DEF HeapInv
  <2>. QED
    BY <2>1, <2>2, <2>3, CopyUseful
<1>9. CASE UNCHANGED vars
  BY <1>1, <1>9 DEF vars, Roots, RootOf
<1>. QED
  BY <1>2, <1>3, <1>4, <1>5, <1>6, <1>7, <1>8, <1>9 DEF Next

\* FlatInv holds initially.
LEMMA FlatInvInit ==
    ASSUME Init
    PROVE  FlatInv
<1>1. \A o \in Owner : Roots[o] = Null
  BY DEF Init, Roots, RootOf
<1>2. \A p \in Elf : heap.mem[p] = Image[p]
  BY DEF Init
<1>. QED
  BY <1>1, <1>2, PgInvInit DEF FlatInv, RootsUseful, ImageKept

\* Every step keeps FlatInv.
LEMMA FlatInvStep ==
    ASSUME FlatInv, [Next]_vars
    PROVE  FlatInv'
<1>1. PgInv'
  BY PgInvStep DEF FlatInv
<1>2. Useful(heap', Roots')
  BY UsefulStep
<1>. QED
  BY <1>1, <1>2 DEF FlatInv, Useful

\* Besides what PgInv says, every root has a page below it, and the image is never written:
\* slot_unload_instance asserts the first, GetBackingPage gives out the image's own pages.
THEOREM FlatInvHolds == Spec => []FlatInv
<1>1. Init => FlatInv
  BY FlatInvInit
<1>2. FlatInv /\ [Next]_vars => FlatInv'
  BY FlatInvStep
<1>. QED
  BY <1>1, <1>2, PTL DEF Spec

\* Initial states are UmMemory's.
LEMMA InitFlat ==
    ASSUME Init
    PROVE  Memory!Init
<1>1. PgInv /\ HeapOK(heap)
  BY PgInvInit, RootsAre
<1>2. \A o \in Owner : Roots[o] = Null
  BY DEF Init, Roots, RootOf
<1>3. MTable = [o \in Owner |-> Memory!Empty]
  BY <1>1, <1>2, TableIs, NullFlat DEF TablesFlat
<1>4. MLost = {} /\ heap.data = {}
  BY LostDataIs DEF LostData, Init
<1>5. MRoot = [o \in Owner |-> FALSE]
  BY DEF Init, MRoot
<1>6. MSlot = [c \in {"core"} |-> NoInst]
  BY DEF Init, MSlot
<1>7. MTlb = [c \in {"core"} |-> Memory!Empty]
  BY DEF MTlb, NoTlb, Memory!Empty, Memory!Absent, Memory!Entry
<1>8. heap.mem \in [Frame \cup Elf -> Val] /\ \A p \in Elf : heap.mem[p] = Image[p]
  BY <1>1, FlatInvInit DEF HeapOK, FlatInv, ImageKept
<1>9. life = [o \in Owner |-> "none"] /\ snap_addr = [u \in Inst |-> "unset"]
  BY DEF Init
<1>. QED
  BY <1>3, <1>4, <1>5, <1>6, <1>7, <1>8, <1>9
     DEF Memory!Init, Memory!Owner, Memory!Elf, Owner, Elf, MRoot, MTable, MSlot, MTlb, MLost

\* A step that changes nothing changes nothing of UmMemory.
LEMMA StutterFlat ==
    ASSUME UNCHANGED vars
    PROVE  UNCHANGED Memory!vars
<1>1. UNCHANGED <<life, root_, pml4, snap_addr, slot, heap>>
  BY DEF vars
<1>2. \A q \in Owner : Roots'[q] = Roots[q]
  BY <1>1 DEF Roots, RootOf
<1>3. MTable' = MTable /\ MLost' = MLost
  BY <1>1, <1>2, UnchangedFlat
<1>4. MRoot' = MRoot /\ MSlot' = MSlot /\ MTlb' = MTlb
  BY <1>1 DEF MRoot, MSlot, MTlb, NoTlb
<1>. QED
  BY <1>1, <1>3, <1>4 DEF Memory!vars, MRoot, MTable, MSlot, MTlb, MLost

\* Every step is one of UmMemory's, or a stutter.
LEMMA NextFlat ==
    ASSUME FlatInv, [Next]_vars
    PROVE  [Memory!Next]_(Memory!vars)
<1>. PgInv
  BY DEF FlatInv
<1>1. ASSUME NEW u \in Inst, Boot(u) \/ SetCheckpoint(u)
      PROVE  Memory!Next
  <2>1. Memory!Boot(u) \/ Memory!SetCheckpoint(u)
    BY <1>1, BootFlat, SetCheckpointFlat
  <2>. QED
    BY <2>1 DEF Memory!Next, Memory!Client
<1>2. ASSUME NEW u \in Inst, slot_load_instance(u)
      PROVE  Memory!Next
  <2>1. Memory!slot_load_instance("core", u)
    BY <1>2, LoadFlat
  <2>. QED
    BY <2>1 DEF Memory!Next, Memory!Slot
<1>3. ASSUME NEW u \in Inst, NEW s \in Snap, Deploy(u, s)
      PROVE  Memory!Next
  <2>1. Memory!Deploy(u, s)
    BY <1>3, DeployFlat
  <2>. QED
    BY <2>1 DEF Memory!Next, Memory!Client
<1>4. ASSUME NEW o \in Owner, Destroy(o)
      PROVE  Memory!Next
  <2>1. Memory!Destroy(o)
    BY <1>4, DestroyFlat
  <2>. QED
    BY <2>1 DEF Memory!Next, Memory!Client, Memory!Owner, Owner
<1>5. CASE SwapOut \/ Halt
  <2>1. Memory!SwapOut("core") \/ Memory!Halt("core")
    BY <1>5, SwapOutFlat, HaltFlat
  <2>. QED
    BY <2>1 DEF Memory!Next, Memory!Slot
<1>6. ASSUME NEW p \in Page, NEW v \in Val, Store(p, v)
      PROVE  Memory!Next
  <2>1. Memory!Store("core", p, v)
    BY <1>6, StoreFlat
  <2>. QED
    BY <2>1 DEF Memory!Next, Memory!Guest
<1>7. ASSUME NEW p \in Page, NEW write \in BOOLEAN, PageFault(p, write)
      PROVE  Memory!Next
  <2>1. Memory!PageFault("core", p, write)
    BY <1>7, FaultFlat
  <2>. QED
    BY <2>1 DEF Memory!Next, Memory!Guest
<1>8. ASSUME NEW s \in Snap, Checkpoint(s)
      PROVE  Memory!Next
  <2>1. Memory!Checkpoint("core", s)
    BY <1>8, CheckpointFlat
  <2>. QED
    BY <2>1 DEF Memory!Next, Memory!Guest
<1>9. CASE UNCHANGED vars
  BY <1>9, StutterFlat
<1>. QED
  BY <1>1, <1>2, <1>3, <1>4, <1>5, <1>6, <1>7, <1>8, <1>9 DEF Next

\* The page tables implement UmMemory: the recursive walkers that map a page
\* (mapIntoPgTbl), copy a table (walkPgTblCOW, walkPgTblCopyDirtyCOW) and free one
\* (freePageTable) do to the leaves what UmMemory's operators do to its maps.
THEOREM FlatTablesHolds == Spec => FlatTables
<1>1. Init => Memory!Init
  BY InitFlat
<1>2. FlatInv /\ [Next]_vars => [Memory!Next]_(Memory!vars)
  BY NextFlat
<1>. QED
  BY <1>1, <1>2, FlatInvHolds, PTL DEF Spec, FlatTables, Memory!Spec

(***************************************************************************)
(* The pages a snapshot owns.                                              *)
(***************************************************************************)
\* The leaves that a table may write, as a traversal finds them.
WritableLeaves(h, r) == {l \in traversePageTable(h, r, TRUE) : l[2].rw}

\* One for each of the pages that are freed with the table.
LEMMA OwnedLeaves ==
    ASSUME PgInv, NEW s \in Live, NEW r, r = RootOf(s),
           NEW F, \A f : f \in F <=> WriterBy(heap, Roots[s], f)
    PROVE  ExistsBijection(F, WritableLeaves(heap, r))
<1>1. s \in Owner /\ Roots[s] = r /\ HeapInv(heap, Roots) /\ HeapOK(heap) /\ Forest(heap, Roots)
  BY RootsAre DEF Live
<1>2. PICK L : L = WritableLeaves(heap, r)
  OBVIOUS
<1>3. \A p \in Page : Walk(heap, r, p).rw => exists(Walk(heap, r, p))
  <2>1. ASSUME NEW p \in Page
        PROVE  Walk(heap, r, p) = Absent \/ exists(Walk(heap, r, p))
    <3>1. p \in Addr
      BY PgTblAssumption
    <3>2. Walk(heap, Roots[s], p) = Absent \/ exists(Walk(heap, Roots[s], p))
      BY <1>1, <3>1, ForestWalk
    <3>. QED
      BY <1>1, <3>2
  <2>2. ~Absent.rw
    BY DEF Absent
  <2>. QED
    BY <2>1, <2>2
<1>4. \A x : x \in L <=> \E p \in Page : Walk(heap, r, p).rw /\ x = <<p, Walk(heap, r, p)>>
  <2>1. PICK accessed \in BOOLEAN : accessed = TRUE
    OBVIOUS
  <2>2. traversePageTable(heap, r, accessed) =
           {<<p, Translation(s, p)>> : p \in {q \in Page : exists(Translation(s, q))}}
    BY MeetsFollows DEF TraversalMeetsWalk
  <2>3. \A p : Translation(s, p) = Walk(heap, r, p)
    BY DEF Translation
  <2>4. L = {l \in traversePageTable(heap, r, accessed) : l[2].rw}
    BY <1>2, <2>1 DEF WritableLeaves
  <2>5. ASSUME NEW x \in L
        PROVE  \E p \in Page : Walk(heap, r, p).rw /\ x = <<p, Walk(heap, r, p)>>
    <3>1. x \in traversePageTable(heap, r, accessed) /\ x[2].rw
      BY ONLY <2>4, x \in L
    <3>2. PICK p \in Page : x = <<p, Walk(heap, r, p)>>
      BY ONLY <2>2, <2>3, <3>1
    <3>. QED
      BY <3>1, <3>2
  <2>6. ASSUME NEW p \in Page, Walk(heap, r, p).rw
        PROVE  <<p, Walk(heap, r, p)>> \in L
    <3>1. PICK x : x = <<p, Walk(heap, r, p)>>
      OBVIOUS
    <3>2. x \in traversePageTable(heap, r, accessed)
      BY ONLY <1>3, <2>2, <2>3, <2>6, <3>1, p \in Page
    <3>3. x[2].rw
      BY <2>6, <3>1
    <3>. QED
      BY ONLY <2>4, <3>1, <3>2, <3>3
  <2>. QED
    BY ONLY <2>5, <2>6
<1>5. ASSUME NEW p \in Page, NEW q \in Page, Walk(heap, r, p).rw, Walk(heap, r, q).rw,
             Walk(heap, r, p).frame = Walk(heap, r, q).frame
      PROVE  p = q
  <2>1. p \in Addr /\ q \in Addr
    BY PgTblAssumption
  <2>. QED
    BY <1>1, <1>5, <2>1 DEF HeapInv, WritersOK
<1>6. PICK b : b = [f \in F |-> CHOOSE x \in L : x[2].frame = f]
  OBVIOUS
<1>7. ASSUME NEW f \in F
      PROVE  b[f] \in L /\ b[f][2].frame = f
  <2>1. PICK p \in Page : Walk(heap, r, p).rw /\ Walk(heap, r, p).frame = f
    BY <1>1 DEF WriterBy
  <2>2. PICK x : x = <<p, Walk(heap, r, p)>>
    OBVIOUS
  <2>3. x \in L /\ x[2].frame = f
    BY <1>4, <2>1, <2>2
  <2>4. b[f] = CHOOSE y \in L : y[2].frame = f
    BY <1>6
  <2>. QED
    BY ONLY <2>3, <2>4
<1>8. \A x \in L : x[2].frame \in F
  BY <1>1, <1>4 DEF WriterBy
<1>9. \A x, y \in L : x[2].frame = y[2].frame => x = y
  BY <1>4, <1>5
<1>10. b \in Bijection(F, L)
  <2>1. b \in [F -> L]
    BY <1>6, <1>7
  <2>2. \A f, g \in F : b[f] = b[g] => f = g
    BY <1>7
  <2>3. \A x \in L : \E f \in F : b[f] = x
    BY <1>7, <1>8, <1>9
  <2>. QED
    BY <2>1, <2>2, <2>3 DEF Bijection, Injection, Surjection, IsInjective
<1>. QED
  BY <1>2, <1>10 DEF ExistsBijection

\* Destruction gives back as many pages as the counter says.
LEMMA DestroyCounts ==
    ASSUME PgInv, NEW s \in Snap, life[s] = "live", Destroy(s)
    PROVE  Cardinality(heap.data) - Cardinality(heap'.data) = CountOwnedPages(s)
<1>1. s \in Owner /\ slot # s /\ root_[s] # Null
  BY InSlot DEF Owner, PgInv, LifeInv
<1>2. PICK r : r = root_[s]
  OBVIOUS
<1>3. r = RootOf(s) /\ s \in Live /\ Roots[s] = r
  BY <1>1, <1>2 DEF RootOf, Live, Roots
<1>4. HeapInv(heap, Roots) /\ HeapOK(heap) /\ Forest(heap, Roots)
  BY RootsAre
<1>5. PICK S, g : S = Roots' /\ g = heap'
  OBVIOUS
<1>6. FreeStep(heap, Roots, g, S, s) /\ HeapOK(g)
  BY <1>1, <1>5, DestroyEffect DEF HeapInv
<1>7. PICK t, F : t = FlatWalk(heap, Roots[s]) /\ F = Memory!freePageTable(t)
  OBVIOUS
<1>8. \A f : f \in F <=> WriterBy(heap, Roots[s], f)
  BY <1>1, <1>4, <1>7, MFreed
<1>9. g.data = heap.data \ F
  BY <1>1, <1>4, <1>6, <1>8, FreeStepFlat
<1>10. F \subseteq heap.data /\ heap.data \subseteq Frame
  BY <1>1, <1>4, <1>8, PgTblAssumption DEF HeapInv, WritersOK, HeapOK, WriterBy
<1>11. PICK D : D = heap.data
  OBVIOUS
<1>12. IsFiniteSet(D) /\ IsFiniteSet(F)
  <2>1. IsFiniteSet(D)
    BY ONLY <1>10, <1>11, FrameAssumption, FS_Subset
  <2>. QED
    BY ONLY <1>10, <1>11, <2>1, FS_Subset
<1>13. Cardinality(D \ F) = Cardinality(D) - Cardinality(F)
  <2>1. D \cap F = F
    BY <1>10, <1>11
  <2>. QED
    BY ONLY <1>12, <2>1, FS_Difference
<1>14. Cardinality(WritableLeaves(heap, r)) = Cardinality(F)
  <2>1. ExistsBijection(F, WritableLeaves(heap, r))
    BY <1>3, <1>8, OwnedLeaves
  <2>. QED
    BY ONLY <1>12, <2>1, FS_Bijection
<1>15. CountOwnedPages(s) = Cardinality(F)
  BY <1>2, <1>14 DEF CountOwnedPages, countWritablePages, WritableLeaves
<1>16. Cardinality(D) \in Nat /\ Cardinality(F) \in Nat
  BY ONLY <1>12, FS_CardinalityType
<1>. QED
  BY ONLY <1>5, <1>9, <1>11, <1>13, <1>15, <1>16

\* The pages that CountOwnedPages reports of a snapshot come back when it is destroyed.
THEOREM OwnedPagesComeBackHolds == Spec => OwnedPagesComeBack
<1>1. ASSUME PgInv, [Next]_vars, NEW s \in Snap, life[s] = "live", life'[s] = "none"
      PROVE  Destroy(s)
  <2>1. life \in [Owner -> {"none", "live", "halted"}]
    BY <1>1 DEF PgInv, TypeOK
  <2>2. s \in Owner /\ s \notin Inst /\ s # slot
    BY <1>1, InSlot, PgTblAssumption DEF Owner
  <2>3. CASE \E o \in Owner : Destroy(o)
    BY <1>1, <2>1, <2>2, <2>3 DEF Destroy
  <2>4. CASE life' = life
    BY <1>1, <2>4
  <2>5. CASE \E o \in Owner, x \in {"live", "halted"} : life' = [life EXCEPT ![o] = x]
    BY <1>1, <2>1, <2>2, <2>5
  <2>6. \/ \E o \in Owner : Destroy(o)
        \/ life' = life
        \/ \E o \in Owner, x \in {"live", "halted"} : life' = [life EXCEPT ![o] = x]
    BY <1>1, InSlot DEF Next, vars, Boot, SetCheckpoint, slot_load_instance, Deploy, SwapOut, Halt,
       Store, PageFault, Checkpoint, Owner
  <2>. QED
    BY <2>3, <2>4, <2>5, <2>6
<1>2. PgInv /\ [Next]_vars =>
         [\A s \in Snap : life[s] = "live" /\ life'[s] = "none" =>
             Cardinality(heap.data) - Cardinality(heap'.data) = CountOwnedPages(s)]_vars
  BY <1>1, DestroyCounts
<1>. QED
  BY <1>2, PgInvHolds, PTL DEF Spec, OwnedPagesComeBack

(***************************************************************************)
(* What UmMemoryProofs says, of these tables.                              *)
(***************************************************************************)
M == INSTANCE UmMemoryProofs WITH
    Core <- {"core"},
    NoFrame <- Null,
    root <- MRoot,
    table <- MTable,
    slot <- MSlot,
    tlb <- MTlb,
    mem <- heap.mem,
    allocated <- heap.data,
    lost <- MLost

\* What UmMemoryProofs assumes of its constants is so.
LEMMA SameAssumption == M!MemoryAssumption
  BY PgTblAssumption

\* M and Memory are the same, from their initial states on.
LEMMA SameInit == Memory!Init => M!Init
  BY DEF Memory!Init, M!Init, Memory!Owner, M!Owner, Memory!Elf, M!Elf, Memory!Empty, M!Empty,
         Memory!Absent, M!Absent, Memory!Entry, M!Entry, MRoot, MTable, MSlot, MTlb, MLost

\* Clients do the same in both.
LEMMA SameClient == Memory!Client => M!Client
<1>1. \A u \in Inst : Memory!Boot(u) => M!Boot(u)
  BY DEF Memory!Boot, M!Boot, MRoot, MTable, MSlot, MTlb, MLost
<1>2. \A u \in Inst : Memory!SetCheckpoint(u) => M!SetCheckpoint(u)
  BY DEF Memory!SetCheckpoint, M!SetCheckpoint, Memory!Loaded, M!Loaded,
         MRoot, MTable, MSlot, MTlb, MLost
<1>3. \A u \in Inst, s \in Snap : Memory!Deploy(u, s) => M!Deploy(u, s)
  BY DEF Memory!Deploy, M!Deploy, Memory!walkPgTblCOW, M!walkPgTblCOW,
         Memory!findAndSetPTECOW, M!findAndSetPTECOW,
         Memory!Absent, M!Absent, Memory!Entry, M!Entry, MRoot, MTable, MSlot, MTlb, MLost
<1>4. \A o : Memory!Destroy(o) => M!Destroy(o)
  BY DEF Memory!Destroy, M!Destroy, Memory!InUse, M!InUse, Memory!Owner, M!Owner,
         Memory!freePageTable, M!freePageTable, Memory!Leaves, M!Leaves,
         Memory!exists, M!exists, Memory!Empty, M!Empty,
         Memory!Absent, M!Absent, Memory!Entry, M!Entry, MRoot, MTable, MSlot, MTlb, MLost
<1>. QED
  BY <1>1, <1>2, <1>3, <1>4 DEF Memory!Client, M!Client, Memory!Owner, M!Owner

\* The slot is loaded and unloaded in both in the same way.
LEMMA SameSlot == Memory!Slot => M!Slot
<1>1. \A u : Memory!slot_load_instance("core", u) => M!slot_load_instance("core", u)
  BY DEF Memory!slot_load_instance, M!slot_load_instance, Memory!Loaded, M!Loaded,
         Memory!Running, M!Running, MRoot, MTable, MSlot, MTlb, MLost
<1>2. Memory!slot_unload_instance("core") => M!slot_unload_instance("core")
  BY DEF Memory!slot_unload_instance, M!slot_unload_instance, Memory!SlotRoot, M!SlotRoot,
         Memory!FlushedAll, M!FlushedAll, Memory!freePageTable, M!freePageTable,
         Memory!Leaves, M!Leaves, Memory!exists, M!exists, Memory!Empty, M!Empty,
         Memory!Absent, M!Absent, Memory!Entry, M!Entry, MRoot, MTable, MSlot, MTlb, MLost
<1>3. Memory!SwapOut("core") => M!SwapOut("core")
  BY <1>2 DEF Memory!SwapOut, M!SwapOut, Memory!Running, M!Running, MRoot, MSlot
<1>4. Memory!Halt("core") => M!Halt("core")
  BY <1>2 DEF Memory!Halt, M!Halt, Memory!Running, M!Running, MSlot
<1>. QED
  BY <1>1, <1>3, <1>4 DEF Memory!Slot, M!Slot

\* Guests do the same in both.
LEMMA SameGuest == Memory!Guest => M!Guest
<1>1. \A p : Memory!Cache("core", p) => M!Cache("core", p)
  BY DEF Memory!Cache, M!Cache, Memory!Running, M!Running, Memory!exists, M!exists,
         MRoot, MTable, MSlot, MTlb, MLost
<1>2. \A p : Memory!Evict("core", p) => M!Evict("core", p)
  BY DEF Memory!Evict, M!Evict, Memory!exists, M!exists, Memory!Absent, M!Absent,
         Memory!Entry, M!Entry, MRoot, MTable, MSlot, MTlb, MLost
<1>3. \A p, v : Memory!Store("core", p, v) => M!Store("core", p, v)
  BY DEF Memory!Store, M!Store, Memory!Running, M!Running,
         Memory!Translation, M!Translation, Memory!mapIntoPgTbl, M!mapIntoPgTbl,
         Memory!exists, M!exists, Memory!Absent, M!Absent, Memory!Entry, M!Entry,
         MRoot, MTable, MSlot, MTlb, MLost
<1>4. \A p, write : Memory!PageFault("core", p, write) => M!PageFault("core", p, write)
  BY DEF Memory!PageFault, M!PageFault, Memory!Running, M!Running,
         Memory!Translation, M!Translation, Memory!mapIntoPgTbl, M!mapIntoPgTbl,
         Memory!BackingFrames, M!BackingFrames, Memory!BackingContent, M!BackingContent,
         Memory!FlushedPage, M!FlushedPage,
         Memory!exists, M!exists, Memory!Absent, M!Absent, Memory!Entry, M!Entry,
         MRoot, MTable, MSlot, MTlb, MLost
<1>5. \A s : Memory!Checkpoint("core", s) => M!Checkpoint("core", s)
  BY DEF Memory!Checkpoint, M!Checkpoint, Memory!Running, M!Running,
         Memory!ToCopy, M!ToCopy, Memory!walkPgTblCopyDirtyCOW, M!walkPgTblCopyDirtyCOW,
         Memory!copyDirtyPages, M!copyDirtyPages,
         Memory!findAndSetPTECOW, M!findAndSetPTECOW, Memory!FlushedAll, M!FlushedAll,
         Memory!Empty, M!Empty, Memory!Absent, M!Absent, Memory!Entry, M!Entry,
         MRoot, MTable, MSlot, MTlb, MLost
<1>. QED
  BY <1>1, <1>2, <1>3, <1>4, <1>5 DEF Memory!Guest, M!Guest

\* A step of one is a step of the other.
LEMMA SameNext == [Memory!Next]_(Memory!vars) => [M!Next]_(M!vars)
<1>1. Memory!Next => M!Next
  BY SameClient, SameSlot, SameGuest DEF Memory!Next, M!Next
<1>2. UNCHANGED Memory!vars => UNCHANGED M!vars
  BY DEF Memory!vars, M!vars, MRoot, MTable, MSlot, MTlb, MLost
<1>. QED
  BY <1>1, <1>2

\* What the tables hold at any time is what UmMemory's hold: its invariant is theirs.
LEMMA LeavesInv == Spec => []M!MemInv
<1>1. Init => M!MemInv
  BY InitFlat, SameInit, SameAssumption, M!InitInv
<1>2. FlatInv /\ [Next]_vars => (M!MemInv => M!MemInv')
  BY NextFlat, SameNext, SameAssumption, M!StepInv
<1>. QED
  BY <1>1, <1>2, FlatInvHolds, PTL DEF Spec

\* A page that one of the machine's tables may write is in no other table, except, shared
\* read-only, where the owner is a snapshot; a page shared copy-on-write has a snapshot that
\* still exists; and every data page given out is freed with exactly one table or lost with
\* that of an instance booted from the image (walkPgTblCOW, walkPgTblCopyDirtyCOW,
\* freePageTable, slot_unload_instance).
THEOREM LeavesAreSafe ==
    Spec => [](Memory!OneWriter /\ Memory!SharedHasOwner /\ Memory!FramesAccounted)
<1>1. M!MemInv => Memory!OneWriter
  BY DEF M!MemInv, M!OneWriter, Memory!OneWriter, M!Owner, Memory!Owner, MTable
<1>2. M!MemInv => Memory!SharedHasOwner
  BY DEF M!MemInv, M!SharedHasOwner, Memory!SharedHasOwner, M!Owner, Memory!Owner, MTable
<1>3. M!MemInv => Memory!FramesAccounted
  BY DEF M!MemInv, M!FramesAccounted, Memory!FramesAccounted, M!Mapped, Memory!Mapped,
         M!freePageTable, Memory!freePageTable, M!Leaves, Memory!Leaves,
         M!exists, Memory!exists, M!Owner, Memory!Owner, MTable, MLost
<1>. QED
  BY <1>1, <1>2, <1>3, LeavesInv, PTL

\* A step of address spaces is the same by either name.
LEMMA SameSpaces ==
    /\ M!AS!Init => Memory!AS!Init
    /\ [M!AS!Next]_(M!AS!vars) => [Memory!AS!Next]_(Memory!AS!vars)
<1>1. M!AS!Init => Memory!AS!Init
  BY DEF M!AS!Init, Memory!AS!Init, M!View, Memory!View, M!exists, Memory!exists,
         M!Owner, Memory!Owner, MTable
<1>2. M!AS!Next => Memory!AS!Next
  BY DEF M!AS!Next, Memory!AS!Next, M!AS!Boot, Memory!AS!Boot, M!AS!Deploy, Memory!AS!Deploy,
         M!AS!Store, Memory!AS!Store, M!AS!Take, Memory!AS!Take,
         M!AS!Discard, Memory!AS!Discard,
         M!View, Memory!View, M!exists, Memory!exists, M!Owner, Memory!Owner, MTable
<1>3. UNCHANGED M!AS!vars => UNCHANGED Memory!AS!vars
  BY DEF M!AS!vars, Memory!AS!vars, M!View, Memory!View, M!exists, Memory!exists,
         M!Owner, Memory!Owner, MTable
<1>. QED
  BY <1>1, <1>2, <1>3

\* As long as instances booted from the image are not swapped out, the machine's tables give
\* every guest a memory of its own: the walkers of UmPgTblMgr.cc, with the interior tables
\* they make, copy and free, implement AddressSpaces.
THEOREM TablesKeepMemory == ASSUME ~SwapBooted PROVE Spec => Memory!PrivateMemories
<1>1. Init => Memory!AS!Init
  BY InitFlat, SameInit, SameAssumption, M!InitRefines, SameSpaces
<1>2. FlatInv /\ M!MemInv /\ [Next]_vars => [Memory!AS!Next]_(Memory!AS!vars)
  BY NextFlat, SameNext, SameAssumption, M!StepRefines, SameSpaces
<1>. QED
  BY <1>1, <1>2, FlatInvHolds, LeavesInv, PTL DEF Spec, Memory!PrivateMemories, Memory!AS!Spec

=============================================================================
