--------------------------- MODULE UmMemoryProofs ---------------------------
(***************************************************************************)
(* Proofs about UmMemory, for any number of cores, instances, snapshots,   *)
(* pages and frames: the inductive invariant, and that the memory system   *)
(* implements AddressSpaces.                                               *)
(***************************************************************************)
EXTENDS UmMemoryInv, TLAPS

(***************************************************************************)
(* Facts about entries and tables.                                         *)
(***************************************************************************)
LEMMA EntryFields ==
    /\ \A f, r, d : /\ Entry(f, r, d).frame = f
                    /\ Entry(f, r, d).rw = r
                    /\ Entry(f, r, d).dirty = d
    /\ \A f \in Frame \cup Elf \cup {NoFrame} : \A r, d \in BOOLEAN : Entry(f, r, d) \in Pte
    /\ Absent \in Pte /\ ~Absent.rw /\ ~Absent.dirty /\ Absent.frame = NoFrame
    /\ Empty \in [Page -> Pte] /\ \A p \in Page : Empty[p] = Absent
BY DEF Entry, Absent, Empty, Pte

\* A frame is freed with a table if an entry of the table may write it.
LEMMA Freed ==
    ASSUME NEW t
    PROVE  \A f : f \in freePageTable(t) <=>
                    \E p \in Page : t[p].frame # NoFrame /\ t[p].rw /\ t[p].frame = f
BY DEF freePageTable, Leaves, exists

LEMMA MappedFrames ==
    \A f : f \in Mapped <=>
             \E o \in Owner : \E p \in Page :
                table[o][p].frame # NoFrame /\ table[o][p].rw /\ table[o][p].frame = f
BY Freed DEF Mapped

\* What may be written is a frame of the allocator, for a writable page.
LEMMA WritableEntry ==
    ASSUME TypeOK, EntryInv
    PROVE  \A o \in Owner, p \in Page :
              /\ table[o][p] \in Pte
              /\ table[o][p].rw => table[o][p].frame \in Frame /\ p \in Writable
<1> TAKE o \in Owner, p \in Page
<1>1. table[o][p] \in Pte
  BY DEF TypeOK
<1>2. table[o][p].frame \in Frame \cup Elf \cup {NoFrame}
  BY <1>1 DEF Pte
<1> QED BY <1>1, <1>2 DEF EntryInv, EntryOK

\* Every frame a table maps is allocated.
LEMMA MappedAllocated ==
    ASSUME TypeOK, EntryInv, SharedHasOwner, FramesAccounted
    PROVE  \A o \in Owner, p \in Page :
              table[o][p].frame \in Frame => table[o][p].frame \in allocated
<1> TAKE o \in Owner, p \in Page
<1> HAVE table[o][p].frame \in Frame
<1>1. PICK o2 \in Owner :
        table[o2][p].rw /\ table[o2][p].frame = table[o][p].frame
  <2>1. CASE table[o][p].rw
    BY <2>1
  <2>2. CASE ~table[o][p].rw
    BY <2>2 DEF SharedHasOwner, Owner
  <2> QED BY <2>1, <2>2
<1>2. table[o][p].frame # NoFrame
  BY MemoryAssumption
<1>3. table[o][p].frame \in Mapped
  BY <1>1, <1>2, MappedFrames
<1> QED BY <1>3 DEF FramesAccounted

\* A cached translation is the table's.
LEMMA Coherent ==
    ASSUME TlbCoherent, NEW c \in Core, NEW p \in Page, Running(c)
    PROVE  /\ Translation(c, p).frame = table[slot[c]][p].frame
           /\ Translation(c, p).rw = table[slot[c]][p].rw
BY DEF TlbCoherent, Translation, Running

LEMMA Occupant ==
    ASSUME TypeOK, LifeInv, NEW c \in Core, Running(c)
    PROVE  /\ slot[c] \in Inst /\ slot[c] \in Owner /\ slot[c] \notin Snap
           /\ life[slot[c]] = "live"
           /\ Loaded(slot[c])
           /\ \A d \in Core : slot[d] = slot[c] => d = c
BY MemoryAssumption DEF TypeOK, LifeInv, Running, Loaded, Owner


(***************************************************************************)
(* Steps that leave tables and memory alone.                               *)
(***************************************************************************)
LEMMA TablesUnchanged ==
    ASSUME MemInv, TypeOK', LifeInv', TlbCoherent',
           UNCHANGED <<table, mem, allocated, lost>>,
           \A s \in Snap : life[s] = "live" => life'[s] = "live"
    PROVE  MemInv'
<1> USE DEF MemInv
<1>1. EntryInv'
  BY DEF EntryInv, EntryOK
<1>2. CleanIsImage'
  BY DEF CleanIsImage, exists
<1>3. OneWriter'
  BY DEF OneWriter
<1>4. SharedHasOwner'
  BY DEF SharedHasOwner
<1>5. FramesAccounted'
  BY DEF FramesAccounted, Mapped
<1> QED BY <1>1, <1>2, <1>3, <1>4, <1>5

LEMMA BootInv ==
    ASSUME MemInv, NEW u \in Inst, Boot(u)
    PROVE  MemInv'
<1> USE DEF MemInv, Boot
<1>1. TypeOK'
  BY DEF TypeOK, Owner
<1>2. LifeInv'
  BY MemoryAssumption DEF LifeInv, TypeOK, Owner, Loaded, Running
<1>3. TlbCoherent'
  BY DEF TlbCoherent, Running, exists
<1>4. \A s \in Snap : life[s] = "live" => life'[s] = "live"
  BY MemoryAssumption DEF TypeOK, Owner
<1> QED BY <1>1, <1>2, <1>3, <1>4, TablesUnchanged

LEMMA SetCheckpointInv ==
    ASSUME MemInv, NEW u \in Inst, SetCheckpoint(u)
    PROVE  MemInv'
<1> USE DEF MemInv, SetCheckpoint
<1>1. TypeOK'
  BY DEF TypeOK
<1>2. LifeInv'
  BY DEF LifeInv, Loaded, Running
<1>3. TlbCoherent'
  BY DEF TlbCoherent, Running, exists
<1> QED BY <1>1, <1>2, <1>3, TablesUnchanged

LEMMA LoadInv ==
    ASSUME MemInv, NEW c \in Core, NEW u \in Inst, slot_load_instance(c, u)
    PROVE  MemInv'
<1> USE DEF MemInv, slot_load_instance
<1>1. TypeOK'
  BY DEF TypeOK
<1>2. /\ slot'[c] = u
      /\ \A d \in Core \ {c} : slot'[d] = slot[d]
      /\ \A d \in Core : slot[d] # u
  BY DEF TypeOK, Loaded
<1>3. LifeInv'
  BY <1>2, MemoryAssumption DEF LifeInv, Loaded, Running, Owner
<1>4. TlbCoherent'
  BY <1>2 DEF TlbCoherent, Running, exists
<1> QED BY <1>1, <1>3, <1>4, TablesUnchanged

LEMMA CacheInv ==
    ASSUME MemInv, NEW c \in Core, NEW p \in Page, Cache(c, p) \/ Evict(c, p)
    PROVE  MemInv'
<1> USE DEF MemInv
<1>1. PICK e \in Pte :
        /\ tlb' = [tlb EXCEPT ![c] = [@ EXCEPT ![p] = e]]
        /\ exists(e) => Running(c) /\ e = table[slot[c]][p]
  <2>1. CASE Cache(c, p)
    <3>1. table[slot[c]][p] \in Pte
      BY <2>1, Occupant DEF Cache, TypeOK
    <3> QED BY <2>1, <3>1 DEF Cache
  <2>2. CASE Evict(c, p)
    BY <2>2, EntryFields DEF Evict, exists
  <2> QED BY <2>1, <2>2
<1>2. UNCHANGED <<life, root, table, snap_addr, slot, mem, allocated, lost>>
  BY DEF Cache, Evict
<1>3. TypeOK'
  BY <1>1, <1>2 DEF TypeOK
<1>4. LifeInv'
  BY <1>2 DEF LifeInv, Loaded, Running
<1>5. TlbCoherent'
  BY <1>1, <1>2 DEF TlbCoherent, Running, exists, TypeOK
<1> QED BY <1>2, <1>3, <1>4, <1>5, TablesUnchanged

(***************************************************************************)
(* Creation from a snapshot, and destruction.                              *)
(***************************************************************************)
LEMMA DeployInv ==
    ASSUME MemInv, NEW u \in Inst, NEW s \in Snap, Deploy(u, s)
    PROVE  MemInv'
<1> USE DEF MemInv
<1>1. /\ u \in Owner /\ s \in Owner /\ u # s /\ u \notin Snap
      /\ table[u] = Empty /\ life[u] = "none" /\ life[s] = "live"
      /\ \A o \in Owner : o # u => table'[o] = table[o]
      /\ \A o \in Owner : life'[o] = IF o = u THEN "live" ELSE life[o]
      /\ \A o \in Owner : o # u => root'[o] = root[o]
  BY MemoryAssumption DEF Deploy, LifeInv, TypeOK, Owner
<1>2. \A p \in Page : table[u][p] = Absent
  BY <1>1, EntryFields
<1>3. /\ \A p \in Page : table[s][p].dirty =>
            table'[u][p].frame = table[s][p].frame /\ ~table'[u][p].rw /\ table'[u][p].dirty
      /\ \A p \in Page : ~table[s][p].dirty =>
            table'[u][p].frame = NoFrame /\ ~table'[u][p].rw /\ ~table'[u][p].dirty
      /\ \A p \in Page : table'[u][p] \in Pte
  <2>1. table'[u] = walkPgTblCOW(table[s])
    BY <1>1 DEF Deploy, TypeOK
  <2>2. \A p \in Page : table[s][p].frame \in Frame \cup Elf \cup {NoFrame}
    BY <1>1 DEF TypeOK, Pte
  <2> QED BY <2>1, <2>2 DEF walkPgTblCOW, findAndSetPTECOW, Entry, Absent, Pte
<1>4. UNCHANGED <<snap_addr, slot, tlb, mem, allocated, lost>>
  BY DEF Deploy
<1>5. TypeOK'
  <2>1. table' \in [Owner -> [Page -> Pte]]
    <3>1. walkPgTblCOW(table[s]) \in [Page -> Pte]
      <4>1. table'[u] = walkPgTblCOW(table[s])
        BY <1>1 DEF Deploy, TypeOK
      <4> QED BY <1>3, <4>1 DEF walkPgTblCOW
    <3> QED BY <3>1 DEF Deploy, TypeOK
  <2>2. root' \in [Owner -> BOOLEAN] /\ life' \in [Owner -> {"none", "live", "halted"}]
    BY DEF Deploy, TypeOK
  <2> QED BY <1>4, <2>1, <2>2 DEF TypeOK
<1>6. LifeInv'
  <2>1. \A c \in Core : slot[c] # u
    BY <1>1, MemoryAssumption DEF LifeInv, Running
  <2>2. ~root'[u] => table'[u] = Empty
    <3>1. root'[u] = (\E p \in Page : table[s][p].dirty)
      BY <1>1 DEF Deploy, TypeOK
    <3>2. table'[u] = walkPgTblCOW(table[s])
      BY <1>1 DEF Deploy, TypeOK
    <3> QED BY <3>1, <3>2 DEF walkPgTblCOW, Empty
  <2>3. \A v \in Inst : Loaded(v)' <=> Loaded(v)
    BY <1>4 DEF Loaded
  <2>4. \A v \in Inst : v \in Owner
    BY DEF Owner
  <2>5. \A c \in Core : Running(c)' <=> Running(c)
    BY <1>4 DEF Running
  <2>6. \A o \in Owner : life'[o] = "none" => ~root'[o] /\ table'[o] = Empty
    BY <1>1 DEF LifeInv
  <2>7. \A z \in Snap : life'[z] # "halted" /\ (life'[z] = "live" => root'[z])
    BY <1>1 DEF LifeInv, Owner
  <2>8. \A c \in Core : Running(c)' => life'[slot'[c]] = "live"
    BY <1>1, <1>4, <2>1, <2>5, Occupant DEF LifeInv
  <2>9. \A c, d \in Core : Running(c)' /\ slot'[c] = slot'[d] => c = d
    BY <1>4, <2>5 DEF LifeInv
  <2>10. \A v \in Inst : ~root'[v] /\ ~Loaded(v)' => table'[v] = Empty
    BY <1>1, <2>2, <2>3, <2>4 DEF LifeInv
  <2> QED BY <2>6, <2>7, <2>8, <2>9, <2>10 DEF LifeInv
<1>7. EntryInv'
  <2> SUFFICES ASSUME NEW o \in Owner, NEW p \in Page
               PROVE  EntryOK(o, p, table'[o][p])
    BY DEF EntryInv
  <2>1. CASE o # u
    BY <1>1, <2>1 DEF EntryInv
  <2>2. CASE o = u
    <3>1. EntryOK(s, p, table[s][p])
      BY <1>1 DEF EntryInv
    <3> QED BY <1>1, <1>3, <2>2, <3>1, MemoryAssumption DEF EntryOK, Elf
  <2> QED BY <2>1, <2>2
<1>8. CleanIsImage'
  BY <1>1, <1>3, <1>4 DEF CleanIsImage, exists
<1>9. OneWriter'
  <2> SUFFICES ASSUME NEW o1 \in Owner, NEW o2 \in Owner, NEW p1 \in Page, NEW p2 \in Page,
                      table'[o1][p1].rw, table'[o2][p2].frame = table'[o1][p1].frame,
                      <<o1, p1>> # <<o2, p2>>
               PROVE  o1 \in Snap /\ ~table'[o2][p2].rw /\ p1 = p2
    BY DEF OneWriter
  <2>1. o1 # u /\ table[o1][p1].rw /\ table'[o1][p1] = table[o1][p1]
    BY <1>1, <1>3
  <2>2. CASE o2 # u
    BY <1>1, <2>1, <2>2 DEF OneWriter
  <2>3. CASE o2 = u
    <3>1. table[s][p2].dirty /\ table[s][p2].frame = table[o1][p1].frame /\ ~table'[u][p2].rw
      BY <1>3, <2>1, <2>3, WritableEntry, MemoryAssumption
    <3>2. CASE o1 = s /\ p1 = p2
      BY <2>3, <3>1, <3>2
    <3>3. CASE <<o1, p1>> # <<s, p2>>
      BY <1>1, <2>1, <2>3, <3>1, <3>3 DEF OneWriter
    <3> QED BY <3>2, <3>3
  <2> QED BY <2>2, <2>3
<1>10. SharedHasOwner'
  <2> SUFFICES ASSUME NEW o \in Owner, NEW p \in Page,
                      table'[o][p].frame \in Frame, ~table'[o][p].rw
               PROVE  \E z \in Snap : /\ life'[z] = "live"
                                      /\ table'[z][p].rw
                                      /\ table'[z][p].frame = table'[o][p].frame
    BY DEF SharedHasOwner
  <2>1. \E z \in Snap : /\ life[z] = "live"
                        /\ table[z][p].rw
                        /\ table[z][p].frame = table'[o][p].frame
    <3>1. CASE o # u
      BY <1>1, <3>1 DEF SharedHasOwner
    <3>2. CASE o = u
      <4>1. table[s][p].frame = table'[o][p].frame
        BY <1>3, <3>2, MemoryAssumption
      <4> QED BY <1>1, <4>1 DEF SharedHasOwner
    <3> QED BY <3>1, <3>2
  <2> QED BY <1>1, <2>1 DEF Owner
<1>11. FramesAccounted'
  <2>1. Mapped' = Mapped
    <3>1. \A f : f \in freePageTable(table'[u]) <=> f \in freePageTable(table[u])
      BY <1>2, <1>3, Freed, EntryFields
    <3> QED BY <1>1, <3>1 DEF Mapped
  <2> QED BY <1>4, <2>1 DEF FramesAccounted
<1>12. TlbCoherent'
  <2>1. \A c \in Core : Running(c) => slot[c] # u /\ slot[c] \in Owner
    BY <1>1, Occupant DEF LifeInv
  <2> QED BY <1>1, <1>4, <2>1 DEF TlbCoherent, exists, Running
<1> QED BY <1>5, <1>6, <1>7, <1>8, <1>9, <1>10, <1>11, <1>12

LEMMA DestroyInv ==
    ASSUME MemInv, NEW o \in Owner, Destroy(o)
    PROVE  MemInv'
<1> USE DEF MemInv
<1>1. /\ table'[o] = Empty /\ life'[o] = "none" /\ ~root'[o]
      /\ \A q \in Owner : q # o => /\ table'[q] = table[q]
                                   /\ life'[q] = life[q]
                                   /\ root'[q] = root[q]
  BY DEF Destroy, TypeOK
<1>2. \A p \in Page : table'[o][p] = Absent
  BY <1>1, EntryFields
<1>3. UNCHANGED <<slot, tlb, mem, lost>>
  BY DEF Destroy
<1>4. \A c \in Core : Running(c) => slot[c] # o /\ slot[c] \in Owner
  <2> TAKE c \in Core
  <2> HAVE Running(c)
  <2>1. slot[c] \in Inst /\ slot[c] \in Owner /\ slot[c] \notin Snap /\ life[slot[c]] = "live"
    BY Occupant
  <2> QED BY <2>1 DEF Destroy
<1>5. allocated' = allocated \ freePageTable(table[o])
  <2>1. CASE root[o]
    BY <2>1 DEF Destroy
  <2>2. CASE ~root[o]
    <3>1. o \in Inst /\ ~Loaded(o)
      <4>1. o \in Inst
        BY <2>2 DEF Destroy, LifeInv
      <4>2. \A c \in Core : slot[c] # o
        BY <1>4, <4>1, MemoryAssumption DEF Running
      <4> QED BY <4>1, <4>2 DEF Loaded
    <3>2. table[o] = Empty
      BY <2>2, <3>1 DEF LifeInv
    <3>3. freePageTable(table[o]) = {}
      BY <3>2, Freed, EntryFields
    <3> QED BY <2>2, <3>3 DEF Destroy
  <2> QED BY <2>1, <2>2
<1>6. TypeOK'
  <2>1. table' \in [Owner -> [Page -> Pte]]
    BY EntryFields DEF Destroy, TypeOK
  <2>2. /\ root' \in [Owner -> BOOLEAN]
        /\ life' \in [Owner -> {"none", "live", "halted"}]
        /\ snap_addr' \in [Inst -> {"unset", "set", "taken"}]
    BY DEF Destroy, TypeOK
  <2>3. allocated' \subseteq Frame
    BY <1>5 DEF TypeOK
  <2> QED BY <1>3, <2>1, <2>2, <2>3 DEF TypeOK
<1>7. LifeInv'
  <2>1. \A c \in Core : Running(c)' <=> Running(c)
    BY <1>3 DEF Running
  <2>2. \A v \in Inst : v \in Owner /\ (Loaded(v)' <=> Loaded(v))
    BY <1>3 DEF Loaded, Owner
  <2>3. \A q \in Owner : life'[q] = "none" => ~root'[q] /\ table'[q] = Empty
    BY <1>1 DEF LifeInv
  <2>4. \A z \in Snap : life'[z] # "halted" /\ (life'[z] = "live" => root'[z])
    BY <1>1 DEF LifeInv, Owner
  <2>5. \A c \in Core : Running(c)' => life'[slot'[c]] = "live"
    BY <1>1, <1>3, <1>4, <2>1, Occupant DEF LifeInv
  <2>6. \A c, d \in Core : Running(c)' /\ slot'[c] = slot'[d] => c = d
    BY <1>3, <2>1 DEF LifeInv
  <2>7. \A v \in Inst : ~root'[v] /\ ~Loaded(v)' => table'[v] = Empty
    BY <1>1, <2>2 DEF LifeInv
  <2> QED BY <2>3, <2>4, <2>5, <2>6, <2>7 DEF LifeInv
<1>8. EntryInv'
  <2> SUFFICES ASSUME NEW q \in Owner, NEW p \in Page
               PROVE  EntryOK(q, p, table'[q][p])
    BY DEF EntryInv
  <2>1. CASE q # o
    BY <1>1, <2>1 DEF EntryInv
  <2>2. CASE q = o
    BY <1>2, <2>2, EntryFields, MemoryAssumption DEF EntryOK, Elf
  <2> QED BY <2>1, <2>2
<1>9. CleanIsImage'
  BY <1>1, <1>2, <1>3, EntryFields DEF CleanIsImage, exists
<1>10. OneWriter'
  BY <1>1, <1>2, EntryFields, WritableEntry, MemoryAssumption DEF OneWriter
<1>11. SharedHasOwner'
  <2> SUFFICES ASSUME NEW q \in Owner, NEW p \in Page,
                      table'[q][p].frame \in Frame, ~table'[q][p].rw
               PROVE  \E z \in Snap : /\ life'[z] = "live"
                                      /\ table'[z][p].rw
                                      /\ table'[z][p].frame = table'[q][p].frame
    BY DEF SharedHasOwner
  <2>1. q # o /\ table'[q] = table[q]
    BY <1>1, <1>2, EntryFields, MemoryAssumption
  <2>2. PICK z \in Snap : /\ life[z] = "live"
                          /\ table[z][p].rw
                          /\ table[z][p].frame = table[q][p].frame
    BY <2>1 DEF SharedHasOwner
  <2>3. z # o
    <3> SUFFICES ASSUME z = o PROVE FALSE
      OBVIOUS
    <3>1. table[q][p].frame \in freePageTable(table[o])
      BY <2>1, <2>2, Freed, MemoryAssumption
    <3>2. InUse(o)
      BY <2>1, <3>1 DEF InUse
    <3> QED BY <3>2, MemoryAssumption DEF Destroy
  <2> QED BY <1>1, <2>1, <2>2, <2>3 DEF Owner
<1>12. FramesAccounted'
  <2>1. \A f : f \in Mapped' <=> f \in Mapped /\ f \notin freePageTable(table[o])
    <3>1. \A f : f \in Mapped' <=> \E q \in Owner \ {o} : f \in freePageTable(table[q])
      <4>1. freePageTable(table'[o]) = {}
        BY <1>2, Freed, EntryFields
      <4> QED BY <1>1, <4>1 DEF Mapped
    <3>2. ASSUME NEW q \in Owner \ {o}, NEW f, f \in freePageTable(table[q]),
                 f \in freePageTable(table[o])
          PROVE  FALSE
      <4>1. PICK p1 \in Page : table[q][p1].rw /\ table[q][p1].frame = f
        BY <3>2, Freed
      <4>2. PICK p2 \in Page : table[o][p2].rw /\ table[o][p2].frame = f
        BY <3>2, Freed
      <4> QED BY <4>1, <4>2 DEF OneWriter
    <3> QED BY <3>1, <3>2 DEF Mapped
  <2>2. \A f : f \in freePageTable(table[o]) => f \notin lost
    BY DEF FramesAccounted, Mapped
  <2> QED BY <1>3, <1>5, <2>1, <2>2 DEF FramesAccounted
<1>13. TlbCoherent'
  BY <1>1, <1>3, <1>4 DEF TlbCoherent, exists, Running
<1> QED BY <1>6, <1>7, <1>8, <1>9, <1>10, <1>11, <1>12, <1>13

(***************************************************************************)
(* The occupant leaves the slot.                                           *)
(***************************************************************************)
\* The root of an instance's table is lost, and what it owns with it.
LEMMA TableDropped ==
    ASSUME MemInv, TypeOK', LifeInv', TlbCoherent', NEW u \in Inst,
           table' = [table EXCEPT ![u] = Empty],
           lost' = lost \cup freePageTable(table[u]),
           UNCHANGED <<mem, allocated>>,
           \A s \in Snap : life[s] = "live" => life'[s] = "live"
    PROVE  MemInv'
<1> USE DEF MemInv
<1>1. u \in Owner /\ u \notin Snap
  BY MemoryAssumption DEF Owner
<1>2. /\ table'[u] = Empty
      /\ \A o \in Owner : o # u => table'[o] = table[o]
  BY <1>1 DEF TypeOK
<1>3. \A o \in Owner, p \in Page : table'[o][p] = table[o][p] \/ (o = u /\ table'[o][p] = Absent)
  BY <1>2, EntryFields
<1>4. EntryInv'
  BY <1>3, EntryFields, MemoryAssumption DEF EntryInv, EntryOK, Elf
<1>5. CleanIsImage'
  BY <1>3, EntryFields DEF CleanIsImage, exists
<1>6. OneWriter'
  <2>1. \A o \in Owner, p \in Page :
            table'[o][p].rw => table[o][p].rw /\ table'[o][p].frame = table[o][p].frame
    BY <1>3, EntryFields
  <2>2. \A o \in Owner, p \in Page :
            table'[o][p].frame # NoFrame => table'[o][p] = table[o][p]
    BY <1>3, EntryFields
  <2> QED BY <2>1, <2>2, WritableEntry, MemoryAssumption DEF OneWriter
<1>7. SharedHasOwner'
  BY <1>1, <1>2, <1>3, EntryFields, MemoryAssumption DEF SharedHasOwner, Owner
<1>8. FramesAccounted'
  <2>1. freePageTable(table'[u]) = {}
    BY <1>2, Freed, EntryFields
  <2>2. \A f : f \in Mapped <=> f \in Mapped' \/ f \in freePageTable(table[u])
    BY <1>1, <1>2, <2>1 DEF Mapped
  <2>3. ASSUME NEW o \in Owner, o # u, NEW f, f \in freePageTable(table[o]),
               f \in freePageTable(table[u])
        PROVE  FALSE
    <3>1. PICK p1 \in Page : table[o][p1].rw /\ table[o][p1].frame = f
      BY <2>3, Freed
    <3>2. PICK p2 \in Page : table[u][p2].rw /\ table[u][p2].frame = f
      BY <2>3, Freed
    <3> QED BY <1>1, <2>3, <3>1, <3>2 DEF OneWriter
  <2>4. \A f : f \in Mapped' => f \notin freePageTable(table[u])
    BY <1>2, <2>1, <2>3 DEF Mapped
  <2> QED BY <2>2, <2>4 DEF FramesAccounted
<1> QED BY <1>4, <1>5, <1>6, <1>7, <1>8

LEMMA UnloadInv ==
    ASSUME MemInv, NEW c \in Core, SwapOut(c) \/ Halt(c)
    PROVE  MemInv'
<1> USE DEF MemInv
<1> DEFINE u == slot[c]
<1>1. /\ u \in Inst /\ u \in Owner /\ u \notin Snap
      /\ life[u] = "live" /\ Running(c)
      /\ \A d \in Core : slot[d] = u => d = c
  BY Occupant DEF SwapOut, Halt
<1>2. /\ slot' = [slot EXCEPT ![c] = NoInst]
      /\ tlb' = [tlb EXCEPT ![c] = Empty]
      /\ UNCHANGED <<root, snap_addr, mem, allocated>>
  BY DEF SwapOut, Halt, slot_unload_instance, FlushedAll
<1>3. \/ root[u] /\ table' = table /\ lost' = lost
      \/ /\ ~root[u]
         /\ table' = [table EXCEPT ![u] = Empty]
         /\ lost' = lost \cup freePageTable(table[u])
  BY <1>1 DEF SwapOut, Halt, slot_unload_instance
<1>4. \/ life' = life
      \/ life' = [life EXCEPT ![u] = "halted"]
  BY DEF SwapOut, Halt
<1>5. /\ slot'[c] = NoInst
      /\ \A d \in Core : d # c => slot'[d] = slot[d] /\ tlb'[d] = tlb[d] /\ slot[d] # u
      /\ \A p \in Page : tlb'[c][p] = Absent
      /\ \A d \in Core : Running(d)' <=> Running(d) /\ d # c
  BY <1>1, <1>2, EntryFields DEF TypeOK, Running
<1>6. \A o \in Owner : o # u => table'[o] = table[o] /\ life'[o] = life[o]
  BY <1>1, <1>3, <1>4 DEF TypeOK
<1> HIDE DEF u
<1>7. TypeOK'
  <2>1. slot' \in [Core -> Inst \cup {NoInst}] /\ tlb' \in [Core -> [Page -> Pte]]
    BY <1>2, EntryFields DEF TypeOK
  <2>2. life' \in [Owner -> {"none", "live", "halted"}]
    BY <1>4 DEF TypeOK
  <2>3. table' \in [Owner -> [Page -> Pte]]
    BY <1>3, EntryFields DEF TypeOK
  <2>4. freePageTable(table[u]) \subseteq Frame
    BY <1>1, Freed, WritableEntry
  <2>5. lost' \subseteq Frame
    BY <1>3, <2>4 DEF TypeOK
  <2> QED BY <1>2, <2>1, <2>2, <2>3, <2>5 DEF TypeOK
<1>8. LifeInv'
  <2>1. \A o \in Owner : life'[o] = "none" => ~root'[o] /\ table'[o] = Empty
    <3>1. life'[u] # "none"
      BY <1>1, <1>4 DEF TypeOK
    <3> QED BY <1>2, <1>6, <3>1 DEF LifeInv
  <2>2. \A z \in Snap : life'[z] # "halted" /\ (life'[z] = "live" => root'[z])
    BY <1>1, <1>2, <1>6 DEF LifeInv, Owner
  <2>3. \A d \in Core : Running(d)' => life'[slot'[d]] = "live"
    BY <1>5, <1>6, Occupant DEF LifeInv
  <2>4. \A d, e \in Core : Running(d)' /\ slot'[d] = slot'[e] => d = e
    BY <1>5, MemoryAssumption DEF LifeInv, Running
  <2>5. \A v \in Inst : ~root'[v] /\ ~Loaded(v)' => table'[v] = Empty
    <3> TAKE v \in Inst
    <3> HAVE ~root'[v] /\ ~Loaded(v)'
    <3>1. CASE v = u
      BY <1>1, <1>2, <1>3, <3>1 DEF TypeOK
    <3>2. CASE v # u
      <4>1. ~Loaded(v)
        BY <1>5, <3>2 DEF Loaded, u
      <4> QED BY <1>2, <1>6, <3>2, <4>1 DEF LifeInv, Owner
    <3> QED BY <3>1, <3>2
  <2> QED BY <2>1, <2>2, <2>3, <2>4, <2>5 DEF LifeInv
<1>9. TlbCoherent'
  <2> SUFFICES ASSUME NEW d \in Core, NEW p \in Page, exists(tlb'[d][p])
               PROVE  /\ Running(d)'
                      /\ tlb'[d][p].frame = table'[slot'[d]][p].frame
                      /\ tlb'[d][p].rw = table'[slot'[d]][p].rw
    BY DEF TlbCoherent, exists
  <2>1. d # c
    BY <1>5, EntryFields DEF exists
  <2>2. Running(d) /\ tlb[d][p].frame = table[slot[d]][p].frame
        /\ tlb[d][p].rw = table[slot[d]][p].rw
    BY <1>5, <2>1 DEF TlbCoherent
  <2>3. slot[d] \in Owner
    BY <2>2, Occupant
  <2> QED BY <1>5, <1>6, <2>1, <2>2, <2>3
<1>10. \A z \in Snap : life[z] = "live" => life'[z] = "live"
  BY <1>1, <1>6 DEF Owner
<1>11. CASE root[u] /\ table' = table /\ lost' = lost
  BY <1>2, <1>7, <1>8, <1>9, <1>10, <1>11, TablesUnchanged
<1>12. CASE table' = [table EXCEPT ![u] = Empty] /\ lost' = lost \cup freePageTable(table[u])
  BY <1>1, <1>2, <1>7, <1>8, <1>9, <1>10, <1>12, TableDropped
<1> QED BY <1>3, <1>11, <1>12

(***************************************************************************)
(* The guest's steps.                                                      *)
(***************************************************************************)
\* What a store changes.
LEMMA StoreEffect ==
    ASSUME MemInv, NEW c \in Core, NEW p \in Page, NEW v \in Val, Store(c, p, v)
    PROVE  LET u == slot[c] IN
           /\ u \in Inst /\ u \in Owner /\ u \notin Snap /\ Running(c) /\ life[u] = "live"
           /\ \A d \in Core : slot[d] = u => d = c
           /\ table[u][p].rw /\ table[u][p].frame \in Frame
           /\ mem' = [mem EXCEPT ![table[u][p].frame] = v]
           /\ \A o \in Owner : o # u => table'[o] = table[o]
           /\ \A q \in Page : q # p => table'[u][q] = table[u][q]
           /\ table'[u][p].frame = table[u][p].frame /\ table'[u][p].rw
           /\ table'[u][p].dirty
           /\ UNCHANGED <<life, root, snap_addr, slot, allocated, lost>>
<1> DEFINE u == slot[c]
<1>1. /\ u \in Inst /\ u \in Owner /\ u \notin Snap /\ Running(c) /\ life[u] = "live"
      /\ \A d \in Core : slot[d] = u => d = c
  BY Occupant DEF Store, MemInv
<1>2. Translation(c, p).frame = table[u][p].frame /\ Translation(c, p).rw = table[u][p].rw
  BY <1>1, Coherent DEF MemInv
<1>3. table[u][p].rw /\ table[u][p].frame \in Frame /\ table[u][p] \in Pte
  BY <1>1, <1>2, WritableEntry DEF Store, MemInv
<1>4. table' = [table EXCEPT ![u] = [table[u] EXCEPT ![p] = [table[u][p] EXCEPT !.dirty = TRUE]]]
  BY DEF Store, mapIntoPgTbl
<1>5. table'[u] = [table[u] EXCEPT ![p] = [table[u][p] EXCEPT !.dirty = TRUE]]
  BY <1>1, <1>4 DEF MemInv, TypeOK
<1>6. table'[u][p] = [table[u][p] EXCEPT !.dirty = TRUE]
  BY <1>1, <1>5 DEF MemInv, TypeOK
<1>7. table'[u][p].frame = table[u][p].frame /\ table'[u][p].rw = table[u][p].rw
      /\ table'[u][p].dirty
  BY <1>3, <1>6 DEF Pte
<1>8. \A q \in Page : q # p => table'[u][q] = table[u][q]
  BY <1>1, <1>5 DEF MemInv, TypeOK
<1>9. \A o \in Owner : o # u => table'[o] = table[o]
  BY <1>1, <1>4 DEF MemInv, TypeOK
<1>10. /\ mem' = [mem EXCEPT ![table[u][p].frame] = v]
       /\ UNCHANGED <<life, root, snap_addr, slot, allocated, lost>>
  BY <1>2 DEF Store
<1> QED BY <1>1, <1>3, <1>7, <1>8, <1>9, <1>10

\* A translation comes from the TLB or from a table: it is an entry.
LEMMA TranslationType ==
    ASSUME TypeOK, NEW c \in Core, NEW p \in Page, slot[c] \in Owner
    PROVE  Translation(c, p) \in Pte
<1>1. tlb[c][p] \in Pte
  BY DEF TypeOK
<1>2. table[slot[c]][p] \in Pte
  BY DEF TypeOK
<1> QED BY <1>1, <1>2 DEF Translation

LEMMA StoreInv ==
    ASSUME MemInv, NEW c \in Core, NEW p \in Page, NEW v \in Val, Store(c, p, v)
    PROVE  MemInv'
<1> USE DEF MemInv
<1> DEFINE u == slot[c]
<1>1. /\ u \in Inst /\ u \in Owner /\ u \notin Snap /\ Running(c) /\ life[u] = "live"
      /\ \A d \in Core : slot[d] = u => d = c
      /\ table[u][p].rw /\ table[u][p].frame \in Frame
      /\ mem' = [mem EXCEPT ![table[u][p].frame] = v]
      /\ \A o \in Owner : o # u => table'[o] = table[o]
      /\ \A q \in Page : q # p => table'[u][q] = table[u][q]
      /\ table'[u][p].frame = table[u][p].frame /\ table'[u][p].rw
      /\ table'[u][p].dirty
      /\ UNCHANGED <<life, root, snap_addr, slot, allocated, lost>>
  BY StoreEffect
<1>2. Translation(c, p) \in Pte
  <2>1. TypeOK
    OBVIOUS
  <2> QED BY ONLY <1>1, <2>1, TranslationType
<1>3. PICK cached \in {[Translation(c, p) EXCEPT !.dirty = TRUE], Absent} :
             tlb' = [tlb EXCEPT ![c] = [@ EXCEPT ![p] = cached]]
  BY DEF Store
<1>3a. table' = [table EXCEPT ![u] = [table[u] EXCEPT ![p] = [table[u][p] EXCEPT !.dirty = TRUE]]]
  BY DEF Store, mapIntoPgTbl
<1>4. Translation(c, p).frame = table[u][p].frame /\ Translation(c, p).rw = table[u][p].rw
  BY <1>1, Coherent
<1> HIDE DEF u
<1>5. TypeOK'
  <2>1. cached \in Pte
    <3>1. [Translation(c, p) EXCEPT !.dirty = TRUE] \in Pte
      BY <1>2 DEF Pte
    <3>2. Absent \in Pte
      BY DEF Pte, Absent, Entry
    <3> QED BY <3>1, <3>2
  <2>2. tlb' \in [Core -> [Page -> Pte]]
    BY <1>3, <2>1 DEF TypeOK
  <2>3. [table[u][p] EXCEPT !.dirty = TRUE] \in Pte
    BY <1>1, WritableEntry DEF Pte
  <2>4. table' \in [Owner -> [Page -> Pte]]
    <3>1. [table[u] EXCEPT ![p] = [table[u][p] EXCEPT !.dirty = TRUE]] \in [Page -> Pte]
      BY <1>1, <2>3 DEF TypeOK
    <3> QED BY <1>3a, <3>1 DEF TypeOK
  <2>5. mem' \in [Frame \cup Elf -> Val]
    BY <1>1 DEF TypeOK
  <2> QED BY <1>1, <2>2, <2>4, <2>5 DEF TypeOK
<1>6. \A o \in Owner, q \in Page : /\ table'[o][q].frame = table[o][q].frame
                                   /\ table'[o][q].rw = table[o][q].rw
                                   /\ table[o][q].dirty => table'[o][q].dirty
                                   /\ <<o, q>> # <<u, p>> => table'[o][q] = table[o][q]
  <2> TAKE o \in Owner, q \in Page
  <2>1. CASE o = u /\ q = p
    <3>1. table'[u][p] \in Pte /\ table[u][p] \in Pte
      BY <1>1, <1>5 DEF TypeOK
    <3> QED BY <1>1, <2>1, <3>1 DEF Pte
  <2>2. CASE ~(o = u /\ q = p)
    BY <1>1, <2>2
  <2> QED BY <2>1, <2>2
<1>7. LifeInv'
  <2>1. \A d \in Core : Running(d)' <=> Running(d)
    BY <1>1 DEF Running
  <2>2. \A w \in Inst : w \in Owner /\ (Loaded(w)' <=> Loaded(w))
    BY <1>1 DEF Loaded, Owner
  <2>3. Loaded(u)
    BY <1>1 DEF Loaded, u
  <2>4. \A o \in Owner : life'[o] = "none" => ~root'[o] /\ table'[o] = Empty
    BY <1>1 DEF LifeInv
  <2>5. \A w \in Inst : ~root'[w] /\ ~Loaded(w)' => table'[w] = Empty
    BY <1>1, <2>2, <2>3 DEF LifeInv
  <2> QED BY <1>1, <2>1, <2>4, <2>5 DEF LifeInv
<1>8. EntryInv'
  BY <1>1, <1>6, MemoryAssumption DEF EntryInv, EntryOK, Elf
<1>9. OneWriter'
  BY <1>6 DEF OneWriter
<1>10. SharedHasOwner'
  BY <1>1, <1>6 DEF SharedHasOwner, Owner
<1>11. FramesAccounted'
  <2>1. \A o \in Owner : \A f : f \in freePageTable(table'[o]) <=> f \in freePageTable(table[o])
    BY <1>6, Freed
  <2> QED BY <1>1, <2>1 DEF FramesAccounted, Mapped
<1>12. CleanIsImage'
  <2>1. \A q \in Elf : mem'[q] = Image[q]
    BY <1>1, MemoryAssumption DEF CleanIsImage, TypeOK, Elf
  <2> SUFFICES ASSUME NEW o \in Owner, NEW q \in Page,
                      exists(table'[o][q]), ~table'[o][q].dirty
               PROVE  mem'[table'[o][q].frame] = Image[q]
    BY <2>1 DEF CleanIsImage, exists
  <2>2. <<o, q>> # <<u, p>> /\ table'[o][q] = table[o][q]
    BY <1>1, <1>6
  <2>3. table[o][q].frame # table[u][p].frame
    BY <1>1, <2>2 DEF OneWriter
  <2>4. table[o][q].frame \in Frame \cup Elf
    <3>1. table[o][q] \in Pte
      BY DEF TypeOK
    <3> QED BY <2>2, <3>1 DEF Pte, exists
  <2>5. mem'[table[o][q].frame] = mem[table[o][q].frame]
    BY <1>1, <2>3, <2>4 DEF TypeOK
  <2>6. exists(table[o][q]) /\ ~table[o][q].dirty
    BY <2>2
  <2> QED BY <2>2, <2>5, <2>6 DEF CleanIsImage
<1>13. TlbCoherent'
  <2> SUFFICES ASSUME NEW d \in Core, NEW q \in Page, exists(tlb'[d][q])
               PROVE  /\ Running(d)'
                      /\ tlb'[d][q].frame = table'[slot'[d]][q].frame
                      /\ tlb'[d][q].rw = table'[slot'[d]][q].rw
    BY DEF TlbCoherent, exists
  <2>1. CASE d = c /\ q = p
    <3>1. tlb'[c][p] = cached /\ cached # Absent
      BY <1>3, <2>1 DEF TypeOK, exists, Absent, Entry
    <3>2. tlb'[c][p].frame = Translation(c, p).frame /\ tlb'[c][p].rw = Translation(c, p).rw
      BY <1>2, <1>3, <3>1 DEF Pte
    <3> QED BY <1>1, <1>4, <1>6, <2>1, <3>2 DEF Running, u
  <2>2. CASE ~(d = c /\ q = p)
    <3>1. tlb'[d][q] = tlb[d][q]
      BY <1>3, <2>2 DEF TypeOK
    <3>2. Running(d) /\ tlb[d][q].frame = table[slot[d]][q].frame
          /\ tlb[d][q].rw = table[slot[d]][q].rw
      BY <3>1 DEF TlbCoherent
    <3>3. slot[d] \in Owner
      BY <3>2, Occupant
    <3> QED BY <1>1, <1>6, <3>1, <3>2, <3>3 DEF Running
  <2> QED BY <2>1, <2>2
<1> QED BY <1>5, <1>7, <1>8, <1>9, <1>10, <1>11, <1>12, <1>13

\* Page p of u gets a backing page f, new or the image's, which contains what the guest
\* found there before.
Backed(u, p, write, f) ==
    /\ p \in Writable => f \in Frame /\ f \notin allocated
    /\ p \notin Writable => f = p /\ f \in Elf
    /\ \A o \in Owner, q \in Page : f \in Frame => table[o][q].frame # f
    /\ table' = [table EXCEPT ![u] =
                   [table[u] EXCEPT ![p] = Entry(f, p \in Writable, write)]]
    /\ allocated' = allocated \cup ({f} \cap Frame)
    /\ mem'[f] = IF table[u][p].frame # NoFrame THEN mem[table[u][p].frame]
                                                 ELSE Image[p]
    /\ \A g \in Frame \cup Elf : g # f => mem'[g] = mem[g]
    /\ mem' \in [Frame \cup Elf -> Val]

\* A page fault backs its page, and changes nothing else but the cached translation.
LEMMA PageFaultEffect ==
    ASSUME MemInv, NEW c \in Core, NEW p \in Page, NEW write \in BOOLEAN,
           PageFault(c, p, write)
    PROVE  /\ slot[c] \in Inst /\ slot[c] \in Owner /\ slot[c] \notin Snap
           /\ Running(c) /\ life[slot[c]] = "live"
           /\ \A d \in Core : slot[d] = slot[c] => d = c
           /\ ~table[slot[c]][p].rw
           /\ table[slot[c]][p].frame = NoFrame \/ write
           /\ write => p \in Writable
           /\ exists(Translation(c, p)) <=> table[slot[c]][p].frame # NoFrame
           /\ UNCHANGED <<life, root, snap_addr, slot, lost>>
<1> DEFINE u == slot[c]
<1>1. /\ u \in Inst /\ u \in Owner /\ u \notin Snap /\ Running(c) /\ life[u] = "live"
      /\ \A d \in Core : slot[d] = u => d = c
  BY Occupant DEF PageFault, MemInv
<1>2. Translation(c, p).frame = table[u][p].frame /\ Translation(c, p).rw = table[u][p].rw
  BY <1>1, Coherent DEF MemInv
<1>3. /\ ~table[u][p].rw
      /\ table[u][p].frame = NoFrame \/ write
      /\ write => p \in Writable
      /\ exists(Translation(c, p)) <=> table[u][p].frame # NoFrame
  <2>1. /\ ~exists(Translation(c, p)) \/ (write /\ ~Translation(c, p).rw)
        /\ write => p \in Writable
    BY DEF PageFault
  <2>2. exists(Translation(c, p)) <=> table[u][p].frame # NoFrame
    BY <1>2 DEF exists
  <2>3. table[u][p].frame = NoFrame => ~table[u][p].rw
    BY <1>1, WritableEntry, MemoryAssumption DEF MemInv
  <2> QED BY <1>2, <2>1, <2>2, <2>3
<1>4. UNCHANGED <<life, root, snap_addr, slot, lost>>
  BY DEF PageFault
<1> QED BY <1>1, <1>3, <1>4

\* The page that backs the one that faulted.
LEMMA PageFaultBacks ==
    ASSUME MemInv, NEW c \in Core, NEW p \in Page, NEW write \in BOOLEAN,
           PageFault(c, p, write)
    PROVE  \E f \in Frame \cup Elf : Backed(slot[c], p, write, f)
<1> DEFINE u == slot[c]
<1>1. u \in Owner
  BY PageFaultEffect
<1>2. exists(Translation(c, p)) <=> table[u][p].frame # NoFrame
  BY PageFaultEffect
<1>3. Translation(c, p).frame = table[u][p].frame
  <2>1. u \in Inst /\ Running(c)
    BY Occupant DEF PageFault, MemInv
  <2> QED BY <2>1, Coherent DEF MemInv
<1>4. PICK f \in BackingFrames(p) :
          /\ table' = [table EXCEPT ![u] =
                         [table[u] EXCEPT ![p] = Entry(f, p \in Writable, write)]]
          /\ allocated' = allocated \cup ({f} \cap Frame)
          /\ mem' = [g \in DOMAIN mem |-> IF g = f THEN BackingContent(c, p) ELSE mem[g]]
  BY DEF PageFault, mapIntoPgTbl
<1>5. /\ f \in Frame \cup Elf
      /\ p \in Writable => f \in Frame /\ f \notin allocated
      /\ p \notin Writable => f = p /\ f \in Elf
  BY DEF BackingFrames, Elf
<1>6. \A o \in Owner, q \in Page : f \in Frame => table[o][q].frame # f
  BY <1>5, MappedAllocated, MemoryAssumption DEF MemInv, Elf
<1>7. BackingContent(c, p) = IF table[u][p].frame # NoFrame THEN mem[table[u][p].frame]
                                                             ELSE Image[p]
  BY <1>2, <1>3 DEF BackingContent
<1>8. DOMAIN mem = Frame \cup Elf /\ mem \in [Frame \cup Elf -> Val]
  BY DEF MemInv, TypeOK
<1>9. BackingContent(c, p) \in Val
  <2>1. CASE table[u][p].frame = NoFrame
    BY <1>7, <2>1, MemoryAssumption
  <2>2. CASE table[u][p].frame # NoFrame
    <3>1. table[u][p].frame \in Frame \cup Elf
      <4>1. table[u][p] \in Pte
        BY <1>1, WritableEntry DEF MemInv
      <4> QED BY <2>2, <4>1 DEF Pte
    <3> QED BY <1>7, <1>8, <2>2, <3>1
  <2> QED BY <2>1, <2>2
<1>10. /\ mem'[f] = BackingContent(c, p)
       /\ \A g \in Frame \cup Elf : g # f => mem'[g] = mem[g]
       /\ mem' \in [Frame \cup Elf -> Val]
  BY <1>4, <1>5, <1>8, <1>9
<1>11. Backed(u, p, write, f)
  BY <1>4, <1>5, <1>6, <1>7, <1>10 DEF Backed
<1> QED BY <1>5, <1>11

LEMMA PageFaultInv ==
    ASSUME MemInv, NEW c \in Core, NEW p \in Page, NEW write \in BOOLEAN,
           PageFault(c, p, write)
    PROVE  MemInv'
<1> DEFINE u == slot[c]
<1>1. /\ u \in Inst /\ u \in Owner /\ u \notin Snap /\ Running(c) /\ life[u] = "live"
      /\ \A d \in Core : slot[d] = u => d = c
      /\ ~table[u][p].rw
      /\ table[u][p].frame = NoFrame \/ write
      /\ write => p \in Writable
      /\ exists(Translation(c, p)) <=> table[u][p].frame # NoFrame
      /\ UNCHANGED <<life, root, snap_addr, slot, lost>>
  BY PageFaultEffect
<1>2. PICK f \in Frame \cup Elf : Backed(u, p, write, f)
  BY PageFaultBacks
<1> HIDE DEF u
<1> USE DEF MemInv, Backed
<1>3. /\ table'[u][p].frame = f
      /\ table'[u][p].rw <=> p \in Writable
      /\ table'[u][p].dirty <=> write
      /\ table'[u][p] \in Pte
  <2>1. table'[u][p] = Entry(f, p \in Writable, write)
    BY <1>1, <1>2 DEF TypeOK
  <2>2. PICK rw \in BOOLEAN : rw <=> p \in Writable
    OBVIOUS
  <2>3. table'[u][p] = Entry(f, rw, write)
    BY <2>1, <2>2
  <2> QED BY <2>2, <2>3, EntryFields
<1>4. \A o \in Owner, q \in Page : <<o, q>> # <<u, p>> => table'[o][q] = table[o][q]
  BY <1>1, <1>2 DEF TypeOK
<1>5. TypeOK'
  <2>1. Entry(f, p \in Writable, write) \in Pte
    BY DEF Entry, Pte
  <2>2. table' \in [Owner -> [Page -> Pte]]
    <3>1. [table[u] EXCEPT ![p] = Entry(f, p \in Writable, write)] \in [Page -> Pte]
      BY <1>1, <2>1 DEF TypeOK
    <3> QED BY <1>2, <3>1 DEF TypeOK
  <2>3. tlb' \in [Core -> [Page -> Pte]]
    <3>1. tlb' = tlb \/ tlb' = [tlb EXCEPT ![c] = [@ EXCEPT ![p] = Absent]]
      BY DEF PageFault, FlushedPage
    <3>2. [tlb[c] EXCEPT ![p] = Absent] \in [Page -> Pte]
      BY EntryFields DEF TypeOK
    <3> QED BY <3>1, <3>2 DEF TypeOK
  <2> QED BY <1>1, <1>2, <2>2, <2>3 DEF TypeOK
<1>6. LifeInv'
  <2>1. \A d \in Core : Running(d)' <=> Running(d)
    BY <1>1 DEF Running
  <2>2. \A w \in Inst : w \in Owner /\ (Loaded(w)' <=> Loaded(w))
    BY <1>1 DEF Loaded, Owner
  <2>3. Loaded(u)
    BY <1>1 DEF Loaded, u
  <2>4. \A o \in Owner : o # u => table'[o] = table[o]
    BY <1>1, <1>2 DEF TypeOK
  <2>5. \A o \in Owner : life'[o] = "none" => ~root'[o] /\ table'[o] = Empty
    BY <1>1, <2>4 DEF LifeInv
  <2>6. \A w \in Inst : ~root'[w] /\ ~Loaded(w)' => table'[w] = Empty
    BY <1>1, <2>2, <2>3, <2>4 DEF LifeInv
  <2> QED BY <1>1, <2>1, <2>5, <2>6 DEF LifeInv
<1>7. EntryInv'
  <2> SUFFICES ASSUME NEW o \in Owner, NEW q \in Page
               PROVE  EntryOK(o, q, table'[o][q])
    BY DEF EntryInv
  <2>1. CASE <<o, q>> # <<u, p>>
    BY <1>4, <2>1 DEF EntryInv
  <2>2. CASE o = u /\ q = p
    BY <1>1, <1>2, <1>3, <2>2, MemoryAssumption DEF EntryOK, Elf
  <2> QED BY <2>1, <2>2
<1>8. CleanIsImage'
  <2>1. \A q \in Elf : mem'[q] = Image[q]
    <3> TAKE q \in Elf
    <3>1. CASE q # f
      BY <1>2, <3>1 DEF CleanIsImage
    <3>2. CASE q = f
      <4>1. p = q /\ ~write /\ table[u][p].frame = NoFrame
        BY <1>1, <1>2, <3>2, MemoryAssumption DEF Elf
      <4> QED BY <1>2, <3>2, <4>1
    <3> QED BY <3>1, <3>2
  <2> SUFFICES ASSUME NEW o \in Owner, NEW q \in Page,
                      exists(table'[o][q]), ~table'[o][q].dirty
               PROVE  mem'[table'[o][q].frame] = Image[q]
    BY <2>1 DEF CleanIsImage, exists
  <2>2. CASE o = u /\ q = p
    BY <1>1, <1>2, <1>3, <2>2
  <2>3. CASE <<o, q>> # <<u, p>>
    <3>1. table'[o][q] = table[o][q]
      BY <1>4, <2>3
    <3>2. mem[table[o][q].frame] = Image[q]
      BY <3>1 DEF CleanIsImage, exists
    <3>3. table[o][q].frame \in Frame \cup Elf
      <4>1. table[o][q] \in Pte
        BY DEF TypeOK
      <4> QED BY <3>1, <4>1 DEF Pte, exists
    <3>4. CASE table[o][q].frame # f
      BY <1>2, <3>1, <3>2, <3>3, <3>4
    <3>5. CASE table[o][q].frame = f
      <4>1. f \in Elf /\ f = q
        BY <1>2, <3>5 DEF EntryInv, EntryOK
      <4> QED BY <2>1, <3>1, <3>5, <4>1
    <3> QED BY <3>4, <3>5
  <2> QED BY <2>2, <2>3
<1>9. OneWriter'
  <2> SUFFICES ASSUME NEW o1 \in Owner, NEW o2 \in Owner, NEW p1 \in Page, NEW p2 \in Page,
                      table'[o1][p1].rw, table'[o2][p2].frame = table'[o1][p1].frame,
                      <<o1, p1>> # <<o2, p2>>
               PROVE  o1 \in Snap /\ ~table'[o2][p2].rw /\ p1 = p2
    BY DEF OneWriter
  <2>1. CASE o1 = u /\ p1 = p
    <3>1. f \in Frame /\ table[o2][p2].frame = f
      BY <1>2, <1>3, <1>4, <2>1
    <3> QED BY <1>2, <3>1
  <2>2. CASE o2 = u /\ p2 = p
    <3>1. table[o1][p1].rw /\ table[o1][p1].frame = f
      BY <1>3, <1>4, <2>2
    <3>2. f \in Frame
      BY <3>1, WritableEntry
    <3> QED BY <1>2, <3>1, <3>2
  <2>3. CASE <<o1, p1>> # <<u, p>> /\ <<o2, p2>> # <<u, p>>
    BY <1>4, <2>3 DEF OneWriter
  <2> QED BY <2>1, <2>2, <2>3
<1>10. SharedHasOwner'
  <2> SUFFICES ASSUME NEW o \in Owner, NEW q \in Page,
                      table'[o][q].frame \in Frame, ~table'[o][q].rw
               PROVE  \E z \in Snap : /\ life'[z] = "live"
                                      /\ table'[z][q].rw
                                      /\ table'[z][q].frame = table'[o][q].frame
    BY DEF SharedHasOwner
  <2>1. <<o, q>> # <<u, p>>
    BY <1>2, <1>3, MemoryAssumption DEF Elf
  <2>2. table'[o][q] = table[o][q]
    BY <1>4, <2>1
  <2>3. PICK z \in Snap : /\ life[z] = "live"
                          /\ table[z][q].rw
                          /\ table[z][q].frame = table[o][q].frame
    BY <2>2 DEF SharedHasOwner
  <2> QED BY <1>1, <1>4, <2>2, <2>3 DEF Owner
<1>11. FramesAccounted'
  <2>1. \A g : g \in Mapped' <=> g \in Mapped \/ (g = f /\ f \in Frame)
    <3>1. f \in Frame <=> p \in Writable
      BY <1>2, MemoryAssumption DEF Elf
    <3>2. f \in Frame => f # NoFrame
      BY MemoryAssumption
    <3>3. \A g : g \in Mapped' <=>
             \E o \in Owner : \E q \in Page :
                table'[o][q].frame # NoFrame /\ table'[o][q].rw /\ table'[o][q].frame = g
      BY Freed DEF Mapped
    <3> QED BY <1>1, <1>3, <1>4, <3>1, <3>2, <3>3, MappedFrames
  <2>2. f \in Frame => f \notin lost
    BY <1>2, MemoryAssumption DEF FramesAccounted, Elf
  <2> QED BY <1>1, <1>2, <2>1, <2>2 DEF FramesAccounted
<1>12. TlbCoherent'
  <2> SUFFICES ASSUME NEW d \in Core, NEW q \in Page, exists(tlb'[d][q])
               PROVE  /\ Running(d)'
                      /\ tlb'[d][q].frame = table'[slot'[d]][q].frame
                      /\ tlb'[d][q].rw = table'[slot'[d]][q].rw
    BY DEF TlbCoherent, exists
  <2>1. tlb'[d][q] = tlb[d][q] /\ <<d, q>> # <<c, p>>
    <3>1. CASE exists(Translation(c, p))
      <4>1. tlb' = [tlb EXCEPT ![c] = [tlb[c] EXCEPT ![p] = Absent]]
        BY <3>1 DEF PageFault, FlushedPage
      <4> QED BY <4>1, EntryFields DEF TypeOK, exists
    <3>2. CASE ~exists(Translation(c, p))
      <4>1. tlb' = tlb
        BY <3>2 DEF PageFault
      <4> QED BY <3>2, <4>1 DEF Translation
    <3> QED BY <3>1, <3>2
  <2>2. /\ Running(d) /\ tlb[d][q].frame = table[slot[d]][q].frame
        /\ tlb[d][q].rw = table[slot[d]][q].rw
    BY <2>1 DEF TlbCoherent
  <2>3. slot[d] \in Owner /\ <<slot[d], q>> # <<u, p>>
    BY <1>1, <2>1, <2>2, Occupant DEF u
  <2> QED BY <1>1, <1>4, <2>1, <2>2, <2>3 DEF Running
<1> QED BY <1>5, <1>6, <1>7, <1>8, <1>9, <1>10, <1>11, <1>12

\* Snapshot s gets copies, in the frames fresh, of the pages that instance u owns, and
\* shares those u shares.
Copied(u, s, fresh) ==
    /\ \A o \in Owner : o # s => table'[o] = table[o]
    /\ \A p \in Page : table'[s][p] \in Pte
    /\ \A p \in Page : table[u][p].dirty /\ table[u][p].rw =>
          /\ table'[s][p].frame = fresh[p] /\ table'[s][p].rw /\ table'[s][p].dirty
          /\ fresh[p] \in Frame /\ fresh[p] \notin allocated
          /\ mem'[fresh[p]] = mem[table[u][p].frame]
    /\ \A p \in Page : table[u][p].dirty /\ ~table[u][p].rw =>
          /\ table'[s][p].frame = table[u][p].frame
          /\ ~table'[s][p].rw /\ table'[s][p].dirty
    /\ \A p \in Page : ~table[u][p].dirty =>
          table'[s][p].frame = NoFrame /\ ~table'[s][p].rw /\ ~table'[s][p].dirty
    /\ \A p, q \in ToCopy(table[u]) : fresh[p] = fresh[q] => p = q
    /\ allocated' = allocated \cup {fresh[p] : p \in ToCopy(table[u])}
    /\ \A g \in Frame \cup Elf :
          (\A p \in ToCopy(table[u]) : fresh[p] # g) => mem'[g] = mem[g]
    /\ mem' \in [Frame \cup Elf -> Val]

\* A checkpoint makes the snapshot, and changes nothing else.
LEMMA CheckpointEffect ==
    ASSUME MemInv, NEW c \in Core, NEW s \in Snap, Checkpoint(c, s)
    PROVE  /\ slot[c] \in Inst /\ slot[c] \in Owner /\ s \in Owner /\ s \notin Inst
           /\ Running(c) /\ life[slot[c]] = "live"
           /\ life[s] = "none" /\ table[s] = Empty
           /\ life' = [life EXCEPT ![s] = "live"]
           /\ root' = [root EXCEPT ![s] = TRUE]
           /\ UNCHANGED <<slot, lost>>
           /\ \E fresh \in [ToCopy(table[slot[c]]) -> Frame \ allocated] :
                 Copied(slot[c], s, fresh)
<1> DEFINE u == slot[c]
<1>1. u \in Inst /\ u \in Owner /\ s \in Owner /\ s \notin Inst /\ Running(c) /\ life[u] = "live"
  BY Occupant, MemoryAssumption DEF Checkpoint, MemInv, Owner
<1>2. /\ life[s] = "none"
      /\ life' = [life EXCEPT ![s] = "live"]
      /\ root' = [root EXCEPT ![s] = TRUE]
      /\ UNCHANGED <<slot, lost>>
  BY DEF Checkpoint
<1>3. table[s] = Empty
  BY <1>1, <1>2 DEF MemInv, LifeInv
<1>4. PICK fresh \in [ToCopy(table[u]) -> Frame \ allocated] :
          /\ \A p, q \in ToCopy(table[u]) : fresh[p] = fresh[q] => p = q
          /\ table' = [table EXCEPT ![s] = walkPgTblCopyDirtyCOW(table[u], fresh)]
          /\ allocated' = allocated \cup {fresh[p] : p \in ToCopy(table[u])}
          /\ mem' = copyDirtyPages(table[u], fresh)
  BY DEF Checkpoint
<1>5. \A p \in Page : p \in ToCopy(table[u]) <=> table[u][p].dirty /\ table[u][p].rw
  BY DEF ToCopy
<1>6. \A p \in Page : table[u][p].dirty /\ table[u][p].rw =>
                         fresh[p] \in Frame /\ fresh[p] \notin allocated
  BY <1>4, <1>5
<1>7. table'[s] = walkPgTblCopyDirtyCOW(table[u], fresh)
  BY <1>1, <1>4 DEF MemInv, TypeOK
<1>8. \A p \in Page :
         /\ table'[s][p] \in Pte
         /\ table[u][p].dirty /\ table[u][p].rw =>
               table'[s][p].frame = fresh[p] /\ table'[s][p].rw /\ table'[s][p].dirty
         /\ table[u][p].dirty /\ ~table[u][p].rw =>
               /\ table'[s][p].frame = table[u][p].frame
               /\ ~table'[s][p].rw /\ table'[s][p].dirty
         /\ ~table[u][p].dirty =>
               table'[s][p].frame = NoFrame /\ ~table'[s][p].rw /\ ~table'[s][p].dirty
  <2> TAKE p \in Page
  <2>1. CASE table[u][p].dirty /\ table[u][p].rw
    <3>1. table'[s][p] = Entry(fresh[p], TRUE, TRUE)
      BY <1>5, <1>7, <2>1 DEF walkPgTblCopyDirtyCOW
    <3>2. table'[s][p] \in Pte
      BY <1>6, <2>1, <3>1 DEF Entry, Pte
    <3> QED BY <2>1, <3>1, <3>2 DEF Entry
  <2>2. CASE table[u][p].dirty /\ ~table[u][p].rw
    <3>1. table'[s][p] = Entry(table[u][p].frame, FALSE, TRUE)
      BY <1>5, <1>7, <2>2 DEF walkPgTblCopyDirtyCOW, findAndSetPTECOW
    <3>2. table[u][p].frame \in Frame \cup Elf \cup {NoFrame}
      BY <1>1 DEF MemInv, TypeOK, Pte
    <3>3. table'[s][p] \in Pte
      BY <3>1, <3>2 DEF Entry, Pte
    <3> QED BY <2>2, <3>1, <3>3 DEF Entry
  <2>3. CASE ~table[u][p].dirty
    <3>1. table'[s][p] = Absent
      BY <1>5, <1>7, <2>3 DEF walkPgTblCopyDirtyCOW
    <3> QED BY <2>3, <3>1, EntryFields
  <2> QED BY <2>1, <2>2, <2>3
<1>9. mem \in [Frame \cup Elf -> Val]
  BY DEF MemInv, TypeOK
<1>10. \A p \in ToCopy(table[u]) : p \in Page /\ table[u][p].frame \in Frame
  BY <1>1, <1>5, WritableEntry DEF MemInv, ToCopy
<1>11. \A p \in ToCopy(table[u]) : mem'[fresh[p]] = mem[table[u][p].frame]
  <2> TAKE p \in ToCopy(table[u])
  <2>1. fresh[p] \in DOMAIN mem
    BY <1>4, <1>9
  <2>2. (CHOOSE q \in ToCopy(table[u]) : fresh[q] = fresh[p]) = p
    BY <1>4
  <2> QED BY <1>4, <2>1, <2>2 DEF copyDirtyPages
<1>12. \A g \in Frame \cup Elf :
          (\A p \in ToCopy(table[u]) : fresh[p] # g) => mem'[g] = mem[g]
  BY <1>4, <1>9 DEF copyDirtyPages
<1>13. mem' \in [Frame \cup Elf -> Val]
  <2>1. DOMAIN mem' = Frame \cup Elf /\ mem' = [g \in Frame \cup Elf |-> mem'[g]]
    BY <1>4, <1>9 DEF copyDirtyPages
  <2>2. ASSUME NEW g \in Frame \cup Elf PROVE mem'[g] \in Val
    <3>1. CASE \A p \in ToCopy(table[u]) : fresh[p] # g
      BY <1>9, <1>12, <3>1
    <3>2. CASE \E p \in ToCopy(table[u]) : fresh[p] = g
      BY <1>9, <1>10, <1>11, <3>2
    <3> QED BY <3>1, <3>2
  <2> QED BY <2>1, <2>2
<1>14. \A o \in Owner : o # s => table'[o] = table[o]
  BY <1>4 DEF MemInv, TypeOK
<1>15. Copied(u, s, fresh)
  BY <1>4, <1>5, <1>6, <1>8, <1>11, <1>12, <1>13, <1>14 DEF Copied
<1> QED BY <1>1, <1>2, <1>3, <1>4, <1>15

LEMMA CheckpointInv ==
    ASSUME MemInv, NEW c \in Core, NEW s \in Snap, Checkpoint(c, s)
    PROVE  MemInv'
<1> USE DEF MemInv
<1> DEFINE u == slot[c]
<1>1. /\ u \in Inst /\ u \in Owner /\ s \in Owner /\ s \notin Inst /\ u # s
      /\ Running(c) /\ life[u] = "live"
      /\ life[s] = "none" /\ table[s] = Empty
      /\ life' = [life EXCEPT ![s] = "live"]
      /\ root' = [root EXCEPT ![s] = TRUE]
      /\ UNCHANGED <<slot, lost>>
  BY CheckpointEffect
<1>2. PICK fresh \in [ToCopy(table[u]) -> Frame \ allocated] : Copied(u, s, fresh)
  BY CheckpointEffect
<1> HIDE DEF u
<1>3. \A p \in Page : p \in ToCopy(table[u]) <=> table[u][p].dirty /\ table[u][p].rw
  BY DEF ToCopy
<1>4. \A p \in ToCopy(table[u]) : p \in Page
  BY DEF ToCopy
<1>5. \A p \in Page : table[s][p].frame = NoFrame
  BY <1>1, EntryFields
\* What is mapped does not change: the copies go to frames nobody maps.
<1>6. \A o \in Owner, p \in Page :
         table[o][p].frame # NoFrame =>
            /\ table[o][p].frame \in Frame \cup Elf
            /\ \A q \in ToCopy(table[u]) : fresh[q] # table[o][p].frame
            /\ mem'[table[o][p].frame] = mem[table[o][p].frame]
  <2> SUFFICES ASSUME NEW o \in Owner, NEW p \in Page, table[o][p].frame # NoFrame
               PROVE  /\ table[o][p].frame \in Frame \cup Elf
                      /\ \A q \in ToCopy(table[u]) : fresh[q] # table[o][p].frame
                      /\ mem'[table[o][p].frame] = mem[table[o][p].frame]
    OBVIOUS
  <2>1. table[o][p].frame \in Frame \cup Elf
    <3>1. table[o][p] \in Pte
      BY DEF TypeOK
    <3> QED BY <3>1 DEF Pte
  <2>2. \A q \in ToCopy(table[u]) : fresh[q] # table[o][p].frame
    BY <1>2, MappedAllocated
  <2> QED BY <1>2, <2>1, <2>2 DEF Copied
<1>7. TypeOK'
  <2>1. table' \in [Owner -> [Page -> Pte]]
    <3>1. table'[s] \in [Page -> Pte]
      <4>1. PICK fr \in [ToCopy(table[u]) -> Frame \ allocated] :
               table' = [table EXCEPT ![s] = walkPgTblCopyDirtyCOW(table[u], fr)]
        BY DEF Checkpoint, u
      <4>2. table'[s] = walkPgTblCopyDirtyCOW(table[u], fr)
        BY <1>1, <4>1 DEF TypeOK
      <4>3. \A p \in Page : table'[s][p] \in Pte
        BY <1>2 DEF Copied
      <4> QED BY <4>2, <4>3 DEF walkPgTblCopyDirtyCOW
    <3>2. \E t : table' = [table EXCEPT ![s] = t]
      BY DEF Checkpoint
    <3> QED BY <1>1, <3>1, <3>2 DEF TypeOK
  <2>2. life' \in [Owner -> {"none", "live", "halted"}] /\ root' \in [Owner -> BOOLEAN]
    BY <1>1 DEF TypeOK
  <2>3. snap_addr' \in [Inst -> {"unset", "set", "taken"}]
    BY DEF Checkpoint, TypeOK
  <2>4. tlb' \in [Core -> [Page -> Pte]]
    BY EntryFields DEF Checkpoint, FlushedAll, TypeOK
  <2>5. allocated' \subseteq Frame
    BY <1>2 DEF Copied, TypeOK
  <2>6. mem' \in [Frame \cup Elf -> Val]
    BY <1>2 DEF Copied
  <2> QED BY <1>1, <2>1, <2>2, <2>3, <2>4, <2>5, <2>6 DEF TypeOK
<1>8. \A o \in Owner : o # s => /\ table'[o] = table[o]
                                /\ life'[o] = life[o]
                                /\ root'[o] = root[o]
  BY <1>1, <1>2 DEF Copied, TypeOK
<1>9. LifeInv'
  <2>1. \A d \in Core : Running(d)' <=> Running(d)
    BY <1>1 DEF Running
  <2>2. \A w \in Inst : w \in Owner /\ w # s /\ (Loaded(w)' <=> Loaded(w))
    BY <1>1 DEF Loaded, Owner
  <2>3. life'[s] = "live" /\ root'[s]
    BY <1>1 DEF TypeOK
  <2>4. \A o \in Owner : life'[o] = "none" => ~root'[o] /\ table'[o] = Empty
    BY <1>8, <2>3 DEF LifeInv
  <2>5. \A z \in Snap : life'[z] # "halted" /\ (life'[z] = "live" => root'[z])
    BY <1>8, <2>3 DEF LifeInv, Owner
  <2>6. \A d \in Core : Running(d)' => life'[slot'[d]] = "live"
    BY <1>1, <1>8, <2>1, <2>2, Occupant DEF LifeInv
  <2>7. \A d, e \in Core : Running(d)' /\ slot'[d] = slot'[e] => d = e
    BY <1>1, <2>1 DEF LifeInv
  <2>8. \A w \in Inst : ~root'[w] /\ ~Loaded(w)' => table'[w] = Empty
    BY <1>8, <2>2 DEF LifeInv
  <2> QED BY <2>4, <2>5, <2>6, <2>7, <2>8 DEF LifeInv
\* The entries of the snapshot.
<1>10. \A p \in Page :
          \/ /\ table[u][p].dirty /\ table[u][p].rw
             /\ table'[s][p].frame = fresh[p] /\ table'[s][p].rw /\ table'[s][p].dirty
             /\ fresh[p] \in Frame /\ fresh[p] \notin allocated
          \/ /\ table[u][p].dirty /\ ~table[u][p].rw
             /\ table'[s][p].frame = table[u][p].frame
             /\ ~table'[s][p].rw /\ table'[s][p].dirty
          \/ /\ table'[s][p].frame = NoFrame /\ ~table'[s][p].rw /\ ~table'[s][p].dirty
  BY <1>2 DEF Copied
<1>11. EntryInv'
  <2> SUFFICES ASSUME NEW o \in Owner, NEW p \in Page
               PROVE  EntryOK(o, p, table'[o][p])
    BY DEF EntryInv
  <2>1. CASE o # s
    BY <1>8, <2>1 DEF EntryInv
  <2>2. CASE o = s
    <3>1. EntryOK(u, p, table[u][p])
      BY <1>1 DEF EntryInv
    <3>2. table[u][p].rw => p \in Writable
      BY <1>1, WritableEntry
    <3> QED BY <1>10, <2>2, <3>1, <3>2, MemoryAssumption DEF EntryOK, Elf
  <2> QED BY <2>1, <2>2
<1>12. CleanIsImage'
  <2>1. \A q \in Elf : mem'[q] = Image[q]
    <3>1. \A q \in Elf : \A p \in ToCopy(table[u]) : fresh[p] # q
      BY <1>2, MemoryAssumption DEF Elf
    <3> QED BY <1>2, <3>1 DEF Copied, CleanIsImage
  <2>2. \A o \in Owner, p \in Page :
           table'[o][p].frame # NoFrame /\ ~table'[o][p].dirty
              => mem'[table'[o][p].frame] = Image[p]
    BY <1>6, <1>8, <1>10 DEF CleanIsImage, exists
  <2> QED BY <2>1, <2>2 DEF CleanIsImage, exists
<1>13. OneWriter'
  <2> SUFFICES ASSUME NEW o1 \in Owner, NEW o2 \in Owner, NEW p1 \in Page, NEW p2 \in Page,
                      table'[o1][p1].rw, table'[o2][p2].frame = table'[o1][p1].frame,
                      <<o1, p1>> # <<o2, p2>>
               PROVE  o1 \in Snap /\ ~table'[o2][p2].rw /\ p1 = p2
    BY DEF OneWriter
  <2>1. CASE o1 = s
    <3>1. /\ p1 \in ToCopy(table[u]) /\ table'[s][p1].frame = fresh[p1]
          /\ fresh[p1] \in Frame /\ fresh[p1] \notin allocated
      BY <1>3, <1>10, <2>1
    <3>2. CASE o2 # s
      BY <1>8, <2>1, <3>1, <3>2, MappedAllocated
    <3>3. CASE o2 = s
      <4>1. table'[s][p2].frame = fresh[p1]
        BY <2>1, <3>1, <3>3
      <4>2. CASE table[u][p2].dirty /\ table[u][p2].rw
        <5>1. p2 \in ToCopy(table[u]) /\ table'[s][p2].frame = fresh[p2]
          BY <1>2, <1>3, <4>2 DEF Copied
        <5>2. p1 = p2
          BY <1>2, <3>1, <4>1, <5>1 DEF Copied
        <5> QED BY <2>1, <3>3, <5>2
      <4>3. CASE ~(table[u][p2].dirty /\ table[u][p2].rw)
        <5>1. table'[s][p2].frame = table[u][p2].frame
          BY <1>10, <3>1, <4>1, <4>3, MemoryAssumption
        <5> QED BY <1>1, <3>1, <4>1, <5>1, MappedAllocated
      <4> QED BY <4>2, <4>3
    <3> QED BY <3>2, <3>3
  <2>2. CASE o1 # s
    <3>1. table[o1][p1].rw /\ table[o1][p1].frame = table'[o1][p1].frame
          /\ table[o1][p1].frame \in Frame /\ table[o1][p1].frame \in allocated
      BY <1>8, <2>2, WritableEntry, MappedAllocated
    <3>2. CASE o2 # s
      BY <1>8, <2>2, <3>1, <3>2 DEF OneWriter
    <3>3. CASE o2 = s
      <4>1. table[u][p2].dirty /\ ~table[u][p2].rw /\ ~table'[s][p2].rw
            /\ table[u][p2].frame = table[o1][p1].frame
        BY <1>10, <3>1, <3>3, MemoryAssumption
      <4>2. <<o1, p1>> # <<u, p2>>
        BY <3>1, <4>1
      <4>3. o1 \in Snap /\ p1 = p2
        BY <1>1, <3>1, <4>1, <4>2 DEF OneWriter
      <4> QED BY <3>3, <4>1, <4>3
    <3> QED BY <3>2, <3>3
  <2> QED BY <2>1, <2>2
<1>14. SharedHasOwner'
  <2>1. \A o \in Owner, p \in Page : table[o][p].frame \in Frame /\ ~table[o][p].rw =>
           \E z \in Snap : /\ life'[z] = "live"
                           /\ table'[z][p].rw
                           /\ table'[z][p].frame = table[o][p].frame
    <3> TAKE o \in Owner, p \in Page
    <3> HAVE table[o][p].frame \in Frame /\ ~table[o][p].rw
    <3>1. PICK z \in Snap : /\ life[z] = "live"
                            /\ table[z][p].rw
                            /\ table[z][p].frame = table[o][p].frame
      BY DEF SharedHasOwner
    <3>2. z # s /\ z \in Owner
      BY <1>1, <3>1 DEF Owner
    <3> QED BY <1>8, <3>1, <3>2
  <2> SUFFICES ASSUME NEW o \in Owner, NEW p \in Page,
                      table'[o][p].frame \in Frame, ~table'[o][p].rw
               PROVE  \E z \in Snap : /\ life'[z] = "live"
                                      /\ table'[z][p].rw
                                      /\ table'[z][p].frame = table'[o][p].frame
    BY DEF SharedHasOwner
  <2>2. CASE o # s
    BY <1>8, <2>1, <2>2
  <2>3. CASE o = s
    <3>1. ~table[u][p].rw /\ table[u][p].frame = table'[o][p].frame
      BY <1>10, <2>3, MemoryAssumption
    <3> QED BY <1>1, <2>1, <3>1
  <2> QED BY <2>2, <2>3
<1>15. FramesAccounted'
  <2>1. \A f : f \in Mapped' <=> f \in Mapped \/ \E p \in ToCopy(table[u]) : f = fresh[p]
    <3>1. freePageTable(table[s]) = {}
      BY <1>5, Freed
    <3>2. \A f : f \in Mapped' <=> f \in Mapped \/ f \in freePageTable(table'[s])
      BY <1>1, <1>8, <3>1 DEF Mapped
    <3>3. \A f : f \in freePageTable(table'[s]) <=> \E p \in ToCopy(table[u]) : f = fresh[p]
      <4>1. \A p \in ToCopy(table[u]) : table'[s][p].frame = fresh[p] /\ table'[s][p].rw
                                     /\ fresh[p] \in Frame
        BY <1>2, <1>3, <1>4 DEF Copied
      <4> QED BY <1>3, <1>4, <1>10, <4>1, Freed, MemoryAssumption
    <3> QED BY <3>2, <3>3
  <2>2. \A f : f \in allocated' <=> f \in allocated \/ \E p \in ToCopy(table[u]) : f = fresh[p]
    BY <1>2 DEF Copied
  <2>3. \A p \in ToCopy(table[u]) : fresh[p] \notin lost
    BY <1>2 DEF FramesAccounted
  <2> QED BY <1>1, <2>1, <2>2, <2>3 DEF FramesAccounted
<1>16. TlbCoherent'
  <2> SUFFICES ASSUME NEW d \in Core, NEW q \in Page, exists(tlb'[d][q])
               PROVE  /\ Running(d)'
                      /\ tlb'[d][q].frame = table'[slot'[d]][q].frame
                      /\ tlb'[d][q].rw = table'[slot'[d]][q].rw
    BY DEF TlbCoherent, exists
  <2>1. tlb'[d][q] = tlb[d][q]
    BY EntryFields DEF Checkpoint, FlushedAll, TypeOK, exists
  <2>2. /\ Running(d) /\ tlb[d][q].frame = table[slot[d]][q].frame
        /\ tlb[d][q].rw = table[slot[d]][q].rw
    BY <2>1 DEF TlbCoherent
  <2>3. slot[d] \in Owner /\ slot[d] # s
    BY <1>1, <2>2, Occupant
  <2> QED BY <1>1, <1>8, <2>1, <2>2, <2>3 DEF Running
<1> QED BY <1>7, <1>9, <1>11, <1>12, <1>13, <1>14, <1>15, <1>16

(***************************************************************************)
(* The invariant.                                                          *)
(***************************************************************************)
LEMMA InitInv == Init => MemInv
<1> SUFFICES ASSUME Init PROVE MemInv
  OBVIOUS
<1> USE DEF Init
<1>1. TypeOK
  BY EntryFields DEF TypeOK
<1>2. \A o \in Owner, p \in Page : table[o][p] = Absent
  BY EntryFields
<1>3. \A c \in Core : ~Running(c)
  BY DEF Running
<1>4. LifeInv
  BY <1>3, MemoryAssumption DEF LifeInv, Owner, Running
<1>5. EntryInv
  BY <1>2, EntryFields, MemoryAssumption DEF EntryInv, EntryOK, Elf
<1>6. CleanIsImage
  BY <1>2, EntryFields DEF CleanIsImage, exists
<1>7. OneWriter
  BY <1>2, EntryFields DEF OneWriter
<1>8. SharedHasOwner
  BY <1>2, EntryFields, MemoryAssumption DEF SharedHasOwner
<1>9. FramesAccounted
  <2>1. \A f : f \notin Mapped
    BY <1>2, MappedFrames, EntryFields
  <2> QED BY <2>1 DEF FramesAccounted
<1>10. TlbCoherent
  BY EntryFields DEF TlbCoherent, exists
<1> QED BY <1>1, <1>4, <1>5, <1>6, <1>7, <1>8, <1>9, <1>10 DEF MemInv

LEMMA StepInv == MemInv /\ [Next]_vars => MemInv'
<1> SUFFICES ASSUME MemInv, [Next]_vars PROVE MemInv'
  OBVIOUS
<1>1. CASE UNCHANGED vars
  <2>1. TypeOK' /\ LifeInv' /\ TlbCoherent'
    BY <1>1 DEF vars, MemInv, TypeOK, LifeInv, TlbCoherent, Running, Loaded, exists
  <2> QED BY <1>1, <2>1, TablesUnchanged DEF vars
<1>2. CASE Client
  BY <1>2, BootInv, SetCheckpointInv, DeployInv, DestroyInv DEF Client
<1>3. CASE Slot
  BY <1>3, LoadInv, UnloadInv DEF Slot
<1>4. CASE Guest
  BY <1>4, CacheInv, StoreInv, PageFaultInv, CheckpointInv DEF Guest
<1> QED BY <1>1, <1>2, <1>3, <1>4 DEF Next

\* Whatever clients, guests and processors do, tables, frames, memory and cached
\* translations stay in the relations of MemInv (UmPgTblMgr.cc, UmManager.cc).
THEOREM MemoryInvariance == Spec => []MemInv
<1>1. Init => MemInv
  BY InitInv
<1>2. MemInv /\ [Next]_vars => MemInv'
  BY StepInv
<1> QED BY <1>1, <1>2, PTL DEF Spec

\* No two address spaces share a frame that one of them may write, unless the owner is
\* a snapshot (findAndSetPTECOW, GetBackingPage).
THEOREM WritersAlone == Spec => []OneWriter
<1>1. MemInv => OneWriter
  BY DEF MemInv
<1> QED BY <1>1, MemoryInvariance, PTL

\* Every page shared copy-on-write has a living owner (walkPgTblCOW, ~UmPth).
THEOREM SharingIsSafe == Spec => []SharedHasOwner
<1>1. MemInv => SharedHasOwner
  BY DEF MemInv
<1> QED BY <1>1, MemoryInvariance, PTL

\* Frames are neither leaked, but for those lost with the root of a booted instance, nor
\* freed twice, nor freed while they are mapped (freePageTable, GetBackingPage).
THEOREM FramesAreAccounted == Spec => []FramesAccounted
<1>1. MemInv => FramesAccounted
  BY DEF MemInv
<1> QED BY <1>1, MemoryInvariance, PTL

\* No core uses a stale translation (slot_unload_instance, process_pagefault).
THEOREM TlbIsCoherent == Spec => []TlbCoherent
<1>1. MemInv => TlbCoherent
  BY DEF MemInv
<1> QED BY <1>1, MemoryInvariance, PTL

(***************************************************************************)
(* The memory system implements AddressSpaces.                             *)
(***************************************************************************)
\* An owner whose pages stay where they are, with what they contain, keeps its view.
LEMMA SameView ==
    ASSUME NEW o \in Owner, life'[o] = life[o],
           \A p \in Page : life[o] = "live" =>
               /\ table'[o][p].frame = table[o][p].frame
               /\ table[o][p].frame # NoFrame =>
                     mem'[table[o][p].frame] = mem[table[o][p].frame]
    PROVE  View(o)' = View(o)
BY DEF View, exists

\* What a view contains.
LEMMA ViewOf ==
    \A o \in Owner, p \in Page :
        View(o)[p] = IF life[o] = "live" /\ table[o][p].frame # NoFrame
                     THEN mem[table[o][p].frame] ELSE Image[p]
BY DEF View, exists

LEMMA BootRefines ==
    ASSUME MemInv, NEW u \in Inst, Boot(u)
    PROVE  AS!Boot(u)
<1>1. /\ u \in Owner /\ life[u] = "none" /\ table[u] = Empty
      /\ \A o \in Owner : life'[o] = IF o = u THEN "live" ELSE life[o]
      /\ UNCHANGED <<table, mem>>
  BY DEF Boot, MemInv, TypeOK, LifeInv, Owner
<1>2. \A o \in Owner : View(o)' = View(o)
  <2> TAKE o \in Owner
  <2>1. CASE o # u
    BY <1>1, <2>1, SameView
  <2>2. CASE o = u
    BY <1>1, <2>2, EntryFields DEF View, exists
  <2> QED BY <2>1, <2>2
<1>3. [o \in Owner |-> View(o)]' = [o \in Owner |-> View(o)]
  BY <1>2
<1>4. {o \in Owner : life[o] = "live"}' = {o \in Owner : life[o] = "live"} \cup {u}
  BY <1>1
<1>5. u \notin {o \in Owner : life[o] = "live"}
  BY <1>1
<1> QED BY <1>3, <1>4, <1>5 DEF AS!Boot

LEMMA DeployRefines ==
    ASSUME MemInv, NEW u \in Inst, NEW s \in Snap, Deploy(u, s)
    PROVE  AS!Deploy(u, s)
<1>1. /\ u \in Owner /\ s \in Owner /\ life[u] = "none" /\ life[s] = "live"
      /\ \A o \in Owner : life'[o] = IF o = u THEN "live" ELSE life[o]
      /\ \A o \in Owner : o # u => table'[o] = table[o]
      /\ table'[u] = walkPgTblCOW(table[s])
      /\ mem' = mem
  BY DEF Deploy, MemInv, TypeOK, Owner
<1>2. \A o \in Owner : o # u => View(o)' = View(o)
  BY <1>1, SameView
<1>3. View(u)' = View(s)
  <2>1. \A p \in Page :
           /\ table[s][p].dirty => table'[u][p].frame = table[s][p].frame
           /\ ~table[s][p].dirty => table'[u][p].frame = NoFrame
    BY <1>1 DEF walkPgTblCOW, findAndSetPTECOW, Entry, Absent
  <2>2. \A p \in Page : ~table[s][p].dirty /\ table[s][p].frame # NoFrame =>
                            mem[table[s][p].frame] = Image[p]
    BY <1>1 DEF MemInv, CleanIsImage, exists
  <2> QED BY <1>1, <2>1, <2>2 DEF View, exists
<1>4. [o \in Owner |-> View(o)]' =
        [[o \in Owner |-> View(o)] EXCEPT ![u] = [o \in Owner |-> View(o)][s]]
  BY <1>1, <1>2, <1>3
<1>5. {o \in Owner : life[o] = "live"}' = {o \in Owner : life[o] = "live"} \cup {u}
  BY <1>1
<1>6. u \notin {o \in Owner : life[o] = "live"} /\ s \in {o \in Owner : life[o] = "live"}
  BY <1>1
<1> QED BY <1>4, <1>5, <1>6 DEF AS!Deploy

LEMMA StoreRefines ==
    ASSUME MemInv, NEW c \in Core, NEW p \in Page, NEW v \in Val, Store(c, p, v),
           NEW u \in Inst, u = slot[c]
    PROVE  p \in Writable /\ AS!Store(u, p, v)
<1>1. /\ u \in Inst /\ u \in Owner /\ u \notin Snap /\ Running(c) /\ life[u] = "live"
      /\ table[u][p].rw /\ table[u][p].frame \in Frame
      /\ mem' = [mem EXCEPT ![table[u][p].frame] = v]
      /\ \A o \in Owner : o # u => table'[o] = table[o]
      /\ \A q \in Page : q # p => table'[u][q] = table[u][q]
      /\ table'[u][p].frame = table[u][p].frame
      /\ life' = life
  BY StoreEffect
<1>2. p \in Writable
  BY <1>1, WritableEntry DEF MemInv
<1>3. \A o \in Owner, q \in Page :
         /\ table'[o][q].frame = table[o][q].frame
         /\ <<o, q>> # <<u, p>> /\ table[o][q].frame # NoFrame =>
               mem'[table[o][q].frame] = mem[table[o][q].frame]
  <2> SUFFICES ASSUME NEW o \in Owner, NEW q \in Page
               PROVE  /\ table'[o][q].frame = table[o][q].frame
                      /\ <<o, q>> # <<u, p>> /\ table[o][q].frame # NoFrame =>
                            mem'[table[o][q].frame] = mem[table[o][q].frame]
    OBVIOUS
  <2>1. table'[o][q].frame = table[o][q].frame
    BY <1>1
  <2>2. ASSUME <<o, q>> # <<u, p>>, table[o][q].frame # NoFrame
        PROVE  mem'[table[o][q].frame] = mem[table[o][q].frame]
    <3>1. table[o][q].frame # table[u][p].frame
      BY <1>1, <2>2 DEF MemInv, OneWriter
    <3>2. table[o][q].frame \in Frame \cup Elf
      BY <2>2, WritableEntry DEF MemInv, Pte
    <3> QED BY <1>1, <3>1, <3>2 DEF MemInv, TypeOK
  <2> QED BY <2>1, <2>2
<1>4. mem'[table[u][p].frame] = v
  BY <1>1 DEF MemInv, TypeOK
<1>5. \A o \in Owner : o # u => View(o)' = View(o)
  <2> TAKE o \in Owner
  <2> HAVE o # u
  <2> QED BY <1>1, <1>3, SameView
<1>6. View(u)' = [View(u) EXCEPT ![p] = v]
  <2>1. \A q \in Page : View(u)'[q] = IF q = p THEN v ELSE View(u)[q]
    <3>1. View(u)' = [q \in Page |-> IF life'[u] = "live" /\ table'[u][q].frame # NoFrame
                                     THEN mem'[table'[u][q].frame] ELSE Image[q]]
      BY DEF View, exists
    <3>2. table[u][p].frame # NoFrame
      BY <1>1, MemoryAssumption
    <3> SUFFICES ASSUME NEW q \in Page
                 PROVE  View(u)'[q] = IF q = p THEN v ELSE View(u)[q]
      OBVIOUS
    <3>3. View(u)'[q] = IF life'[u] = "live" /\ table'[u][q].frame # NoFrame
                        THEN mem'[table'[u][q].frame] ELSE Image[q]
      BY <3>1
    <3>4. CASE q = p
      BY <1>1, <1>4, <3>2, <3>3, <3>4
    <3>5. CASE q # p
      <4>1. View(u)[q] = IF table[u][q].frame # NoFrame THEN mem[table[u][q].frame]
                         ELSE Image[q]
        BY <1>1, ViewOf
      <4>2. /\ table'[u][q].frame = table[u][q].frame
            /\ table[u][q].frame # NoFrame =>
                  mem'[table[u][q].frame] = mem[table[u][q].frame]
        <5>1. <<u, q>> # <<u, p>>
          BY <3>5
        <5> QED BY <1>1, <1>3, <5>1
      <4> QED BY <1>1, <3>3, <3>5, <4>1, <4>2
    <3> QED BY <3>4, <3>5
  <2> QED BY <2>1 DEF View
<1>7. [o \in Owner |-> View(o)]' =
        [[o \in Owner |-> View(o)] EXCEPT ![u] = [[o \in Owner |-> View(o)][u] EXCEPT ![p] = v]]
  BY <1>1, <1>5, <1>6
<1>8. u \in {o \in Owner : life[o] = "live"}
  BY <1>1
<1>9. {o \in Owner : life[o] = "live"}' = {o \in Owner : life[o] = "live"}
  BY <1>1
<1> QED BY <1>2, <1>7, <1>8, <1>9 DEF AS!Store

LEMMA CheckpointRefines ==
    ASSUME MemInv, NEW c \in Core, NEW s \in Snap, Checkpoint(c, s),
           NEW u \in Inst, u = slot[c]
    PROVE  AS!Take(u, s)
<1>1. /\ u \in Owner /\ s \in Owner /\ u # s
      /\ life[u] = "live" /\ life[s] = "none"
      /\ \A o \in Owner : life'[o] = IF o = s THEN "live" ELSE life[o]
  BY CheckpointEffect DEF MemInv, TypeOK
<1>2. PICK fresh \in [ToCopy(table[u]) -> Frame \ allocated] : Copied(u, s, fresh)
  BY CheckpointEffect
<1>3. \A o \in Owner, p \in Page :
         table[o][p].frame # NoFrame => mem'[table[o][p].frame] = mem[table[o][p].frame]
  <2> SUFFICES ASSUME NEW o \in Owner, NEW p \in Page, table[o][p].frame # NoFrame
               PROVE  mem'[table[o][p].frame] = mem[table[o][p].frame]
    OBVIOUS
  <2>1. table[o][p].frame \in Frame \cup Elf
    BY WritableEntry DEF MemInv, Pte
  <2>2. \A q \in ToCopy(table[u]) : fresh[q] # table[o][p].frame
    BY <1>2, MappedAllocated DEF MemInv
  <2> QED BY <1>2, <2>1, <2>2 DEF Copied
<1>4. \A o \in Owner : o # s => View(o)' = View(o)
  <2> TAKE o \in Owner
  <2> HAVE o # s
  <2>1. table'[o] = table[o]
    BY <1>2 DEF Copied
  <2> QED BY <1>1, <1>3, <2>1, SameView
<1>5. View(s)' = View(u)
  <2>1. View(s)' = [p \in Page |-> IF table'[s][p].frame # NoFrame
                                   THEN mem'[table'[s][p].frame] ELSE Image[p]]
    BY <1>1 DEF View, exists
  <2>2. View(u) = [p \in Page |-> IF table[u][p].frame # NoFrame
                                  THEN mem[table[u][p].frame] ELSE Image[p]]
    BY <1>1 DEF View, exists
  <2>3. ASSUME NEW p \in Page
        PROVE  (IF table'[s][p].frame # NoFrame THEN mem'[table'[s][p].frame] ELSE Image[p])
                 = (IF table[u][p].frame # NoFrame THEN mem[table[u][p].frame] ELSE Image[p])
    <3>1. CASE table[u][p].dirty /\ table[u][p].rw
      <4>1. /\ table'[s][p].frame = fresh[p] /\ fresh[p] \in Frame
            /\ mem'[fresh[p]] = mem[table[u][p].frame]
        BY <1>2, <3>1 DEF Copied
      <4>2. fresh[p] # NoFrame /\ table[u][p].frame # NoFrame
        BY <1>1, <3>1, <4>1, WritableEntry, MemoryAssumption DEF MemInv
      <4> QED BY <4>1, <4>2
    <3>2. CASE table[u][p].dirty /\ ~table[u][p].rw
      <4>1. table'[s][p].frame = table[u][p].frame
        BY <1>2, <3>2 DEF Copied
      <4> QED BY <1>1, <1>3, <4>1
    <3>3. CASE ~table[u][p].dirty
      <4>1. table'[s][p].frame = NoFrame
        BY <1>2, <3>3 DEF Copied
      <4>2. table[u][p].frame # NoFrame => mem[table[u][p].frame] = Image[p]
        BY <1>1, <3>3 DEF MemInv, CleanIsImage, exists
      <4> QED BY <4>1, <4>2
    <3> QED BY <3>1, <3>2, <3>3
  <2> QED BY <2>1, <2>2, <2>3
<1>6. [o \in Owner |-> View(o)]' =
        [[o \in Owner |-> View(o)] EXCEPT ![s] = [o \in Owner |-> View(o)][u]]
  BY <1>1, <1>4, <1>5
<1>7. {o \in Owner : life[o] = "live"}' = {o \in Owner : life[o] = "live"} \cup {s}
  BY <1>1
<1>8. u \in {o \in Owner : life[o] = "live"} /\ s \notin {o \in Owner : life[o] = "live"}
  BY <1>1
<1> QED BY <1>6, <1>7, <1>8 DEF AS!Take

\* An address space goes when its snapshot is destroyed, or its instance halts.
LEMMA DiscardRefines ==
    ASSUME MemInv, NEW o \in Owner, life[o] = "live", life'[o] # "live",
           \A q \in Owner : q # o => View(q)' = View(q) /\ life'[q] = life[q]
    PROVE  AS!Discard(o)
<1>1. View(o)' = Image
  <2>1. View(o)' = [p \in Page |-> Image[p]]
    BY DEF View
  <2> QED BY <2>1, MemoryAssumption
<1>2. [q \in Owner |-> View(q)]' = [[q \in Owner |-> View(q)] EXCEPT ![o] = Image]
  BY <1>1
<1>3. {q \in Owner : life[q] = "live"}' = {q \in Owner : life[q] = "live"} \ {o}
  OBVIOUS
<1>4. o \in {q \in Owner : life[q] = "live"}
  OBVIOUS
<1> QED BY <1>2, <1>3, <1>4 DEF AS!Discard

\* A step that leaves every address space alone.
LEMMA Stutters ==
    ASSUME \A o \in Owner : View(o)' = View(o) /\ (life'[o] = "live" <=> life[o] = "live")
    PROVE  UNCHANGED AS!vars
<1>1. [o \in Owner |-> View(o)]' = [o \in Owner |-> View(o)]
  OBVIOUS
<1>2. {o \in Owner : life[o] = "live"}' = {o \in Owner : life[o] = "live"}
  OBVIOUS
<1> QED BY <1>1, <1>2 DEF AS!vars

LEMMA DestroyRefines ==
    ASSUME MemInv, NEW o \in Owner, Destroy(o)
    PROVE  AS!Discard(o) \/ UNCHANGED AS!vars
<1>1. /\ \A q \in Owner : q # o => table'[q] = table[q] /\ life'[q] = life[q]
      /\ life'[o] = "none" /\ mem' = mem
  BY DEF Destroy, MemInv, TypeOK
<1>2. \A q \in Owner : q # o => View(q)' = View(q)
  BY <1>1, SameView
<1>3. CASE life[o] = "live"
  BY <1>1, <1>2, <1>3, DiscardRefines
<1>4. CASE life[o] # "live"
  <2>1. View(o)' = View(o)
    BY <1>1, <1>4 DEF View
  <2> QED BY <1>1, <1>2, <1>4, <2>1, Stutters
<1> QED BY <1>3, <1>4

LEMMA UnloadRefines ==
    ASSUME MemInv, ~SwapBooted, NEW c \in Core, SwapOut(c) \/ Halt(c),
           NEW u \in Inst, u = slot[c]
    PROVE  AS!Discard(u) \/ UNCHANGED AS!vars
<1>1. u \in Owner /\ life[u] = "live"
  BY Occupant DEF SwapOut, Halt, MemInv
<1>2. /\ table' = table \/ table' = [table EXCEPT ![u] = Empty]
      /\ mem' = mem
  BY DEF SwapOut, Halt, slot_unload_instance
<1>3. CASE SwapOut(c)
  <2>1. table' = table /\ mem' = mem /\ life' = life
    BY <1>3 DEF SwapOut, slot_unload_instance
  <2> QED BY <2>1, SameView, Stutters
<1>4. CASE Halt(c)
  <2>1. \A q \in Owner : q # u => table'[q] = table[q] /\ life'[q] = life[q]
    BY <1>2, <1>4 DEF Halt, MemInv, TypeOK
  <2>2. \A q \in Owner : q # u => View(q)' = View(q)
    BY <1>2, <2>1, SameView
  <2>3. life'[u] = "halted"
    BY <1>1, <1>4 DEF Halt, MemInv, TypeOK
  <2> QED BY <1>1, <2>1, <2>2, <2>3, DiscardRefines
<1> QED BY <1>3, <1>4

\* A page fault is invisible.
LEMMA PageFaultViews ==
    ASSUME MemInv, NEW c \in Core, NEW p \in Page, NEW write \in BOOLEAN,
           PageFault(c, p, write), NEW u \in Inst, u = slot[c]
    PROVE  life' = life /\ \A o \in Owner : View(o)' = View(o)
<1>1. u \in Owner /\ life' = life /\ life[u] = "live"
      /\ (table[u][p].frame = NoFrame \/ write) /\ (write => p \in Writable)
  BY PageFaultEffect
<1>2. PICK f \in Frame \cup Elf : Backed(u, p, write, f)
  BY PageFaultBacks
<1>3. \A o \in Owner, q \in Page : <<o, q>> # <<u, p>> => table'[o][q] = table[o][q]
  <2>1. /\ table \in [Owner -> [Page -> Pte]]
        /\ table' = [table EXCEPT ![u] =
                       [table[u] EXCEPT ![p] = Entry(f, p \in Writable, write)]]
    BY <1>2 DEF Backed, MemInv, TypeOK
  <2> SUFFICES ASSUME NEW o \in Owner, NEW q \in Page, <<o, q>> # <<u, p>>
               PROVE  table'[o][q] = table[o][q]
    OBVIOUS
  <2>2. CASE o # u
    BY ONLY <1>1, <2>1, <2>2
  <2>3. CASE o = u /\ q # p
    BY ONLY <1>1, <2>1, <2>3
  <2> QED BY <2>2, <2>3
<1>4. table'[u][p].frame = f
  <2>1. /\ table \in [Owner -> [Page -> Pte]]
        /\ table' = [table EXCEPT ![u] =
                       [table[u] EXCEPT ![p] = Entry(f, p \in Writable, write)]]
    BY <1>2 DEF Backed, MemInv, TypeOK
  <2>2. table'[u][p] = Entry(f, p \in Writable, write)
    BY ONLY <1>1, <2>1
  <2> QED BY ONLY <2>2 DEF Entry
\* A frame of the allocator is new; a page of the image keeps its content.
<1>5. \A o \in Owner, q \in Page : table[o][q].frame # NoFrame =>
         mem'[table[o][q].frame] = mem[table[o][q].frame]
  <2> SUFFICES ASSUME NEW o \in Owner, NEW q \in Page, table[o][q].frame # NoFrame
               PROVE  mem'[table[o][q].frame] = mem[table[o][q].frame]
    OBVIOUS
  <2>1. table[o][q].frame \in Frame \cup Elf
    BY WritableEntry DEF MemInv, Pte
  <2>2. CASE table[o][q].frame # f
    BY <1>2, <2>1, <2>2 DEF Backed
  <2>3. CASE table[o][q].frame = f
    <3>1. p \notin Writable /\ f = p /\ f \in Elf
      BY <1>2, <2>3, MemoryAssumption DEF Backed, Elf
    <3>2. mem'[f] = Image[p]
      BY <1>1, <1>2, <3>1 DEF Backed
    <3>3. mem[f] = Image[p]
      BY <3>1 DEF MemInv, CleanIsImage
    <3> QED BY <2>3, <3>2, <3>3
  <2> QED BY <2>2, <2>3
<1>6. \A o \in Owner : o # u => View(o)' = View(o)
  BY <1>1, <1>3, <1>5, SameView
<1>7. View(u)' = View(u)
  <2>1. View(u)' = [q \in Page |-> IF table'[u][q].frame # NoFrame
                                   THEN mem'[table'[u][q].frame] ELSE Image[q]]
    BY <1>1 DEF View, exists
  <2>2. View(u) = [q \in Page |-> IF table[u][q].frame # NoFrame
                                  THEN mem[table[u][q].frame] ELSE Image[q]]
    BY <1>1 DEF View, exists
  <2>3. mem'[f] = (IF table[u][p].frame # NoFrame THEN mem[table[u][p].frame] ELSE Image[p])
    BY <1>2 DEF Backed
  <2>4. f # NoFrame
    BY <1>2, MemoryAssumption DEF Elf
  <2> SUFFICES ASSUME NEW q \in Page
               PROVE  (IF table'[u][q].frame # NoFrame THEN mem'[table'[u][q].frame]
                       ELSE Image[q]) =
                      (IF table[u][q].frame # NoFrame THEN mem[table[u][q].frame]
                       ELSE Image[q])
    BY <2>1, <2>2
  <2>5. CASE q = p
    BY ONLY <1>4, <2>3, <2>4, <2>5
  <2>6. CASE q # p
    <3>1. table'[u][q] = table[u][q]
      BY ONLY <1>1, <1>3, <2>6
    <3> QED BY ONLY <1>1, <1>5, <3>1
  <2> QED BY <2>5, <2>6
<1> QED BY <1>1, <1>6, <1>7

LEMMA InitRefines == Init => AS!Init
<1> SUFFICES ASSUME Init PROVE AS!Init
  OBVIOUS
<1>1. {o \in Owner : life[o] = "live"} = {}
  BY DEF Init
<1>2. \A o \in Owner : View(o) = Image
  BY MemoryAssumption DEF Init, View
<1>3. [o \in Owner |-> View(o)] = [o \in Inst \cup Snap |-> Image]
  BY <1>2 DEF Owner
<1> QED BY <1>1, <1>3 DEF AS!Init

LEMMA StepRefines ==
    ASSUME ~SwapBooted, MemInv, [Next]_vars
    PROVE  [AS!Next]_(AS!vars)
<1>1. CASE UNCHANGED vars
  BY <1>1, SameView, Stutters DEF vars
<1>2. CASE Client
  <2>1. CASE \E u \in Inst : Boot(u)
    BY <2>1, BootRefines DEF AS!Next
  <2>2. CASE \E u \in Inst : SetCheckpoint(u)
    <3>1. UNCHANGED <<life, table, mem>>
      BY <2>2 DEF SetCheckpoint
    <3> QED BY <3>1, SameView, Stutters
  <2>3. CASE \E u \in Inst, s \in Snap : Deploy(u, s)
    BY <2>3, DeployRefines DEF AS!Next
  <2>4. CASE \E o \in Owner : Destroy(o)
    BY <2>4, DestroyRefines DEF AS!Next, Owner
  <2> QED BY <1>2, <2>1, <2>2, <2>3, <2>4 DEF Client
<1>3. CASE Slot
  <2> PICK c \in Core :
         (\E u \in Inst : slot_load_instance(c, u)) \/ SwapOut(c) \/ Halt(c)
    BY <1>3 DEF Slot
  <2>1. CASE \E u \in Inst : slot_load_instance(c, u)
    <3>1. UNCHANGED <<life, table, mem>>
      BY <2>1 DEF slot_load_instance
    <3> QED BY <3>1, SameView, Stutters
  <2>2. CASE SwapOut(c) \/ Halt(c)
    <3>1. slot[c] \in Inst
      BY <2>2, Occupant DEF SwapOut, Halt, MemInv
    <3> QED BY <2>2, <3>1, UnloadRefines DEF AS!Next
  <2> QED BY <2>1, <2>2
<1>4. CASE Guest
  <2> PICK c \in Core :
         \/ \E p \in Page : Cache(c, p) \/ Evict(c, p)
         \/ \E p \in Page, v \in Val : Store(c, p, v)
         \/ \E p \in Page, write \in BOOLEAN : PageFault(c, p, write)
         \/ \E s \in Snap : Checkpoint(c, s)
    BY <1>4 DEF Guest
  <2>1. CASE \E p \in Page : Cache(c, p) \/ Evict(c, p)
    <3>1. UNCHANGED <<life, table, mem>>
      BY <2>1 DEF Cache, Evict
    <3> QED BY <3>1, SameView, Stutters
  <2>2. CASE \E p \in Page, v \in Val : Store(c, p, v)
    <3>1. slot[c] \in Inst
      BY <2>2, Occupant DEF Store, MemInv
    <3> QED BY <2>2, <3>1, StoreRefines DEF AS!Next
  <2>3. CASE \E p \in Page, write \in BOOLEAN : PageFault(c, p, write)
    <3>1. slot[c] \in Inst
      BY <2>3, PageFaultEffect
    <3> QED BY <2>3, <3>1, PageFaultViews, Stutters
  <2>4. CASE \E s \in Snap : Checkpoint(c, s)
    <3>1. slot[c] \in Inst
      BY <2>4, CheckpointEffect
    <3> QED BY <2>4, <3>1, CheckpointRefines DEF AS!Next
  <2> QED BY <2>1, <2>2, <2>3, <2>4
<1> QED BY <1>1, <1>2, <1>3, <1>4 DEF Next

\* As long as instances booted from the image are not swapped out, every guest sees a
\* memory of its own: sharing, copy-on-write, lazy population, swapping and checkpoints
\* (UmPgTblMgr.cc, UmManager.cc) are invisible.
THEOREM MemoriesArePrivate == ASSUME ~SwapBooted PROVE Spec => PrivateMemories
<1>1. Init => AS!Init
  BY InitRefines
<1>2. MemInv /\ [Next]_vars => [AS!Next]_(AS!vars)
  BY StepRefines
<1> QED BY <1>1, <1>2, MemoryInvariance, PTL DEF Spec, PrivateMemories, AS!Spec

LEMMA StepInvisible ==
    ASSUME ~SwapBooted, MemInv, [Next]_vars,
           NEW o \in Owner, NEW p \in Page, life[o] = "live", life'[o] = "live",
           table'[o][p].frame # table[o][p].frame
    PROVE  View(o)'[p] = View(o)[p]
<1>1. table' # table
  OBVIOUS
<1>2. CASE Client
  <2>1. ASSUME NEW u \in Inst, NEW s \in Snap, Deploy(u, s) PROVE FALSE
    <3>1. o # u => table'[o] = table[o]
      BY <2>1 DEF Deploy, MemInv, TypeOK
    <3> QED BY <2>1, <3>1 DEF Deploy
  <2>2. ASSUME NEW q \in Owner, Destroy(q) PROVE FALSE
    <3>1. o # q => table'[o] = table[o]
      BY <2>2 DEF Destroy, MemInv, TypeOK
    <3>2. life'[q] = "none"
      BY <2>2 DEF Destroy, MemInv, TypeOK
    <3> QED BY <3>1, <3>2
  <2> QED BY <1>1, <1>2, <2>1, <2>2 DEF Client, Boot, SetCheckpoint
<1>3. CASE Slot
  <2> PICK c \in Core :
         (\E u \in Inst : slot_load_instance(c, u)) \/ SwapOut(c) \/ Halt(c)
    BY <1>3 DEF Slot
  <2>1. ~SwapOut(c)
    BY <1>1 DEF SwapOut, slot_unload_instance
  <2>2. ASSUME Halt(c) PROVE FALSE
    <3>1. slot[c] \in Owner
      BY <2>2, Occupant DEF Halt, MemInv
    <3>2. life'[slot[c]] = "halted"
      BY <2>2, <3>1 DEF Halt, MemInv, TypeOK
    <3>3. o # slot[c] => table'[o] = table[o]
      BY <2>2 DEF Halt, slot_unload_instance, MemInv, TypeOK
    <3> QED BY <3>2, <3>3
  <2> QED BY <1>1, <2>1, <2>2 DEF slot_load_instance
<1>4. CASE Guest
  <2> PICK c \in Core :
         \/ \E q \in Page : Cache(c, q) \/ Evict(c, q)
         \/ \E q \in Page, v \in Val : Store(c, q, v)
         \/ \E q \in Page, write \in BOOLEAN : PageFault(c, q, write)
         \/ \E s \in Snap : Checkpoint(c, s)
    BY <1>4 DEF Guest
  <2>1. ASSUME NEW q \in Page, NEW v \in Val, Store(c, q, v) PROVE FALSE
    BY <2>1, StoreEffect
  <2>2. ASSUME NEW q \in Page, NEW write \in BOOLEAN, PageFault(c, q, write)
        PROVE  View(o)' = View(o)
    <3>1. slot[c] \in Inst
      BY <2>2, PageFaultEffect
    <3> QED BY <2>2, <3>1, PageFaultViews
  <2>3. ASSUME NEW s \in Snap, Checkpoint(c, s) PROVE FALSE
    <3>1. life[s] = "none"
      BY <2>3 DEF Checkpoint
    <3>2. o # s => table'[o] = table[o]
      BY <2>3, CheckpointEffect DEF Copied
    <3> QED BY <3>1, <3>2
  <2> QED BY <1>1, <2>1, <2>2, <2>3 DEF Cache, Evict
<1> QED BY <1>1, <1>2, <1>3, <1>4 DEF Next, vars

\* A change of the frame behind a page does not change what the page contains
\* (GetBackingPage, process_pagefault).
THEOREM RemapsAreInvisible == ASSUME ~SwapBooted PROVE Spec => RemapInvisible
<1> DEFINE Invisible ==
       \A o \in Owner : \A p \in Page :
          /\ life[o] = "live" /\ life'[o] = "live"
          /\ table'[o][p].frame # table[o][p].frame
          => View(o)'[p] = View(o)[p]
<1>1. MemInv /\ [Next]_vars => [Invisible]_vars
  BY StepInvisible
<1> QED BY <1>1, MemoryInvariance, PTL DEF Spec, RemapInvisible

=============================================================================
