----------------------------- MODULE UmMemoryInv -----------------------------
(***************************************************************************)
(* The inductive invariant of UmMemory: who may write a frame, who frees   *)
(* it, and why what is shared does not change.                             *)
(***************************************************************************)
EXTENDS UmMemory

\* Who exists, who is loaded, and whose table can be reached.
LifeInv ==
    /\ \A o \in Owner : life[o] = "none" => ~root[o] /\ table[o] = Empty
    /\ \A s \in Snap : life[s] # "halted" /\ (life[s] = "live" => root[s])
    /\ \A c \in Core : Running(c) => life[slot[c]] = "live"
    /\ \A c, d \in Core : Running(c) /\ slot[c] = slot[d] => c = d
    /\ \A u \in Inst : ~root[u] /\ ~Loaded(u) => table[u] = Empty

\* What an entry e for page p of owner o may be: nothing, an image page, or a frame,
\* which is shared (then dirty) or owned.  Snapshots hold dirty pages only.
EntryOK(o, p, e) ==
    /\ e.frame = NoFrame => ~e.rw /\ ~e.dirty
    /\ e.frame \in Elf => e.frame = p /\ ~e.rw /\ ~e.dirty
    /\ e.frame \in Frame => p \in Writable /\ (e.rw \/ e.dirty)
    /\ o \in Snap => e.frame \notin Elf /\ (e.rw => e.dirty)

EntryInv == \A o \in Owner : \A p \in Page : EntryOK(o, p, table[o][p])

\* A page that is not dirty still contains what the image has: a checkpoint may skip it.
CleanIsImage ==
    /\ \A p \in Elf : mem[p] = Image[p]
    /\ \A o \in Owner : \A p \in Page :
          exists(table[o][p]) /\ ~table[o][p].dirty => mem[table[o][p].frame] = Image[p]

MemInv ==
    /\ TypeOK
    /\ LifeInv
    /\ EntryInv
    /\ CleanIsImage
    /\ OneWriter
    /\ SharedHasOwner
    /\ FramesAccounted
    /\ TlbCoherent

=============================================================================
