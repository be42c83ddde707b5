---------------------------- MODULE AddressSpaces ----------------------------
(***************************************************************************)
(* What the memory system promises: every instance and every snapshot has  *)
(* a memory of its own.  An instance starts with the image or with the     *)
(* contents of a snapshot, and only its own stores change its memory; a    *)
(* snapshot holds what its instance's memory held when it was taken, and   *)
(* never changes.                                                          *)
(***************************************************************************)
CONSTANTS
    Inst,      \* instances
    Snap,      \* snapshots
    Page,      \* pages of the slot's address range
    Writable,  \* those an instance may store to
    Val,       \* what a page may contain
    Image      \* what each page contains when the image is loaded

VARIABLES
    living,    \* the instances and snapshots that exist
    content    \* the memory of each; that of one that does not exist is the image

vars == <<living, content>>

Init ==
    /\ living = {}
    /\ content = [o \in Inst \cup Snap |-> Image]

\* An instance made from the image.
Boot(u) ==
    /\ u \notin living
    /\ living' = living \cup {u}
    /\ UNCHANGED content

\* An instance made from snapshot s.
Deploy(u, s) ==
    /\ u \notin living
    /\ s \in living
    /\ living' = living \cup {u}
    /\ content' = [content EXCEPT ![u] = content[s]]

\* The guest of u stores v to page p.
Store(u, p, v) ==
    /\ u \in living
    /\ content' = [content EXCEPT ![u] = [@ EXCEPT ![p] = v]]
    /\ UNCHANGED living

\* Snapshot s of instance u.
Take(u, s) ==
    /\ u \in living
    /\ s \notin living
    /\ living' = living \cup {s}
    /\ content' = [content EXCEPT ![s] = content[u]]

\* An instance or a snapshot goes.
Discard(o) ==
    /\ o \in living
    /\ living' = living \ {o}
    /\ content' = [content EXCEPT ![o] = Image]

Next ==
    \/ \E u \in Inst : Boot(u)
    \/ \E u \in Inst, s \in Snap : Deploy(u, s) \/ Take(u, s)
    \/ \E u \in Inst, p \in Writable, v \in Val : Store(u, p, v)
    \/ \E o \in Inst \cup Snap : Discard(o)

Spec == Init /\ [][Next]_vars

=============================================================================
