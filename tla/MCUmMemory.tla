----------------------------- MODULE MCUmMemory -----------------------------
EXTENDS UmMemoryInv, TLC

CONSTANTS v0

\* Every page of the image contains v0.
SameImage == [p \in Page |-> v0]

\* Indices of frames, instances, snapshots and cores carry no meaning.
MemorySymmetry ==
    Permutations(Frame) \cup Permutations(Inst) \cup Permutations(Snap)
        \cup Permutations(Core)

=============================================================================
