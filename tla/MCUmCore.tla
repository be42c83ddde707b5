------------------------------- MODULE MCUmCore -------------------------------
EXTENDS UmCoreInv, TLC
CONSTANTS v0
SameImage == [p \in Page |-> v0]
CoreSymmetry == Permutations(Umi) \cup Permutations(Frame) \cup Permutations(Snap)

\* What free and lost frames contain is never read: page faults and checkpoints fill new
\* ones, and no table maps a lost one.
Shape ==
    <<vars, life, root, table, snap_addr, tlb, allocated, lost,
      [f \in allocated \ lost |-> mem[f]]>>
==============================================================================
