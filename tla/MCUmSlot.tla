------------------------------ MODULE MCUmSlot ------------------------------
(* Model values for the instances of one core: interchangeable, none is      *)
(* treated specially, so runs that check no liveness use their symmetry.     *)
EXTENDS UmSlotInv
InstanceSymmetry == Permutations(Umi)
=============================================================================
