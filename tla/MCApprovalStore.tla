--------------------------- MODULE MCApprovalStore ---------------------------
EXTENDS ApprovalStore, TLC
CONSTANTS p1, p2, a1, a2
MCIdOf == (p1 :> a1) @@ (p2 :> a2)
Symmetry == Permutations(Procs)
=============================================================================
