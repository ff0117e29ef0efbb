---------------------------- MODULE MCOutwardSend ----------------------------
(* Two plans with one slug, as plans that differ only in the characters a  *)
(* slug drops, and a third with a slug of its own.                         *)
EXTENDS OutwardSend, TLC
CONSTANTS s1, s2, s3, p1, p2, p3, a1, a2
MCPlanOf == (s1 :> p1) @@ (s2 :> p2) @@ (s3 :> p3)
MCIdOf == (p1 :> a1) @@ (p2 :> a1) @@ (p3 :> a2)
Symmetry == Permutations(Procs)
=============================================================================
