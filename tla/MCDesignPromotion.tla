-------------------------- MODULE MCDesignPromotion --------------------------
EXTENDS DesignPromotion, TLC
CONSTANTS b1, b2, panel, d1, d2, broken, old, p1, p2
MCViewOf == (b1 :> panel) @@ (b2 :> panel)
MCDesignOf == (b1 :> d1) @@ (b2 :> d2)
Symmetry == Permutations(Procs)
=============================================================================
