------------------------------ MODULE MCAcademy ------------------------------
EXTENDS Academy, TLC
CONSTANTS r1, r2, r3, c1, a, b
MCTemplate == (r1 :> "record-class") @@ (r2 :> "record-class") @@ (r3 :> "record-test-scores")
MCClassOf == (r1 :> c1) @@ (r2 :> c1) @@ (r3 :> c1)
MCPayload == (r1 :> <<a>>) @@ (r2 :> <<b, a>>) @@ (r3 :> <<a>>)
MCEnrolled == (c1 :> {a})
Symmetry == Permutations(Procs)
=============================================================================
