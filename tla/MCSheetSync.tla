----------------------------- MODULE MCSheetSync -----------------------------
(* Two syncs over two cells that hold nothing or one of two texts.         *)
EXTENDS SheetSync, TLC

Symmetry == Permutations(Syncs) \cup Permutations(Cells)

=============================================================================
