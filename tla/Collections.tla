---------------------------- MODULE Collections -----------------------------
(***************************************************************************)
(* The few operators of SequencesExt and FiniteSetsExt that the parts of   *)
(* the profile use, on top of the fold of Folds.  A part that extends this *)
(* module and not those two brings a dozen definitions into the profile,   *)
(* which has an instance of every part, and not a hundred: the provers are *)
(* given all of them with every obligation.                                *)
(***************************************************************************)
EXTENDS Naturals, Sequences, FiniteSets, Folds

Min(S) == CHOOSE least \in S : \A x \in S : least <= x
Max(S) == CHOOSE greatest \in S : \A x \in S : greatest >= x

\* The sum of op over the members of a finite set.
MapThenSumSet(op(_), S) == MapThenFoldSet(+, 0, op, LAMBDA s : CHOOSE x \in s : TRUE, S)

ToSet(seq) == {seq[i] : i \in DOMAIN seq}

\* op applied to base and the first item, to that and the second, and so on.
FoldLeft(op(_, _), base, seq) ==
  MapThenFoldSet(LAMBDA item, so_far : op(so_far, item), base,
                 LAMBDA i : seq[i], LAMBDA s : Max(s), DOMAIN seq)

\* The sequences of a sequence, one after the other.
FlattenSeq(seqs) ==
  LET joined[i \in 1..Len(seqs)] == IF i = 1 THEN seqs[i] ELSE joined[i - 1] \o seqs[i]
  IN IF Len(seqs) = 0 THEN <<>> ELSE joined[Len(seqs)]
=============================================================================
