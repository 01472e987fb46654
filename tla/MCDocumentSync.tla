--------------------------- MODULE MCDocumentSync ---------------------------
(***************************************************************************)
(* Instances of DocumentSync for TLC.                                      *)
(***************************************************************************)
EXTENDS DocumentSync, TLC

CONSTANTS p1, p2, w1

OnePage == {p1}
TwoPages == {p1, p2}
OneWriter == {w1}
NoWriter == {}
Everyone == Pages \cup Writers
OnlyWriters == Writers

Symmetry == Permutations({p1, p2})

=============================================================================
