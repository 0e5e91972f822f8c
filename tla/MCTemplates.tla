------------------------------ MODULE MCTemplates ------------------------------
(***************************************************************************)
(* Small instances of Templates for TLC.                                   *)
(***************************************************************************)
EXTENDS Templates, TLC

CONSTANTS n1, n2, a, c1

TwoNames == {n1, n2}
OneAlias == {a}
Same == [x \in OneAlias |-> x]
OneContent == {c1}
Symmetry == Permutations(TwoNames)
=============================================================================
