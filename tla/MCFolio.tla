------------------------------ MODULE MCFolio -------------------------------
(***************************************************************************)
(* Symmetry for the runs of Folio: requests and charge ids.  Folios are    *)
(* numbers, ordered, and not interchangeable.                              *)
(***************************************************************************)
EXTENDS Folio, TLC

Symmetry == Permutations(Workers) \cup Permutations(Charges)

\* Bound: one group of charges, posted at live tax or at an accepted price.
OneGroup == Cardinality({c \in Rows : ~ charge[c].reversal /\ charge[c].parent = None}) <= 1
=============================================================================
