------------------------------- MODULE MCStay -------------------------------
(***************************************************************************)
(* Symmetry and bounds for the runs of Stay.                               *)
(***************************************************************************)
EXTENDS Stay, TLC

Symmetry == Permutations(Workers) \cup Permutations(Res) \cup Permutations(Rooms)

\* Bound: an upgrade can send a guest back to check-in any number of times.
OneCheckIn == \A r \in Res : folios[r] <= 1
=============================================================================
