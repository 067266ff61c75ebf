---------------------------- MODULE MCNightAudit ----------------------------
(***************************************************************************)
(* Symmetry and the stays for the run of NightAudit: s1, of two nights,    *)
(* has an accepted price, s2, of one night, the live rate.                 *)
(***************************************************************************)
EXTENDS NightAudit, TLC

CONSTANTS s1, s2

Arrivals == s1 :> 1 @@ s2 :> 2
Departures == s1 :> 3 @@ s2 :> 3

Symmetry == Permutations(Audits)
=============================================================================
