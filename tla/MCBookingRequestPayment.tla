---------------------- MODULE MCBookingRequestPayment -----------------------
(***************************************************************************)
(* Symmetry and the bound on installments for the run of                   *)
(* BookingRequestPayment.                                                  *)
(***************************************************************************)
EXTENDS BookingRequestPayment, TLC

Symmetry == Permutations(Workers) \cup Permutations(Cards) \cup Permutations(Externals)
            \cup Permutations(Claims) \cup Permutations(Installments)

\* Bound: several installments are explored while one payment and one worker
\* are in use.
InstallmentBound ==
    \/ Cardinality({i \in Installments : inst[i] # NoInstallment}) <= 1
    \/ /\ Cardinality({p \in Payments : pay[p] # NoPayment}) <= 1
       /\ Cardinality({w \in Workers : req[w] # Idle}) <= 1
=============================================================================
