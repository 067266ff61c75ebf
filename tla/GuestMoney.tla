----------------------------- MODULE GuestMoney -----------------------------
(***************************************************************************)
(* What a booking request promises its guest about money, whatever staff,  *)
(* gateway and webhooks do meanwhile: money is taken and given back only   *)
(* while the request is not denied, nothing is given back or kept twice,   *)
(* money is kept only while the decision is open, and a denial leaves      *)
(* nothing with the hotel that was not kept on purpose.                    *)
(***************************************************************************)
EXTENDS Naturals

CONSTANT Payments

VARIABLES
    decision,    \* pending, accepted or denied
    held,        \* held[p]: the guest's money the hotel has through payment p
    kept         \* kept[p]: the part of it retained for a reason

vars == <<decision, held, kept>>

Init ==
    /\ decision = "pending"
    /\ held = [p \in Payments |-> 0]
    /\ kept = [p \in Payments |-> 0]

Elsewhere(f, p) == \A q \in Payments \ {p} : f'[q] = f[q]

Take(p) ==
    /\ decision # "denied"
    /\ held'[p] > held[p]
    /\ Elsewhere(held, p)
    /\ UNCHANGED <<decision, kept>>

GiveBack(p) ==
    /\ decision # "denied"
    /\ kept[p] <= held'[p] /\ held'[p] < held[p]
    /\ Elsewhere(held, p)
    /\ UNCHANGED <<decision, kept>>

Keep(p) ==
    /\ decision = "pending"
    /\ kept[p] < kept'[p] /\ kept'[p] <= held[p]
    /\ Elsewhere(kept, p)
    /\ UNCHANGED <<decision, held>>

Accept ==
    /\ decision = "pending"
    /\ decision' = "accepted"
    /\ UNCHANGED <<held, kept>>

Deny ==
    /\ decision = "pending"
    /\ held = kept
    /\ decision' = "denied"
    /\ UNCHANGED <<held, kept>>

Next ==
    \/ \E p \in Payments : Take(p) \/ GiveBack(p) \/ Keep(p)
    \/ Accept
    \/ Deny

Spec == Init /\ [][Next]_vars
=============================================================================
