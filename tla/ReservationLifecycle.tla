------------------------ MODULE ReservationLifecycle ------------------------
(***************************************************************************)
(* What the reservation state machine promises: a reservation is created   *)
(* in one of the statuses an insert may write, and from then on its status *)
(* only follows VALID_TRANSITIONS.  One step may move several rows (the    *)
(* night audit updates every reservation of the property in one statement).*)
(***************************************************************************)
CONSTANT Res

VARIABLE status

InHouse == {"checked_in", "stayover", "due_out"}
Terminal == {"checked_out", "no_show", "cancelled"}
Statuses == {"pending", "confirmed", "assigned"} \cup InHouse \cup Terminal

ValidTransitions ==
    [pending     |-> {"confirmed", "cancelled"},
     confirmed   |-> {"assigned", "cancelled", "no_show"},
     assigned    |-> {"checked_in", "cancelled", "no_show"},
     checked_in  |-> {"stayover", "checked_out"},
     stayover    |-> {"due_out", "checked_out"},
     due_out     |-> {"checked_out"},
     checked_out |-> {},
     no_show     |-> {},
     cancelled   |-> {}]

\* The statuses an INSERT writes: create, the channel and Connect bookings, and
\* a split, whose sibling inherits the phase of its source.
Inserted == {"pending", "confirmed", "assigned", "checked_in"}

Init == status = [r \in Res |-> "absent"]

Moves(r) ==
    \/ status'[r] = status[r]
    \/ status[r] = "absent" /\ status'[r] \in Inserted
    \/ status[r] \in Statuses /\ status'[r] \in ValidTransitions[status[r]]

Next ==
    /\ status' \in [Res -> Statuses \cup {"absent"}]
    /\ \A r \in Res : Moves(r)

Spec == Init /\ [][Next]_status
=============================================================================
