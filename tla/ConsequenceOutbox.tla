-------------------------- MODULE ConsequenceOutbox -------------------------
(***************************************************************************)
(* The outbox of booking-request consequences.  A decision or a payment    *)
(* commits its events as rows; dispatchers (the request that committed it  *)
(* and the 30-second scan of every process) claim a row under a lease,     *)
(* hand the event to the listeners and complete the row.  The lease of a   *)
(* claim may run out while its dispatcher is still at work.  claimedAt is  *)
(* represented by the dispatcher that set it.                              *)
(***************************************************************************)
EXTENDS Naturals

CONSTANTS
    Consequences,
    Dispatchers,
    Subs,           \* webhook subscriptions
    None

VARIABLES
    cons,       \* cons[e]: the booking_request_consequences row e
    disp        \* disp[w]: what dispatcher w is doing

vars == <<cons, disp>>

Idle == [pc |-> "idle"]

\* todo: the subscriptions the event is still to be enqueued for.
Dispatch == [pc : {"claimed", "listing"}, on : Consequences, todo : SUBSET Subs]

TypeOK ==
    /\ cons \in [Consequences -> [status : {"none", "pending", "processing", "completed"},
                                  by : Dispatchers \cup {None}]]
    /\ disp \in [Dispatchers -> Dispatch \cup {Idle}]

Init ==
    /\ cons = [e \in Consequences |-> [status |-> "none", by |-> None]]
    /\ disp = [w \in Dispatchers |-> Idle]

InsertConsequence(e) ==
    /\ cons[e].status = "none"
    /\ cons' = [cons EXCEPT ![e].status = "pending"]
    /\ UNCHANGED disp

\* The dispatcher that claimed e is still at work on it.
Held(e) ==
    /\ cons[e].status = "processing"
    /\ LET by == cons[e].by IN disp[by] # Idle /\ disp[by].on = e

\* A row in processing is claimed again once its lease is over: `overdue' tells
\* whether that is while the first claim is still being worked on.
ClaimConsequence(w, e, overdue) ==
    /\ disp[w] = Idle
    /\ cons[e].status \in {"pending", "processing"}
    /\ Held(e) = overdue
    /\ cons' = [cons EXCEPT ![e] = [status |-> "processing", by |-> w]]
    /\ disp' = [disp EXCEPT ![w] = [pc |-> "claimed", on |-> e, todo |-> {}]]

\* The listener of all events reads the matching subscriptions ...
ReadSubscriptions(w, active) ==
    /\ disp[w].pc = "claimed"
    /\ disp' = [disp EXCEPT ![w].pc = "listing", ![w].todo = active]
    /\ UNCHANGED cons

\* ... and enqueues a delivery for each, one after the other.
Enqueued(w, s) ==
    /\ disp[w].pc = "listing"
    /\ s \in disp[w].todo
    /\ disp' = [disp EXCEPT ![w].todo = @ \ {s}]
    /\ UNCHANGED cons

\* ... and an error of the listener is logged by the event emitter, which lets
\* emitAsync resolve: what is left of the list is left out.
ListenerThrows(w) ==
    /\ disp[w].pc = "claimed" \/ (disp[w].pc = "listing" /\ disp[w].todo # {})
    /\ disp' = [disp EXCEPT ![w].pc = "listing", ![w].todo = {}]
    /\ UNCHANGED cons

Owns(w) ==
    LET e == disp[w].on IN cons[e].status = "processing" /\ cons[e].by = w

\* Mutant: the row is completed by any dispatcher, dispatched or not.
CompleteEarly(w) ==
    /\ disp[w].pc = "listing"
    /\ cons' = [cons EXCEPT ![disp[w].on] = [status |-> "completed", by |-> None]]
    /\ disp' = [disp EXCEPT ![w] = Idle]

\* emitAsync has resolved.
Complete(w) ==
    /\ disp[w].pc = "listing"
    /\ disp[w].todo = {}
    /\ cons' = IF Owns(w) THEN [cons EXCEPT ![disp[w].on] = [status |-> "completed", by |-> None]]
               ELSE cons
    /\ disp' = [disp EXCEPT ![w] = Idle]

\* Mutant: the failure of an attempt is recorded whoever holds the claim.
RecordFailureAlways(w) ==
    /\ disp[w].pc = "claimed"
    /\ cons' = [cons EXCEPT ![disp[w].on] = [status |-> "pending", by |-> None]]
    /\ disp' = [disp EXCEPT ![w] = Idle]

\* dispatchPersisted throws before it emits: the row is pending again, if the
\* claim is still held.
RecordFailure(w) ==
    /\ disp[w].pc = "claimed"
    /\ cons' = IF Owns(w) THEN [cons EXCEPT ![disp[w].on] = [status |-> "pending", by |-> None]]
               ELSE cons
    /\ disp' = [disp EXCEPT ![w] = Idle]

\* The process dies, or a statement of the dispatcher fails: the row stays
\* processing until its lease is over.
Die(w) ==
    /\ disp[w] # Idle
    /\ disp' = [disp EXCEPT ![w] = Idle]
    /\ UNCHANGED cons
=============================================================================
