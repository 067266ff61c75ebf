-------------------------------- MODULE Stay --------------------------------
(***************************************************************************)
(* The life of reservations and of the rooms they are assigned to: every   *)
(* writer of reservations.status and reservations.room_id, and the room    *)
(* status transitions the lifecycle triggers, as concurrent requests.      *)
(*                                                                         *)
(* A request reads the reservation, perhaps the room, writes the row (most *)
(* operations with a conditional "claim", some without a condition), and   *)
(* then runs its side effects, the last of which are room transitions.     *)
(* RoomStatusService.transitionStatus is a read, a check and an            *)
(* unconditional write, so each takes two steps.  All rooms are of one     *)
(* type; dates are left open.                                              *)
(***************************************************************************)
EXTENDS Naturals, Sequences

CONSTANTS
    Workers,    \* concurrent requests
    Res,        \* reservations
    Rooms,      \* rooms
    Ops,        \* the operations in use (a subset of AllOps)
    None        \* no room

AllOps == {"confirm", "assign", "move", "cancel", "noShow", "auditNoShow",
           "checkIn", "checkOut", "split", "staff", "payment", "expire",
           "audit", "channelCancel", "upgrade"}

ASSUME StayAssumption == Ops \subseteq AllOps /\ None \notin Rooms

VARIABLES
    res,        \* res[r]: status and room of the reservation
    room,       \* room[k]: rooms.status
    folios,     \* folios[r]: guest folios opened at check-in
    settled,    \* settled[r]: cancellation or no-show settlements run
    req         \* req[w]: the request worker w is serving

vars == <<res, room, folios, settled, req>>

Machine == INSTANCE ReservationLifecycle
             WITH status <- [r \in Res |-> res[r].status]

Statuses == Machine!Statuses
InHouse == Machine!InHouse

-----------------------------------------------------------------------------
(* Room status *)

RoomStatuses == {"vacant_clean", "vacant_dirty", "clean", "inspected",
                 "guest_ready", "occupied", "out_of_order", "out_of_service"}

RoomTransitions ==
    [vacant_clean   |-> {"occupied", "vacant_dirty", "out_of_order", "out_of_service"},
     vacant_dirty   |-> {"clean", "out_of_order"},
     clean          |-> {"inspected", "vacant_clean", "vacant_dirty", "out_of_order"},
     inspected      |-> {"guest_ready", "vacant_dirty", "out_of_order"},
     guest_ready    |-> {"occupied", "vacant_dirty", "out_of_order"},
     occupied       |-> {"vacant_dirty"},
     out_of_order   |-> {"vacant_dirty"},
     out_of_service |-> {"vacant_dirty"}]

Assignable == {"guest_ready", "vacant_clean"}

\* A pending transitionStatus call; a soft one is wrapped in try/catch.
Call == [room : Rooms, to : RoomStatuses, soft : BOOLEAN]
Hard(k, s) == [room |-> k, to |-> s, soft |-> FALSE]
Soft(k, s) == [room |-> k, to |-> s, soft |-> TRUE]

-----------------------------------------------------------------------------
(* Requests *)

Row == [status : Statuses \cup {"absent"}, room : Rooms \cup {None}]

\* pc: "room" reads the target room, "claim" writes the reservation, "effects"
\* runs the side effects, "clear" drops the room of a no-show, "read" and
\* "write" are the two halves of the first call of todo.
Request == [pc : {"room", "claim", "effects", "clear", "read", "write"},
            op : AllOps, id : Res \cup {None}, to : Rooms \cup {None}, seen : Row,
            todo : Seq(Call)]
Idle == [pc |-> "idle"]

TypeOK ==
    /\ res \in [Res -> Row]
    /\ room \in [Rooms -> RoomStatuses]
    /\ folios \in [Res -> Nat]
    /\ settled \in [Res -> Nat]
    /\ req \in [Workers -> Request \cup {Idle}]

Init ==
    /\ res = [r \in Res |-> [status |-> "absent", room |-> None]]
    /\ room \in [Rooms -> Assignable]
    /\ folios = [r \in Res |-> 0]
    /\ settled = [r \in Res |-> 0]
    /\ req = [w \in Workers |-> Idle]

-----------------------------------------------------------------------------
(* The statuses an operation may start from *)

Can(r, target) == res[r].status \in Statuses
                    /\ target \in Machine!ValidTransitions[res[r].status]

Start(w, q) ==
    /\ q.op \in Ops
    /\ req[w] = Idle
    /\ req' = [req EXCEPT ![w] = q]
    /\ UNCHANGED <<res, room, folios, settled>>

NewRequest(op, pc, r, to) ==
    [pc |-> pc, op |-> op, id |-> r, to |-> to, seen |-> res[r], todo |-> <<>>]

\* ReservationService.create, the channel and Connect bookings.
Create(r) ==
    /\ res[r].status = "absent"
    /\ \E s \in {"pending", "confirmed"} : res' = [res EXCEPT ![r].status = s]
    /\ UNCHANGED <<room, folios, settled, req>>

BeginConfirm(w, r) ==
    /\ Can(r, "confirmed")
    /\ Start(w, NewRequest("confirm", "claim", r, None))

BeginAssign(w, r) ==
    /\ Can(r, "assigned")
    /\ \E k \in Rooms : Start(w, NewRequest("assign", "room", r, k))

BeginMove(w, r) ==
    /\ res[r].status \in {"assigned"} \cup InHouse
    /\ \E k \in Rooms \ {res[r].room} : Start(w, NewRequest("move", "room", r, k))

\* Also the Connect cancellation, which delegates to cancel.
BeginCancel(w, r) ==
    /\ Can(r, "cancelled")
    /\ Start(w, NewRequest("cancel", "claim", r, None))

\* markNoShow at the desk, and processNoShows of the night audit.
BeginNoShow(w, r) ==
    /\ Can(r, "no_show")
    /\ \E op \in {"noShow", "auditNoShow"} : Start(w, NewRequest(op, "claim", r, None))

\* With a room of the dto, which is checked, or the one of the row, which is not.
BeginCheckIn(w, r) ==
    /\ Can(r, "checked_in")
    /\ \/ \E k \in Rooms : Start(w, NewRequest("checkIn", "room", r, k))
       \/ /\ res[r].room # None
          /\ Start(w, NewRequest("checkIn", "claim", r, res[r].room))

BeginCheckOut(w, r) ==
    /\ Can(r, "checked_out")
    /\ Start(w, NewRequest("checkOut", "claim", r, None))

\* ReservationPartyService.split of reservation r into the sibling s.
BeginSplit(w, r) ==
    /\ res[r].status \in Statuses \ Machine!Terminal
    /\ \E s \in {s \in Res : res[s].status = "absent"}, k \in Rooms \cup {None} :
         Start(w, [NewRequest("split", IF k = None THEN "claim" ELSE "room", s, k)
                     EXCEPT !.seen = res[r]])

\* InboundReservationService.handleCancellation: whatever the status.
BeginChannelCancel(w, r) ==
    /\ res[r].status \in Statuses
    /\ Start(w, NewRequest("channelCancel", "claim", r, None))

\* Mutant: the offer is taken up whatever the status.
BeginUpgradeAnytime(w, r) ==
    /\ res[r].status \in Statuses
    /\ Start(w, NewRequest("upgrade", "claim", r, None))

\* GuestCheckInService.acceptUpsell of a room upgrade.
BeginUpgrade(w, r) ==
    /\ res[r].status \in {"pending", "confirmed", "assigned"}
    /\ Start(w, NewRequest("upgrade", "claim", r, None))

\* The desk or housekeeping asks for a room transition.
BeginStaff(w) ==
    \E k \in Rooms, s \in RoomStatuses :
        Start(w, [pc |-> "read", op |-> "staff", id |-> None, to |-> None,
                  seen |-> [status |-> "absent", room |-> None],
                  todo |-> <<Hard(k, s)>>])

-----------------------------------------------------------------------------
(* The steps of a request *)

End(w) == req' = [req EXCEPT ![w] = Idle]

\* The next call of todo, or the end of the request.
Resume(w, todo) ==
    req' = [req EXCEPT ![w] = IF todo = <<>> THEN Idle
                              ELSE [req[w] EXCEPT !.pc = "read", !.todo = todo]]

ReadRoom(w) ==
    LET q == req[w] IN
    /\ q.pc = "room"
    /\ \/ room[q.to] \in Assignable /\ req' = [req EXCEPT ![w].pc = "claim"]
       \/ room[q.to] \notin Assignable /\ End(w)
    /\ UNCHANGED <<res, room, folios, settled>>

\* Mutant: the no-show claim has no status condition.
FromUnconditionalNoShow(q) ==
    CASE q.op = "confirm"  -> {"pending"}
      [] q.op = "assign"   -> {"confirmed"}
      [] q.op = "cancel"   -> {"pending", "confirmed", "assigned"}
      [] q.op = "checkIn"  -> {"assigned"}
      [] q.op = "checkOut" -> InHouse
      [] q.op = "split"    -> {"absent"}
      [] OTHER             -> Statuses

\* Mutant: a cancellation claims the in-house statuses too.
FromCancelAnytime(q) ==
    IF q.op = "cancel" THEN Statuses \ {"cancelled"}
    ELSE IF q.op \in {"noShow", "auditNoShow"} THEN {"confirmed", "assigned"}
    ELSE FromUnconditionalNoShow(q)

\* The status condition of the UPDATE (claimTransition's allowedFromStatuses);
\* move, channelCancel and upgrade have none.
From(q) ==
    CASE q.op = "confirm"                     -> {"pending"}
      [] q.op = "assign"                      -> {"confirmed"}
      [] q.op = "cancel"                      -> {"pending", "confirmed", "assigned"}
      [] q.op \in {"noShow", "auditNoShow"}   -> {"confirmed", "assigned"}
      [] q.op = "checkIn"                     -> {"assigned"}
      [] q.op = "checkOut"                    -> InHouse
      [] q.op = "split"                       -> {"absent"}
      [] OTHER                                -> Statuses

SiblingStatus(q) ==
    IF q.to # None THEN (IF q.seen.status \in InHouse THEN "checked_in" ELSE "assigned")
    ELSE (IF q.seen.status = "pending" THEN "pending" ELSE "confirmed")

\* The row the UPDATE (or a split's INSERT) writes over x.
Written(q, x) ==
    CASE q.op = "confirm"                     -> [x EXCEPT !.status = "confirmed"]
      [] q.op = "assign"                      -> [status |-> "assigned", room |-> q.to]
      [] q.op = "move"                        -> [x EXCEPT !.room = q.to]
      [] q.op \in {"cancel", "channelCancel"} -> [x EXCEPT !.status = "cancelled"]
      [] q.op \in {"noShow", "auditNoShow"}   -> [x EXCEPT !.status = "no_show"]
      [] q.op = "checkIn"                     -> [status |-> "checked_in", room |-> q.to]
      [] q.op = "checkOut"                    -> [x EXCEPT !.status = "checked_out"]
      [] q.op = "split"                       -> [status |-> SiblingStatus(q), room |-> q.to]
      [] q.op = "upgrade"                     ->
            [status |-> IF q.seen.status = "assigned" THEN "confirmed" ELSE q.seen.status,
             room |-> None]
      [] OTHER                                -> x

\* The room transitions that follow the write.  They use the row as it was read.
Calls(q) ==
    CASE q.op = "move" /\ q.seen.status \in InHouse ->
            (IF q.seen.room = None THEN <<>> ELSE <<Soft(q.seen.room, "vacant_dirty")>>)
              \o <<Hard(q.to, "occupied")>>
      [] q.op = "split" /\ q.to # None /\ q.seen.status \in InHouse ->
            <<Hard(q.to, "occupied")>>
      [] q.op = "checkOut" /\ q.seen.room # None -> <<Hard(q.seen.room, "vacant_dirty")>>
      [] q.op = "checkIn" -> <<Hard(q.to, "occupied")>>
      [] OTHER -> <<>>

\* Mutant: processNoShows frees the room although the claim failed.
ClaimErrorIgnored(w) ==
    LET q == req[w] IN
    /\ q.pc = "claim"
    /\ \/ /\ res[q.id].status \in From(q)
          /\ res' = [res EXCEPT ![q.id] = Written(q, @)]
          /\ IF q.op \in {"cancel", "auditNoShow", "checkIn"}
             THEN req' = [req EXCEPT ![w].pc = "effects"]
             ELSE Resume(w, Calls(q))
       \/ /\ res[q.id].status \notin From(q)
          /\ IF q.op = "auditNoShow" THEN req' = [req EXCEPT ![w].pc = "clear"] ELSE End(w)
          /\ UNCHANGED res
    /\ UNCHANGED <<room, folios, settled>>

Claim(w) ==
    LET q == req[w] IN
    /\ q.pc = "claim"
    /\ \/ /\ res[q.id].status \in From(q)
          /\ res' = [res EXCEPT ![q.id] = Written(q, @)]
          /\ IF q.op \in {"cancel", "auditNoShow", "checkIn"}
             THEN req' = [req EXCEPT ![w].pc = "effects"]
             ELSE Resume(w, Calls(q))
       \/ /\ res[q.id].status \notin From(q)
          /\ End(w)
          /\ UNCHANGED res
    /\ UNCHANGED <<room, folios, settled>>

\* createAutoFolio of a check-in; the settlement of a cancellation or no-show,
\* whose failure is swallowed.
Effects(w) ==
    LET q == req[w] IN
    /\ q.pc = "effects"
    /\ \/ /\ q.op = "checkIn"
          /\ folios' = [folios EXCEPT ![q.id] = @ + 1]
          /\ Resume(w, Calls(q))
          /\ UNCHANGED settled
       \/ /\ q.op # "checkIn"
          /\ \/ settled' = [settled EXCEPT ![q.id] = @ + 1]
             \/ UNCHANGED settled
          /\ IF q.op = "auditNoShow" /\ q.seen.room # None
             THEN req' = [req EXCEPT ![w].pc = "clear"]
             ELSE End(w)
          /\ UNCHANGED folios
    /\ UNCHANGED <<res, room>>

\* Mutant: the column is emptied instead of set to null.
ClearToEmpty(w) ==
    /\ req[w].pc = "clear"
    /\ res' = [res EXCEPT ![req[w].id].room = ""]
    /\ End(w)
    /\ UNCHANGED <<room, folios, settled>>

\* processNoShows frees the room of the no-show, unconditionally.
Clear(w) ==
    /\ req[w].pc = "clear"
    /\ res' = [res EXCEPT ![req[w].id].room = None]
    /\ End(w)
    /\ UNCHANGED <<room, folios, settled>>

\* transitionStatus: read and check ...
TransitionRead(w) ==
    LET c == Head(req[w].todo)
        allowed == c.to \in RoomTransitions[room[c.room]]
    IN /\ req[w].pc = "read"
       /\ \/ allowed /\ req' = [req EXCEPT ![w].pc = "write"]
          \/ ~ allowed /\ c.soft /\ Resume(w, Tail(req[w].todo))
          \/ ~ allowed /\ ~ c.soft /\ End(w)
       /\ UNCHANGED <<res, room, folios, settled>>

\* ... and write, without a condition.
TransitionWrite(w) ==
    LET c == Head(req[w].todo) IN
    /\ req[w].pc = "write"
    /\ room' = [room EXCEPT ![c.room] = c.to]
    /\ Resume(w, Tail(req[w].todo))
    /\ UNCHANGED <<res, folios, settled>>

\* An error or a crash between two statements.
Abort(w) ==
    /\ req[w] # Idle
    /\ End(w)
    /\ UNCHANGED <<res, room, folios, settled>>

-----------------------------------------------------------------------------
(* Writers that need one conditional statement *)

Flip(r, from, to) ==
    /\ res[r].status = from
    /\ res' = [res EXCEPT ![r].status = to]
    /\ UNCHANGED <<room, folios, settled, req>>

\* markPaid of a Connect session, finalizeHostedAuthorization.
PaymentConfirms(r) == "payment" \in Ops /\ Flip(r, "pending", "confirmed")

\* expireSession, and a declined hosted authorization.
PaymentExpires(r) == "expire" \in Ops /\ Flip(r, "pending", "cancelled")

\* One UPDATE of the night audit moves every row its date condition selects.
AuditMoves(from, to) ==
    /\ "audit" \in Ops
    /\ \E S \in SUBSET {r \in Res : res[r].status = from} \ {{}} :
         res' = [r \in Res |-> IF r \in S THEN [res[r] EXCEPT !.status = to] ELSE res[r]]
    /\ UNCHANGED <<room, folios, settled, req>>

AdvanceStayovers == AuditMoves("checked_in", "stayover")
MarkDueOuts == AuditMoves("stayover", "due_out")

Begin(w) ==
    \/ BeginStaff(w)
    \/ \E r \in Res :
         \/ BeginConfirm(w, r)
         \/ BeginAssign(w, r)
         \/ BeginMove(w, r)
         \/ BeginCancel(w, r)
         \/ BeginNoShow(w, r)
         \/ BeginCheckIn(w, r)
         \/ BeginCheckOut(w, r)
         \/ BeginSplit(w, r)
         \/ BeginChannelCancel(w, r)
         \/ BeginUpgrade(w, r)

Proceed(w) ==
    \/ ReadRoom(w)
    \/ Claim(w)
    \/ Effects(w)
    \/ Clear(w)
    \/ TransitionRead(w)
    \/ TransitionWrite(w)
    \/ Abort(w)

Next ==
    \/ \E w \in Workers : Begin(w) \/ Proceed(w)
    \/ \E r \in Res : Create(r) \/ PaymentConfirms(r) \/ PaymentExpires(r)
    \/ AdvanceStayovers
    \/ MarkDueOuts

Spec == Init /\ [][Next]_vars

-----------------------------------------------------------------------------
(* Properties *)

\* Without the channel cancellation and the guest upgrade, the status of every
\* reservation follows the documented state machine, whatever the interleaving:
\* the claims of claimTransition make stale reads harmless.
Lifecycle == Machine!Spec

\* A guest in house has a room, although rooms are cleared and replaced by
\* writes that look at no status.
InHouseHasRoom == \A r \in Res : res[r].status \in InHouse => res[r].room # None

\* Money follows the claim: a stay gets at most one check-in folio and at most
\* one cancellation or no-show settlement, and never both.
EffectsOnce ==
    \A r \in Res :
        /\ folios[r] <= 1 /\ settled[r] <= 1
        /\ folios[r] = 1 => res[r].status \in InHouse \cup {"checked_out"}
        /\ settled[r] = 1 => res[r].status \in {"cancelled", "no_show"}
=============================================================================
