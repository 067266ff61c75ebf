----------------------------- MODULE StayProofs -----------------------------
(***************************************************************************)
(* Type correctness of Stay for every set of operations.  For the          *)
(* operations that claim before they write: the state machine refinement   *)
(* and side effects that run once.  Unless an upgrade meets an audited     *)
(* no-show: a room for every guest in house.                               *)
(***************************************************************************)
EXTENDS Stay, TLAPS

NeedsRoom == {"assign", "move", "checkIn"}

\* What the step of a request says about the rest of it.
ShapeOf(q) ==
    /\ q.op \in Ops
    /\ q.pc \in {"room", "claim", "effects", "clear"} => q.id \in Res
    /\ q.pc = "room" \/ q.op \in NeedsRoom => q.to \in Rooms
    /\ q.pc \in {"read", "write"} => q.todo # <<>>

TypeInv == TypeOK /\ \A w \in Workers : req[w] # Idle => ShapeOf(req[w])

LEMMA StatusFacts ==
  /\ Statuses = {"pending", "confirmed", "assigned", "checked_in", "stayover", "due_out",
                 "checked_out", "no_show", "cancelled"}
  /\ InHouse = {"checked_in", "stayover", "due_out"}
  /\ Machine!Terminal = {"checked_out", "no_show", "cancelled"}
  BY DEF Statuses, InHouse, Machine!Statuses, Machine!InHouse, Machine!Terminal

LEMMA CallsType ==
  ASSUME NEW q \in Request, q.op \in NeedsRoom => q.to \in Rooms
  PROVE  Calls(q) \in Seq(Call)
<1>1. \A k \in Rooms, s \in RoomStatuses : Hard(k, s) \in Call /\ Soft(k, s) \in Call
  BY DEF Hard, Soft, Call
<1>2. "occupied" \in RoomStatuses /\ "vacant_dirty" \in RoomStatuses
  BY DEF RoomStatuses
<1>3. q.seen.room \in Rooms \cup {None} /\ q.to \in Rooms \cup {None}
  BY DEF Request, Row
<1>4. \A k \in Rooms : <<Hard(k, "occupied")>> \in Seq(Call)
      /\ <<Hard(k, "vacant_dirty")>> \in Seq(Call) /\ <<Soft(k, "vacant_dirty")>> \in Seq(Call)
  BY <1>1, <1>2
<1>5. <<>> \in Seq(Call) /\ \A s, t \in Seq(Call) : s \o t \in Seq(Call)
  OBVIOUS
<1>6. CASE q.op = "move"
  <2>1. q.to \in Rooms
    BY <1>6 DEF NeedsRoom
  <2>2. (IF q.seen.room = None THEN <<>> ELSE <<Soft(q.seen.room, "vacant_dirty")>>) \in Seq(Call)
    BY <1>3, <1>4
  <2> QED BY <1>4, <1>5, <1>6, <2>1, <2>2 DEF Calls
<1>7. CASE q.op = "split"
  BY <1>3, <1>4, <1>5, <1>7 DEF Calls
<1>8. CASE q.op = "checkOut"
  BY <1>3, <1>4, <1>5, <1>8 DEF Calls
<1>9. CASE q.op = "checkIn"
  BY <1>4, <1>9 DEF Calls, NeedsRoom
<1>10. CASE q.op \notin {"move", "split", "checkOut", "checkIn"}
  BY <1>5, <1>10 DEF Calls
<1> QED BY <1>6, <1>7, <1>8, <1>9, <1>10

LEMMA WrittenType ==
  ASSUME NEW q \in Request, NEW x \in Row
  PROVE  Written(q, x) \in Row
<1>1. q.to \in Rooms \cup {None} /\ q.seen.status \in Statuses \cup {"absent"}
      /\ x.status \in Statuses \cup {"absent"} /\ x.room \in Rooms \cup {None}
  BY DEF Request, Row
<1>2. SiblingStatus(q) \in Statuses
  BY StatusFacts DEF SiblingStatus
<1>3. {"confirmed", "assigned", "cancelled", "no_show", "checked_in", "checked_out"}
        \subseteq Statuses
  BY StatusFacts
<1>4. CASE q.op \in {"confirm", "assign", "move", "cancel", "channelCancel"}
  BY <1>1, <1>3, <1>4 DEF Written, Row
<1>5. CASE q.op \in {"noShow", "auditNoShow", "checkIn", "checkOut"}
  BY <1>1, <1>3, <1>5 DEF Written, Row
<1>6. CASE q.op \in {"split", "upgrade"}
  BY <1>1, <1>2, <1>3, <1>6 DEF Written, Row
<1>7. CASE q.op \notin {"confirm", "assign", "move", "cancel", "channelCancel", "noShow",
                        "auditNoShow", "checkIn", "checkOut", "split", "upgrade"}
  BY <1>7 DEF Written
<1> QED BY <1>4, <1>5, <1>6, <1>7

\* A step that replaces the request of w by nothing or by a well-shaped one.
LEMMA ReplaceRequest ==
  ASSUME TypeInv, NEW w \in Workers, NEW q, q = Idle \/ (q \in Request /\ ShapeOf(q)),
         req' = [req EXCEPT ![w] = q],
         res' \in [Res -> Row], room' \in [Rooms -> RoomStatuses],
         folios' \in [Res -> Nat], settled' \in [Res -> Nat]
  PROVE  TypeInv'
<1>1. req' \in [Workers -> Request \cup {Idle}]
  BY DEF TypeInv, TypeOK
<1>2. \A v \in Workers : req'[v] # Idle => ShapeOf(req'[v])
  BY DEF TypeInv, TypeOK
<1>3. (\A v \in Workers : req[v] # Idle => ShapeOf(req[v]))'
  BY <1>2 DEF ShapeOf
<1> QED BY <1>1, <1>3 DEF TypeInv, TypeOK

LEMMA StartKeepsTypes ==
  ASSUME TypeInv, NEW w \in Workers, NEW q \in Request, q.op \in Ops => ShapeOf(q), Start(w, q)
  PROVE  TypeInv'
  BY ReplaceRequest DEF Start, TypeInv, TypeOK

LEMMA NewRequestType ==
  ASSUME TypeInv, NEW r \in Res, NEW op \in AllOps, NEW pc \in {"room", "claim"},
         NEW to \in Rooms \cup {None}, pc = "room" \/ op \in NeedsRoom => to \in Rooms
  PROVE  /\ NewRequest(op, pc, r, to) \in Request
         /\ op \in Ops => ShapeOf(NewRequest(op, pc, r, to))
         /\ NewRequest(op, pc, r, to).op = op
<1>1. res[r] \in Row /\ <<>> \in Seq(Call)
  BY DEF TypeInv, TypeOK
<1>2. NewRequest(op, pc, r, to) \in Request
  BY <1>1 DEF NewRequest, Request
<1> QED BY <1>2 DEF NewRequest, ShapeOf

LEMMA BeginKeepsTypes ==
  ASSUME TypeInv, NEW w \in Workers, Begin(w)
  PROVE  TypeInv'
<1>1. ASSUME NEW r \in Res, NEW op \in AllOps, NEW pc \in {"room", "claim"},
             NEW to \in Rooms \cup {None}, pc = "room" \/ op \in NeedsRoom => to \in Rooms,
             Start(w, NewRequest(op, pc, r, to))
      PROVE  TypeInv'
  BY <1>1, NewRequestType, StartKeepsTypes
<1>2. AllOps = {"confirm", "assign", "move", "cancel", "noShow", "auditNoShow",
                "checkIn", "checkOut", "split", "staff", "payment", "expire",
                "audit", "channelCancel", "upgrade"}
  BY DEF AllOps
<1>3. \A r \in Res : res[r] \in Row /\ res[r].room \in Rooms \cup {None}
  BY DEF TypeInv, TypeOK, Row
<1>4. ASSUME NEW r \in Res, BeginConfirm(w, r) \/ BeginCancel(w, r) \/ BeginNoShow(w, r)
                              \/ BeginCheckOut(w, r)
      PROVE  TypeInv'
  BY <1>1, <1>2, <1>4 DEF BeginConfirm, BeginCancel, BeginNoShow, BeginCheckOut, NeedsRoom
<1>5. ASSUME NEW r \in Res, BeginAssign(w, r) \/ BeginMove(w, r)
      PROVE  TypeInv'
  BY <1>1, <1>2, <1>5 DEF BeginAssign, BeginMove
<1>6. ASSUME NEW r \in Res, BeginCheckIn(w, r)
      PROVE  TypeInv'
  BY <1>1, <1>2, <1>3, <1>6 DEF BeginCheckIn
<1>7. ASSUME NEW r \in Res, BeginChannelCancel(w, r) \/ BeginUpgrade(w, r)
      PROVE  TypeInv'
  BY <1>1, <1>2, <1>7 DEF BeginChannelCancel, BeginUpgrade, NeedsRoom
<1>8. ASSUME NEW r \in Res, BeginSplit(w, r)
      PROVE  TypeInv'
  <2>1. PICK s \in Res, k \in Rooms \cup {None} :
           Start(w, [NewRequest("split", IF k = None THEN "claim" ELSE "room", s, k)
                       EXCEPT !.seen = res[r]])
    BY <1>8 DEF BeginSplit
  <2> DEFINE pc == IF k = None THEN "claim" ELSE "room"
             n == NewRequest("split", pc, s, k)
             q == [n EXCEPT !.seen = res[r]]
  <2>2. pc \in {"room", "claim"} /\ (pc = "room" => k \in Rooms) /\ "split" \notin NeedsRoom
    BY DEF NeedsRoom
  <2>3. n \in Request /\ ("split" \in Ops => ShapeOf(n)) /\ n.op = "split"
    BY <1>2, <2>2, NewRequestType
  <2>4. q \in Request /\ q.op = "split" /\ ("split" \in Ops => ShapeOf(q))
    BY <1>3, <2>3 DEF Request, ShapeOf
  <2> HIDE DEF n, q
  <2> QED BY <2>1, <2>4, StartKeepsTypes DEF n, q
<1>9. CASE BeginStaff(w)
  <2>1. PICK k \in Rooms, s \in RoomStatuses :
           Start(w, [pc |-> "read", op |-> "staff", id |-> None, to |-> None,
                     seen |-> [status |-> "absent", room |-> None],
                     todo |-> <<Hard(k, s)>>])
    BY <1>9 DEF BeginStaff
  <2> DEFINE q == [pc |-> "read", op |-> "staff", id |-> None, to |-> None,
                   seen |-> [status |-> "absent", room |-> None],
                   todo |-> <<Hard(k, s)>>]
  <2>2. <<Hard(k, s)>> \in Seq(Call) /\ <<Hard(k, s)>> # <<>>
    BY DEF Hard, Call
  <2>3. [status |-> "absent", room |-> None] \in Row
    BY DEF Row
  <2>4. q \in Request
    BY <1>2, <2>2, <2>3 DEF Request
  <2>5. q.op \in Ops => ShapeOf(q)
    BY <2>2 DEF ShapeOf, NeedsRoom
  <2> HIDE DEF q
  <2> QED BY <2>1, <2>4, <2>5, StartKeepsTypes DEF q
<1> QED BY <1>4, <1>5, <1>6, <1>7, <1>8, <1>9 DEF Begin

\* Ending a request, or going on with what is left of its room transitions.
LEMMA ResumeKeepsTypes ==
  ASSUME TypeInv, NEW w \in Workers, req[w] # Idle, NEW todo \in Seq(Call),
         End(w) \/ Resume(w, todo),
         res' \in [Res -> Row], room' \in [Rooms -> RoomStatuses],
         folios' \in [Res -> Nat], settled' \in [Res -> Nat]
  PROVE  TypeInv'
<1> DEFINE q == [req[w] EXCEPT !.pc = "read", !.todo = todo]
<1>0. req[w] \in Request /\ ShapeOf(req[w])
  BY DEF TypeInv, TypeOK
<1>1. CASE End(w)
  BY <1>1, ReplaceRequest DEF End
<1>2. CASE Resume(w, todo) /\ todo = <<>>
  BY <1>2, ReplaceRequest DEF Resume
<1>3. CASE Resume(w, todo) /\ todo # <<>>
  <2>1. q \in Request /\ q.pc = "read" /\ q.todo = todo /\ q.op = req[w].op /\ q.to = req[w].to
    BY <1>0 DEF Request
  <2>2. ShapeOf(q)
    BY <1>0, <1>3, <2>1 DEF ShapeOf
  <2>3. req' = [req EXCEPT ![w] = q]
    BY <1>3 DEF Resume
  <2> HIDE DEF q
  <2> QED BY <2>1, <2>2, <2>3, ReplaceRequest
<1> QED BY <1>1, <1>2, <1>3

\* Advancing a request to another step.
LEMMA GotoKeepsTypes ==
  ASSUME TypeInv, NEW w \in Workers, req[w] # Idle,
         NEW pc \in {"claim", "effects", "clear", "write"},
         req[w].pc = "read" \/ pc # "write",
         req[w].pc \in {"room", "claim", "effects"} \/ pc = "write",
         req' = [req EXCEPT ![w].pc = pc],
         res' \in [Res -> Row], UNCHANGED room,
         folios' \in [Res -> Nat], settled' \in [Res -> Nat]
  PROVE  TypeInv'
<1> DEFINE q == [req[w] EXCEPT !.pc = pc]
<1>0. req[w] \in Request /\ ShapeOf(req[w])
  BY DEF TypeInv, TypeOK
<1>1. q \in Request /\ q.pc = pc /\ q.todo = req[w].todo /\ q.op = req[w].op
      /\ q.to = req[w].to /\ q.id = req[w].id
  BY <1>0 DEF Request
<1>2. ShapeOf(q)
  BY <1>0, <1>1 DEF ShapeOf
<1>3. req' = [req EXCEPT ![w] = q] /\ room' \in [Rooms -> RoomStatuses]
  BY DEF TypeInv, TypeOK
<1> HIDE DEF q
<1> QED BY <1>1, <1>2, <1>3, ReplaceRequest

LEMMA ProceedKeepsTypes ==
  ASSUME TypeInv, NEW w \in Workers, Proceed(w)
  PROVE  TypeInv'
<1> DEFINE q == req[w]
<1>1. q # Idle
  BY DEF Proceed, ReadRoom, Claim, Effects, Clear, TransitionRead, TransitionWrite, Abort, Idle
<1>2. /\ q \in Request /\ ShapeOf(q)
      /\ res \in [Res -> Row] /\ room \in [Rooms -> RoomStatuses]
      /\ folios \in [Res -> Nat] /\ settled \in [Res -> Nat]
  BY <1>1 DEF TypeInv, TypeOK
<1>3. q.todo \in Seq(Call) /\ <<>> \in Seq(Call) /\ Calls(q) \in Seq(Call)
  BY <1>2, CallsType DEF Request, ShapeOf
<1>4. CASE ReadRoom(w)
  BY <1>1, <1>2, <1>3, <1>4, GotoKeepsTypes, ResumeKeepsTypes DEF ReadRoom
<1>5. CASE Claim(w)
  <2>1. q.id \in Res /\ q.pc = "claim"
    BY <1>2, <1>5 DEF Claim, ShapeOf
  <2>2. res' \in [Res -> Row] /\ UNCHANGED <<room, folios, settled>>
    BY <1>2, <1>5, <2>1, WrittenType DEF Claim
  <2>3. \/ req' = [req EXCEPT ![w].pc = "effects"]
        \/ Resume(w, Calls(q)) \/ End(w)
    BY <1>5 DEF Claim
  <2> QED BY <1>1, <1>2, <1>3, <2>1, <2>2, <2>3, GotoKeepsTypes, ResumeKeepsTypes
<1>6. CASE Effects(w)
  <2>1. q.id \in Res /\ q.pc = "effects"
    BY <1>2, <1>6 DEF Effects, ShapeOf
  <2>2. folios' \in [Res -> Nat] /\ settled' \in [Res -> Nat] /\ UNCHANGED <<res, room>>
    BY <1>2, <1>6, <2>1 DEF Effects
  <2>3. \/ req' = [req EXCEPT ![w].pc = "clear"]
        \/ Resume(w, Calls(q)) \/ End(w)
    BY <1>6 DEF Effects
  <2> QED BY <1>1, <1>2, <1>3, <2>1, <2>2, <2>3, GotoKeepsTypes, ResumeKeepsTypes
<1>7. CASE Clear(w)
  <2>1. q.id \in Res
    BY <1>2, <1>7 DEF Clear, ShapeOf
  <2>2. res' = [res EXCEPT ![q.id] = [res[q.id] EXCEPT !.room = None]]
        /\ [res[q.id] EXCEPT !.room = None] \in Row
    BY <1>2, <1>7, <2>1 DEF Clear, Row
  <2> QED BY <1>1, <1>2, <1>3, <1>7, <2>1, <2>2, ResumeKeepsTypes DEF Clear
<1>8. CASE TransitionRead(w)
  <2>1. Tail(q.todo) \in Seq(Call) /\ q.pc = "read"
    BY <1>2, <1>3, <1>8 DEF TransitionRead, ShapeOf
  <2>2. \/ req' = [req EXCEPT ![w].pc = "write"]
        \/ Resume(w, Tail(q.todo)) \/ End(w)
    BY <1>8 DEF TransitionRead
  <2> QED BY <1>1, <1>2, <1>3, <1>8, <2>1, <2>2, GotoKeepsTypes, ResumeKeepsTypes
          DEF TransitionRead
<1>9. CASE TransitionWrite(w)
  <2>1. Tail(q.todo) \in Seq(Call) /\ Head(q.todo) \in Call
    BY <1>2, <1>3, <1>9 DEF TransitionWrite, ShapeOf
  <2>2. Head(q.todo).room \in Rooms /\ Head(q.todo).to \in RoomStatuses
    BY <2>1 DEF Call
  <2>3. room' \in [Rooms -> RoomStatuses]
    BY <1>2, <1>9, <2>2 DEF TransitionWrite
  <2> QED BY <1>1, <1>2, <1>9, <2>1, <2>3, ResumeKeepsTypes DEF TransitionWrite
<1>10. CASE Abort(w)
  BY <1>1, <1>2, <1>3, <1>10, ResumeKeepsTypes DEF Abort
<1> QED BY <1>4, <1>5, <1>6, <1>7, <1>8, <1>9, <1>10 DEF Proceed

LEMMA OtherWritersKeepTypes ==
  ASSUME TypeInv, (\E r \in Res : Create(r) \/ PaymentConfirms(r) \/ PaymentExpires(r))
                    \/ AdvanceStayovers \/ MarkDueOuts
  PROVE  TypeInv'
<1>1. ASSUME res' \in [Res -> Row], UNCHANGED <<room, folios, settled, req>> PROVE TypeInv'
  BY <1>1 DEF TypeInv, TypeOK, ShapeOf
<1>2. \A r \in Res, s \in Statuses : [res[r] EXCEPT !.status = s] \in Row
  BY DEF TypeInv, TypeOK, Row
<1>3. {"pending", "confirmed", "cancelled", "stayover", "due_out"} \subseteq Statuses
  BY StatusFacts
<1>4. ASSUME NEW r \in Res, Create(r) \/ PaymentConfirms(r) \/ PaymentExpires(r) PROVE TypeInv'
  <2>1. PICK s \in Statuses : res' = [res EXCEPT ![r] = [res[r] EXCEPT !.status = s]]
    BY <1>3, <1>4 DEF Create, PaymentConfirms, PaymentExpires, Flip
  <2>2. res' \in [Res -> Row]
    BY <1>2, <2>1 DEF TypeInv, TypeOK
  <2> QED BY <1>1, <1>4, <2>2 DEF Create, PaymentConfirms, PaymentExpires, Flip
<1>5. ASSUME NEW from, NEW to \in Statuses, AuditMoves(from, to) PROVE TypeInv'
  <2>1. res' \in [Res -> Row]
    BY <1>2, <1>5 DEF AuditMoves, TypeInv, TypeOK
  <2> QED BY <1>1, <1>5, <2>1 DEF AuditMoves
<1> QED BY <1>3, <1>4, <1>5 DEF AdvanceStayovers, MarkDueOuts

LEMMA TypeInvInductive == TypeInv /\ [Next]_vars => TypeInv'
<1> SUFFICES ASSUME TypeInv, [Next]_vars PROVE TypeInv'
  OBVIOUS
<1>1. CASE UNCHANGED vars
  BY <1>1 DEF vars, TypeInv, TypeOK, ShapeOf
<1> QED BY <1>1, BeginKeepsTypes, ProceedKeepsTypes, OtherWritersKeepTypes DEF Next

LEMMA TypeInvInitially == Init => TypeInv
<1>1. "absent" \in Statuses \cup {"absent"} /\ Assignable \subseteq RoomStatuses
  BY DEF Assignable, RoomStatuses
<1> QED BY <1>1 DEF Init, TypeInv, TypeOK, Row

\* Every reachable state is well typed for every set of operations: a request
\* that writes a row names a reservation, and one that waits for a room
\* transition has a room to move.
THEOREM StayTypeCorrect == Spec => []TypeOK
<1>1. TypeInv => TypeOK
  BY DEF TypeInv
<1> QED BY <1>1, TypeInvInitially, TypeInvInductive, PTL DEF Spec

-----------------------------------------------------------------------------
(* The operations that claim before they write *)

\* What a writer may do to a row: a step of the state machine that leaves no
\* guest in house without a room.
RowStep(x, y) ==
    /\ \/ y.status = x.status
       \/ x.status = "absent" /\ y.status \in Machine!Inserted
       \/ x.status \in Statuses /\ y.status \in Machine!ValidTransitions[x.status]
    /\ y.status \in InHouse => y.room # None

\* The rights a claim leaves to its winner until the side effects have run.
Pending(q) ==
    /\ q.op = "checkIn" => /\ folios[q.id] = 0
                           /\ res[q.id].status \in InHouse \cup {"checked_out"}
    /\ q.op # "checkIn" => /\ settled[q.id] = 0
                           /\ res[q.id].status \in {"cancelled", "no_show"}
    /\ q.op = "auditNoShow" => res[q.id].status = "no_show"

Winners ==
    \A w \in Workers :
        /\ req[w].pc = "effects" =>
             /\ Pending(req[w])
             /\ \A v \in Workers : v # w /\ req[v].pc = "effects" => req[v].id # req[w].id
        /\ req[w].pc = "clear" => res[req[w].id].status = "no_show"

SafeInv == TypeInv /\ InHouseHasRoom /\ EffectsOnce /\ Winners

LEMMA MachineFacts ==
  /\ Machine!Inserted = {"pending", "confirmed", "assigned", "checked_in"}
  /\ Machine!ValidTransitions["pending"] = {"confirmed", "cancelled"}
  /\ Machine!ValidTransitions["confirmed"] = {"assigned", "cancelled", "no_show"}
  /\ Machine!ValidTransitions["assigned"] = {"checked_in", "cancelled", "no_show"}
  /\ Machine!ValidTransitions["checked_in"] = {"stayover", "checked_out"}
  /\ Machine!ValidTransitions["stayover"] = {"due_out", "checked_out"}
  /\ Machine!ValidTransitions["due_out"] = {"checked_out"}
  /\ Machine!ValidTransitions["checked_out"] = {}
  /\ Machine!ValidTransitions["no_show"] = {}
  /\ Machine!ValidTransitions["cancelled"] = {}
  BY DEF Machine!Inserted, Machine!ValidTransitions

\* The statuses that carry a folio, and those that carry a settlement, are closed
\* under the state machine.
LEMMA RowStepStays ==
  ASSUME NEW x \in Row, NEW y \in Row, RowStep(x, y)
  PROVE  /\ x.status \in InHouse \cup {"checked_out"} => y.status \in InHouse \cup {"checked_out"}
         /\ x.status \in {"cancelled", "no_show"} => y.status = x.status
  BY StatusFacts, MachineFacts DEF RowStep

LEMMA ClaimIsRowStep ==
  ASSUME NEW q \in Request, q.op \notin {"channelCancel", "upgrade"},
         q.op \in NeedsRoom => q.to \in Rooms,
         NEW x \in Row, x.status \in From(q), x.status \in InHouse => x.room # None
  PROVE  RowStep(x, Written(q, x))
<1>1. x.status \in Statuses \cup {"absent"} /\ q.op \in AllOps /\ None \notin Rooms
  BY StayAssumption DEF Row, Request
<1>2. CASE q.op \in {"confirm", "assign"}
  BY <1>2, StatusFacts, MachineFacts DEF From, Written, RowStep, Row
<1>3. CASE q.op \in {"cancel", "noShow", "auditNoShow"}
  BY <1>3, StatusFacts, MachineFacts DEF From, Written, RowStep, Row
<1>4. CASE q.op \in {"checkIn", "move"}
  BY <1>1, <1>4, StatusFacts, MachineFacts DEF From, Written, RowStep, Row, NeedsRoom
<1>5. CASE q.op = "checkOut"
  BY <1>5, StatusFacts, MachineFacts DEF From, Written, RowStep, Row
<1>6. CASE q.op = "split"
  BY <1>6, StatusFacts, MachineFacts DEF From, Written, RowStep, SiblingStatus
<1>7. CASE q.op \in {"staff", "payment", "expire", "audit"}
  BY <1>7 DEF Written, RowStep
<1> QED BY <1>1, <1>2, <1>3, <1>4, <1>5, <1>6, <1>7 DEF AllOps

\* Any step that moves rows along the machine, runs no side effect and puts no
\* worker in front of one.
LEMMA FrameKeepsSafe ==
  ASSUME SafeInv, TypeInv', \A r \in Res : RowStep(res[r], res'[r]), UNCHANGED <<folios, settled>>,
         \A v \in Workers : req'[v].pc \in {"effects", "clear"} => req'[v] = req[v]
  PROVE  SafeInv'
<1>1. \A r \in Res : res[r] \in Row /\ res'[r] \in Row
  BY DEF SafeInv, TypeInv, TypeOK
<1>2. \A r \in Res :
        /\ res[r].status \in InHouse \cup {"checked_out"}
             => res'[r].status \in InHouse \cup {"checked_out"}
        /\ res[r].status \in {"cancelled", "no_show"} => res'[r].status = res[r].status
  BY <1>1, RowStepStays
<1>3. InHouseHasRoom'
  BY DEF InHouseHasRoom, RowStep
<1>4. EffectsOnce'
  BY <1>2 DEF SafeInv, EffectsOnce
<1>5. Winners'
  <2>1. ASSUME NEW w \in Workers, req'[w].pc \in {"effects", "clear"}
        PROVE  req'[w] = req[w] /\ req[w] # Idle /\ req[w].id \in Res
    BY <2>1 DEF SafeInv, TypeInv, ShapeOf, Idle
  <2>2. ASSUME NEW w \in Workers, req'[w].pc = "effects"
        PROVE  Pending(req[w])'
    BY <1>2, <2>1, <2>2 DEF SafeInv, Winners, Pending
  <2> QED BY <1>2, <2>1, <2>2 DEF SafeInv, Winners
<1> QED BY <1>3, <1>4, <1>5 DEF SafeInv

Claiming == Ops \cap {"channelCancel", "upgrade"} = {}

LEMMA SameRows == SafeInv => \A r \in Res : RowStep(res[r], res[r])
  BY DEF SafeInv, InHouseHasRoom, RowStep

\* A request starts with a look at a room, with its claim or with a transition;
\* an upgrade has read a status that precedes the check-in.
Opening(q) ==
    /\ q.pc \in {"room", "claim", "read"}
    /\ q.op = "upgrade" => q.seen.status \in {"pending", "confirmed", "assigned"}

LEMMA BeginStarts ==
  ASSUME NEW w \in Workers, Begin(w)
  PROVE  \E q : Start(w, q) /\ Opening(q)
<1> DEFINE Goal == \E q : Start(w, q) /\ Opening(q)
<1>1. ASSUME NEW op, NEW pc \in {"room", "claim"}, NEW r, NEW to,
             op = "upgrade" => res[r].status \in {"pending", "confirmed", "assigned"},
             Start(w, NewRequest(op, pc, r, to))
      PROVE  Goal
  <2>1. Opening(NewRequest(op, pc, r, to))
    BY <1>1 DEF NewRequest, Opening
  <2> QED BY <1>1, <2>1
<1>2. ASSUME NEW r \in Res, BeginSplit(w, r)
      PROVE  Goal
  <2>1. PICK s \in Res, k \in Rooms \cup {None} :
           Start(w, [NewRequest("split", IF k = None THEN "claim" ELSE "room", s, k)
                       EXCEPT !.seen = res[r]])
    BY <1>2 DEF BeginSplit
  <2>2. Opening([NewRequest("split", IF k = None THEN "claim" ELSE "room", s, k)
                   EXCEPT !.seen = res[r]])
    BY DEF NewRequest, Opening
  <2> QED BY <2>1, <2>2
<1>3. CASE BeginStaff(w)
  <2>1. PICK k \in Rooms, s \in RoomStatuses :
           Start(w, [pc |-> "read", op |-> "staff", id |-> None, to |-> None,
                     seen |-> [status |-> "absent", room |-> None],
                     todo |-> <<Hard(k, s)>>])
    BY <1>3 DEF BeginStaff
  <2>2. Opening([pc |-> "read", op |-> "staff", id |-> None, to |-> None,
                 seen |-> [status |-> "absent", room |-> None], todo |-> <<Hard(k, s)>>])
    BY DEF Opening
  <2> QED BY <2>1, <2>2
<1>4. ASSUME NEW r \in Res, BeginConfirm(w, r) \/ BeginCancel(w, r) \/ BeginNoShow(w, r)
                              \/ BeginCheckOut(w, r) \/ BeginChannelCancel(w, r)
                              \/ BeginUpgrade(w, r)
      PROVE  Goal
  BY <1>1, <1>4 DEF BeginConfirm, BeginCancel, BeginNoShow, BeginCheckOut, BeginChannelCancel,
                    BeginUpgrade
<1>5. ASSUME NEW r \in Res, BeginAssign(w, r) \/ BeginMove(w, r) \/ BeginCheckIn(w, r)
      PROVE  Goal
  BY <1>1, <1>5 DEF BeginAssign, BeginMove, BeginCheckIn
<1> QED BY <1>2, <1>3, <1>4, <1>5 DEF Begin

LEMMA BeginIsSafe ==
  ASSUME SafeInv, NEW w \in Workers, Begin(w), TypeInv'
  PROVE  SafeInv' /\ UNCHANGED res
<1>1. PICK q : Start(w, q) /\ q.pc \in {"room", "claim", "read"}
  BY BeginStarts DEF Opening
<1>2. \A v \in Workers : req'[v].pc \in {"effects", "clear"} => req'[v] = req[v]
  BY <1>1 DEF Start, SafeInv, TypeInv, TypeOK
<1>3. UNCHANGED <<res, folios, settled>>
  BY <1>1 DEF Start
<1> QED BY <1>2, <1>3, SameRows, FrameKeepsSafe

\* A worker that leaves the side effects behind.
LEMMA LeavesEffects ==
  ASSUME SafeInv, NEW w \in Workers, req[w] # Idle, NEW todo, End(w) \/ Resume(w, todo)
  PROVE  \A v \in Workers : req'[v].pc \in {"effects", "clear"} => req'[v] = req[v]
<1>1. req \in [Workers -> Request \cup {Idle}] /\ req[w] \in Request
  BY DEF SafeInv, TypeInv, TypeOK
<1>2. CASE End(w)
  BY <1>1, <1>2 DEF End, Idle
<1>3. CASE Resume(w, todo)
  <2> DEFINE q == IF todo = <<>> THEN Idle ELSE [req[w] EXCEPT !.pc = "read", !.todo = todo]
  <2>1. q.pc \notin {"effects", "clear"}
    BY <1>1 DEF Request, Idle
  <2>2. req' = [req EXCEPT ![w] = q]
    BY <1>3 DEF Resume
  <2> HIDE DEF q
  <2> QED BY <1>1, <2>1, <2>2
<1> QED BY <1>2, <1>3

LEMMA ClaimIsSafe ==
  ASSUME SafeInv, Claiming, NEW w \in Workers, Claim(w), TypeInv'
  PROVE  SafeInv' /\ \A r \in Res : RowStep(res[r], res'[r])
<1> DEFINE q == req[w]
<1>1. /\ q # Idle /\ q \in Request /\ ShapeOf(q) /\ q.id \in Res
      /\ res \in [Res -> Row] /\ req \in [Workers -> Request \cup {Idle}]
  BY DEF Claim, Idle, SafeInv, TypeInv, TypeOK, ShapeOf
<1>2. UNCHANGED <<folios, settled>>
  BY DEF Claim
<1>3. CASE q.op \in {"cancel", "auditNoShow", "checkIn"} /\ res[q.id].status \in From(q)
  <2>1. /\ res' = [res EXCEPT ![q.id] = Written(q, res[q.id])]
        /\ req' = [req EXCEPT ![w].pc = "effects"]
    BY <1>3 DEF Claim
  <2>2. \A r \in Res : RowStep(res[r], res'[r])
    <3>1. q.op \notin {"channelCancel", "upgrade"} /\ (q.op \in NeedsRoom => q.to \in Rooms)
          /\ (res[q.id].status \in InHouse => res[q.id].room # None) /\ res[q.id] \in Row
      BY <1>1, <1>3 DEF ShapeOf, SafeInv, InHouseHasRoom
    <3>2. RowStep(res[q.id], Written(q, res[q.id]))
      BY <1>1, <1>3, <3>1, ClaimIsRowStep
    <3> QED BY <1>1, <2>1, <3>2, SameRows
  <2>3. res[q.id].status \in {"pending", "confirmed", "assigned"}
    BY <1>3 DEF From
  <2>4. folios[q.id] = 0 /\ settled[q.id] = 0
    BY <1>1, <2>3, StatusFacts DEF SafeInv, EffectsOnce, TypeInv, TypeOK
  <2>5. \A v \in Workers : v # w /\ req[v].pc = "effects" => req[v].id # q.id
    BY <2>3, StatusFacts DEF SafeInv, Winners, Pending
  <2>6. /\ q.op = "checkIn" => res'[q.id].status = "checked_in"
        /\ q.op = "cancel" => res'[q.id].status = "cancelled"
        /\ q.op = "auditNoShow" => res'[q.id].status = "no_show"
    BY <1>1, <2>1 DEF Written, Row
  <2>7. req'[w].pc = "effects" /\ req'[w].id = q.id /\ req'[w].op = q.op
        /\ \A v \in Workers : v # w => req'[v] = req[v]
    BY <1>1, <2>1 DEF Request
  <2>8. \A r \in Res :
          /\ res[r].status \in InHouse \cup {"checked_out"}
               => res'[r].status \in InHouse \cup {"checked_out"}
          /\ res[r].status \in {"cancelled", "no_show"} => res'[r].status = res[r].status
    BY <1>1, <2>2, RowStepStays DEF TypeInv, TypeOK
  <2>9. InHouseHasRoom' /\ EffectsOnce'
    BY <1>2, <2>2, <2>8 DEF SafeInv, InHouseHasRoom, EffectsOnce, RowStep
  <2>10. ASSUME NEW v \in Workers, req'[v].pc \in {"effects", "clear"}
         PROVE  req'[v].id \in Res
    BY <2>10 DEF TypeInv, ShapeOf, Idle
  <2>11. Pending(req[w])'
    BY <1>2, <1>3, <2>4, <2>6, <2>7, StatusFacts DEF Pending
  <2>12. ASSUME NEW v \in Workers, v # w, req[v].pc = "effects"
         PROVE  Pending(req[v])'
    BY <1>2, <2>7, <2>8, <2>10, <2>12 DEF SafeInv, Winners, Pending
  <2>13. Winners'
    BY <2>5, <2>7, <2>8, <2>10, <2>11, <2>12 DEF SafeInv, Winners
  <2> QED BY <2>2, <2>9, <2>13 DEF SafeInv
<1>4. CASE q.op \notin {"cancel", "auditNoShow", "checkIn"} /\ res[q.id].status \in From(q)
  <2>1. res' = [res EXCEPT ![q.id] = Written(q, res[q.id])] /\ Resume(w, Calls(q))
    BY <1>4 DEF Claim
  <2>2. RowStep(res[q.id], Written(q, res[q.id]))
    <3>1. q.op \notin {"channelCancel", "upgrade"} /\ (q.op \in NeedsRoom => q.to \in Rooms)
          /\ (res[q.id].status \in InHouse => res[q.id].room # None) /\ res[q.id] \in Row
      BY <1>1 DEF ShapeOf, SafeInv, InHouseHasRoom, Claiming
    <3> QED BY <1>1, <1>4, <3>1, ClaimIsRowStep
  <2>3. \A r \in Res : RowStep(res[r], res'[r])
    BY <1>1, <2>1, <2>2, SameRows
  <2> QED BY <1>1, <1>2, <2>1, <2>3, LeavesEffects, FrameKeepsSafe
<1>5. CASE res[q.id].status \notin From(q)
  BY <1>1, <1>2, <1>5, SameRows, LeavesEffects, FrameKeepsSafe DEF Claim
<1> QED BY <1>3, <1>4, <1>5

LEMMA EffectsIsSafe ==
  ASSUME SafeInv, NEW w \in Workers, Effects(w), TypeInv'
  PROVE  SafeInv' /\ UNCHANGED res
<1> DEFINE q == req[w]
<1>1. /\ q # Idle /\ q \in Request /\ q.id \in Res /\ q.pc = "effects"
      /\ folios \in [Res -> Nat] /\ settled \in [Res -> Nat]
      /\ req \in [Workers -> Request \cup {Idle}]
  BY DEF Effects, Idle, SafeInv, TypeInv, TypeOK, ShapeOf
<1>2. Pending(q) /\ UNCHANGED res
      /\ \A v \in Workers : v # w /\ req[v].pc = "effects" => req[v].id # q.id
  BY <1>1 DEF SafeInv, Winners, Effects
<1>3. \A v \in Workers : v # w => req'[v] = req[v]
  BY <1>1 DEF Effects, End, Resume
<1>4. req'[w].pc # "effects" /\ (req'[w].pc = "clear" => q.op = "auditNoShow" /\ req'[w].id = q.id)
  <2>1. CASE q.op = "checkIn"
    <3>1. Resume(w, Calls(q))
      BY <2>1 DEF Effects
    <3>2. req'[w].pc \notin {"effects", "clear"}
      BY <1>1, <3>1, LeavesEffects DEF Resume, Idle, Request
    <3> QED BY <3>2
  <2>2. CASE q.op # "checkIn"
    <3>1. (req' = [req EXCEPT ![w].pc = "clear"] /\ q.op = "auditNoShow") \/ End(w)
      BY <2>2 DEF Effects
    <3> QED BY <1>1, <3>1 DEF End, Idle, Request
  <2> QED BY <2>1, <2>2
<1>5. /\ q.op = "checkIn" => folios' = [folios EXCEPT ![q.id] = 1] /\ UNCHANGED settled
      /\ q.op # "checkIn" => /\ UNCHANGED folios
                             /\ UNCHANGED settled \/ settled' = [settled EXCEPT ![q.id] = 1]
  BY <1>1, <1>2 DEF Effects, Pending
<1>6. InHouseHasRoom'
  BY <1>2 DEF SafeInv, InHouseHasRoom
<1>7. EffectsOnce'
  <2>1. ASSUME NEW r \in Res
        PROVE  /\ folios'[r] <= 1 /\ settled'[r] <= 1
               /\ folios'[r] = 1 => res'[r].status \in InHouse \cup {"checked_out"}
               /\ settled'[r] = 1 => res'[r].status \in {"cancelled", "no_show"}
    BY <1>1, <1>2, <1>5 DEF SafeInv, EffectsOnce, Pending
  <2> QED BY <2>1 DEF EffectsOnce
<1>8. ASSUME NEW v \in Workers, v # w, req[v].pc = "effects"
      PROVE  Pending(req[v])'
  <2>1. req[v].id \in Res /\ req[v].id # q.id /\ Pending(req[v]) /\ req'[v] = req[v]
    BY <1>2, <1>3, <1>8 DEF SafeInv, Winners, TypeInv, ShapeOf, Idle
  <2>2. folios'[req[v].id] = folios[req[v].id] /\ settled'[req[v].id] = settled[req[v].id]
    BY <1>1, <1>5, <2>1
  <2> QED BY <1>2, <2>1, <2>2 DEF Pending
<1>9. Winners'
  BY <1>1, <1>2, <1>3, <1>4, <1>8 DEF SafeInv, Winners, Pending
<1> QED BY <1>2, <1>6, <1>7, <1>9 DEF SafeInv

LEMMA ProceedIsSafe ==
  ASSUME SafeInv, Claiming, NEW w \in Workers, Proceed(w), TypeInv'
  PROVE  SafeInv' /\ \A r \in Res : RowStep(res[r], res'[r])
<1>1. /\ req[w] # Idle /\ req[w] \in Request /\ req \in [Workers -> Request \cup {Idle}]
      /\ res \in [Res -> Row]
  BY DEF Proceed, ReadRoom, Claim, Effects, Clear, TransitionRead, TransitionWrite, Abort, Idle,
         SafeInv, TypeInv, TypeOK
<1>2. ASSUME NEW pc \in {"claim", "write"}, req' = [req EXCEPT ![w].pc = pc]
      PROVE  \A v \in Workers : req'[v].pc \in {"effects", "clear"} => req'[v] = req[v]
  BY <1>1, <1>2 DEF Request
<1>3. CASE ReadRoom(w)
  <2>1. \A v \in Workers : req'[v].pc \in {"effects", "clear"} => req'[v] = req[v]
    BY <1>1, <1>2, <1>3, LeavesEffects DEF ReadRoom
  <2> QED BY <1>3, <2>1, SameRows, FrameKeepsSafe DEF ReadRoom
<1>4. CASE Clear(w)
  <2>1. req[w].id \in Res /\ res[req[w].id].status = "no_show"
    BY <1>1, <1>4 DEF Clear, SafeInv, Winners, TypeInv, ShapeOf
  <2>2. res' = [res EXCEPT ![req[w].id] = [res[req[w].id] EXCEPT !.room = None]]
    BY <1>4 DEF Clear
  <2>3. RowStep(res[req[w].id], [res[req[w].id] EXCEPT !.room = None])
    BY <1>1, <2>1, StatusFacts DEF RowStep, Row
  <2>4. \A r \in Res : RowStep(res[r], res'[r])
    BY <1>1, <2>1, <2>2, <2>3, SameRows
  <2> QED BY <1>1, <1>4, <2>4, LeavesEffects, FrameKeepsSafe DEF Clear
<1>5. CASE TransitionRead(w)
  <2>1. \A v \in Workers : req'[v].pc \in {"effects", "clear"} => req'[v] = req[v]
    BY <1>1, <1>2, <1>5, LeavesEffects DEF TransitionRead
  <2> QED BY <1>5, <2>1, SameRows, FrameKeepsSafe DEF TransitionRead
<1>6. CASE TransitionWrite(w)
  BY <1>1, <1>6, SameRows, LeavesEffects, FrameKeepsSafe DEF TransitionWrite
<1>7. CASE Abort(w)
  BY <1>1, <1>7, SameRows, LeavesEffects, FrameKeepsSafe DEF Abort
<1>8. CASE Effects(w)
  BY <1>8, EffectsIsSafe, SameRows
<1>9. CASE Claim(w)
  BY <1>9, ClaimIsSafe
<1> QED BY <1>3, <1>4, <1>5, <1>6, <1>7, <1>8, <1>9 DEF Proceed

LEMMA OtherWritersAreSafe ==
  ASSUME SafeInv, TypeInv',
         (\E r \in Res : Create(r) \/ PaymentConfirms(r) \/ PaymentExpires(r))
           \/ AdvanceStayovers \/ MarkDueOuts
  PROVE  SafeInv' /\ \A r \in Res : RowStep(res[r], res'[r])
<1>1. res \in [Res -> Row] /\ \A r \in Res : res[r].status \in InHouse => res[r].room # None
  BY DEF SafeInv, TypeInv, TypeOK, InHouseHasRoom
<1>2. ASSUME NEW r \in Res, Create(r) \/ PaymentConfirms(r) \/ PaymentExpires(r)
      PROVE  (\A s \in Res : RowStep(res[s], res'[s])) /\ UNCHANGED <<folios, settled, req>>
  <2>1. PICK t \in {"pending", "confirmed", "cancelled"} :
           /\ res' = [res EXCEPT ![r] = [res[r] EXCEPT !.status = t]]
           /\ \/ res[r].status = "absent" /\ t # "cancelled"
              \/ res[r].status = "pending" /\ t # "pending"
    BY <1>2 DEF Create, PaymentConfirms, PaymentExpires, Flip
  <2>2. RowStep(res[r], [res[r] EXCEPT !.status = t])
    BY <1>1, <2>1, StatusFacts, MachineFacts DEF RowStep, Row
  <2>3. \A s \in Res : RowStep(res[s], res'[s])
    BY <1>1, <2>1, <2>2, SameRows
  <2> QED BY <1>2, <2>3 DEF Create, PaymentConfirms, PaymentExpires, Flip
<1>3. ASSUME NEW from \in {"checked_in", "stayover"}, NEW to \in {"stayover", "due_out"},
             AuditMoves(from, to), from = "stayover" <=> to = "due_out"
      PROVE  (\A s \in Res : RowStep(res[s], res'[s])) /\ UNCHANGED <<folios, settled, req>>
  <2>1. PICK S \in SUBSET {r \in Res : res[r].status = from} :
           res' = [r \in Res |-> IF r \in S THEN [res[r] EXCEPT !.status = to] ELSE res[r]]
    BY <1>3 DEF AuditMoves
  <2>2. \A r \in S : RowStep(res[r], [res[r] EXCEPT !.status = to])
    BY <1>1, <1>3, <2>1, StatusFacts, MachineFacts DEF RowStep, Row
  <2>3. \A s \in Res : RowStep(res[s], res'[s])
    BY <2>1, <2>2, SameRows
  <2> QED BY <1>3, <2>3 DEF AuditMoves
<1>4. (\A s \in Res : RowStep(res[s], res'[s])) /\ UNCHANGED <<folios, settled, req>>
  BY <1>2, <1>3 DEF AdvanceStayovers, MarkDueOuts
<1> QED BY <1>4, FrameKeepsSafe

LEMMA SafeStep ==
  ASSUME Claiming, SafeInv, [Next]_vars
  PROVE  SafeInv' /\ \A r \in Res : RowStep(res[r], res'[r])
<1>1. TypeInv'
  BY TypeInvInductive DEF SafeInv
<1>2. CASE UNCHANGED vars
  BY <1>1, <1>2, SameRows, FrameKeepsSafe DEF vars
<1>3. ASSUME NEW w \in Workers, Begin(w)
      PROVE  SafeInv' /\ \A r \in Res : RowStep(res[r], res'[r])
  BY <1>1, <1>3, BeginIsSafe, SameRows
<1>4. ASSUME NEW w \in Workers, Proceed(w)
      PROVE  SafeInv' /\ \A r \in Res : RowStep(res[r], res'[r])
  BY <1>1, <1>4, ProceedIsSafe
<1> QED BY <1>1, <1>2, <1>3, <1>4, OtherWritersAreSafe DEF Next

LEMMA SafeInitially == Init => SafeInv
<1> SUFFICES ASSUME Init PROVE SafeInv
  OBVIOUS
<1>1. TypeInv
  BY TypeInvInitially
<1>2. InHouseHasRoom /\ EffectsOnce
  BY StatusFacts DEF Init, InHouseHasRoom, EffectsOnce
<1>3. Winners
  BY DEF Init, Winners, Idle
<1> QED BY <1>1, <1>2, <1>3 DEF SafeInv

\* When every writer claims (no channel cancellation and no guest upgrade), a
\* stay never gets two check-in folios or two settlements, nor one of each: the winner of the claim alone runs them.
THEOREM ClaimsRunEffectsOnce == ASSUME Claiming PROVE Spec => []EffectsOnce
<1>1. SafeInv /\ [Next]_vars => SafeInv'
  BY SafeStep
<1>2. SafeInv => EffectsOnce
  BY DEF SafeInv
<1> QED BY <1>1, <1>2, SafeInitially, PTL DEF Spec

\* Under the same operations the concurrent handlers implement the documented
\* state machine: every step of Stay is a step of ReservationLifecycle on the
\* statuses, or leaves them alone.
THEOREM HandlersImplementLifecycle == ASSUME Claiming PROVE Spec => Lifecycle
<1>1. Init => Machine!Init
  BY DEF Init, Machine!Init
<1>2. SafeInv /\ [Next]_vars => SafeInv'
  BY SafeStep
<1>3. SafeInv /\ [Next]_vars
        => [Machine!Next]_([r \in Res |-> res[r].status])
  <2> SUFFICES ASSUME SafeInv, [Next]_vars PROVE Machine!Next
    OBVIOUS
  <2>1. SafeInv' /\ \A r \in Res : RowStep(res[r], res'[r])
    BY SafeStep
  <2>2. \A r \in Res : res'[r].status \in Statuses \cup {"absent"}
    BY <2>1 DEF SafeInv, TypeInv, TypeOK, Row
  <2>3. [r \in Res |-> res'[r].status] \in [Res -> Machine!Statuses \cup {"absent"}]
    BY <2>2 DEF Statuses
  <2>4. \A r \in Res : Machine!Moves(r)
    BY <2>1 DEF RowStep, Machine!Moves, Statuses
  <2> QED BY <2>3, <2>4 DEF Machine!Next
<1> QED BY <1>1, <1>2, <1>3, SafeInitially, PTL DEF Spec, Lifecycle, Machine!Spec

-----------------------------------------------------------------------------
(* A room for every guest in house *)

Alone == \A v, w \in Workers : v = w

\* The statuses a request that frees the room of a no-show counts on, and the
\* requests that do.
Gone == {"no_show", "cancelled"}
Freeing(q) == q.pc = "clear" \/ (q.pc = "effects" /\ q.op = "auditNoShow")

Careful(table, q) ==
    /\ Freeing(q) => q.op = "auditNoShow" /\ table[q.id].status \in Gone
    /\ q.op = "upgrade" => q.seen.status \in {"pending", "confirmed", "assigned"}

RoomInv ==
    /\ TypeInv
    /\ InHouseHasRoom
    /\ \A w \in Workers : req[w] # Idle => Careful(res, req[w])

\* Only an upgrade, which writes back the status it read, brings a reservation
\* back; it must not meet the night audit between a no-show and its room.
NoReturn == Alone \/ ~ ({"auditNoShow", "upgrade"} \subseteq Ops)

\* What a claim writes gives a guest in house a room, and only an upgrade revives.
LEMMA ClaimKeepsRoom ==
  ASSUME NEW q \in Request, q.op \in NeedsRoom => q.to \in Rooms, Careful(res, q),
         NEW x \in Row, x.status \in From(q), x.status \in InHouse => x.room # None
  PROVE  /\ Written(q, x).status \in InHouse => Written(q, x).room # None
         /\ q.op # "upgrade" /\ x.status \in Gone => Written(q, x).status \in Gone
         /\ q.op = "auditNoShow" => Written(q, x).status \in Gone
<1>1. CASE q.op = "upgrade"
  BY <1>1, StatusFacts DEF Written, Careful
<1>2. CASE q.op = "channelCancel"
  BY <1>2, StatusFacts DEF Written, Gone, Row
<1>3. CASE q.op \notin {"channelCancel", "upgrade"}
  <2>1. RowStep(x, Written(q, x)) /\ Written(q, x) \in Row
    BY <1>3, ClaimIsRowStep, WrittenType
  <2>2. q.op = "auditNoShow" => Written(q, x).status \in Gone
    BY DEF Written, Gone, Row
  <2> QED BY <2>1, <2>2, RowStepStays DEF RowStep, Gone
<1> QED BY <1>1, <1>2, <1>3

\* A step of w, or of none, that keeps the rooms of guests.
LEMMA RoomFrame ==
  ASSUME RoomInv, TypeInv', InHouseHasRoom', NEW w,
         \A v \in Workers \ {w} : req'[v] = req[v],
         \A v \in Workers \ {w} : req[v] # Idle /\ Freeing(req[v]) => res'[req[v].id].status \in Gone,
         w \in Workers /\ req'[w] # Idle => Careful(res', req'[w])
  PROVE  RoomInv'
<1>1. \A v \in Workers : req'[v] # Idle => Careful(res', req'[v])
  BY DEF RoomInv, Careful
<1>2. (\A v \in Workers : req[v] # Idle => Careful(res, req[v]))'
  BY <1>1 DEF Careful, Freeing
<1> QED BY <1>2 DEF RoomInv

\* A step of w that writes no row.
LEMMA RoomRequestStep ==
  ASSUME RoomInv, TypeInv', NEW w \in Workers, UNCHANGED res, NEW q,
         req' = [req EXCEPT ![w] = q], q # Idle => Careful(res, q)
  PROVE  RoomInv'
<1>1. /\ req'[w] = q
      /\ \A v \in Workers \ {w} : req'[v] = req[v]
      /\ \A v \in Workers \ {w} : req[v] # Idle /\ Freeing(req[v]) => res'[req[v].id].status \in Gone
  BY DEF RoomInv, TypeInv, TypeOK, Careful
<1>2. InHouseHasRoom'
  BY DEF RoomInv, InHouseHasRoom
<1>3. UNCHANGED res => (req'[w] # Idle => Careful(res', req'[w]))
  BY <1>1
<1> QED BY <1>1, <1>2, <1>3, RoomFrame

\* Ending or resuming frees no room.
LEMMA Resumes ==
  ASSUME RoomInv, NEW w \in Workers, req[w] # Idle, NEW todo, End(w) \/ Resume(w, todo)
  PROVE  \E q : req' = [req EXCEPT ![w] = q] /\ (q # Idle => \A table : Careful(table, q))
<1>1. req[w] \in Request /\ Careful(res, req[w])
  BY DEF RoomInv, TypeInv, TypeOK
<1>2. CASE End(w)
  BY <1>2 DEF End
<1>3. CASE Resume(w, todo)
  <2> DEFINE q == IF todo = <<>> THEN Idle ELSE [req[w] EXCEPT !.pc = "read", !.todo = todo]
  <2>1. req' = [req EXCEPT ![w] = q]
    BY <1>3 DEF Resume
  <2>2. q # Idle => q.pc = "read" /\ q.op = req[w].op /\ q.seen = req[w].seen
    BY <1>1 DEF Request
  <2> HIDE DEF q
  <2>3. q # Idle => \A table : Careful(table, q)
    BY <1>1, <2>2 DEF Careful, Freeing
  <2> QED BY <2>1, <2>3
<1> QED BY <1>2, <1>3

LEMMA ProceedKeepsRooms ==
  ASSUME NoReturn, RoomInv, TypeInv', NEW w \in Workers, Proceed(w)
  PROVE  RoomInv'
<1> DEFINE q == req[w]
<1>1. /\ q # Idle /\ q \in Request /\ ShapeOf(q) /\ Careful(res, q)
      /\ req \in [Workers -> Request \cup {Idle}] /\ res \in [Res -> Row]
  BY DEF Proceed, ReadRoom, Claim, Effects, Clear, TransitionRead, TransitionWrite, Abort, Idle,
         RoomInv, TypeInv, TypeOK
<1>2. ASSUME NEW todo, UNCHANGED res, End(w) \/ Resume(w, todo) PROVE RoomInv'
  BY <1>1, <1>2, Resumes, RoomRequestStep
<1>3. ASSUME NEW pc, UNCHANGED res, req' = [req EXCEPT ![w].pc = pc],
             Freeing([q EXCEPT !.pc = pc]) => Freeing(q)
      PROVE  RoomInv'
  <2> DEFINE p == [q EXCEPT !.pc = pc]
  <2>1. p.op = q.op /\ p.id = q.id /\ p.seen = q.seen /\ req' = [req EXCEPT ![w] = p]
    BY <1>1, <1>3 DEF Request
  <2>2. Careful(res, p)
    BY <1>1, <1>3, <2>1 DEF Careful
  <2> HIDE DEF p
  <2> QED BY <1>3, <2>1, <2>2, RoomRequestStep
<1>4. CASE ReadRoom(w)
  <2>1. ~ Freeing([q EXCEPT !.pc = "claim"])
    BY <1>1 DEF Freeing, Request
  <2> QED BY <1>2, <1>3, <1>4, <2>1 DEF ReadRoom
<1>5. CASE TransitionRead(w)
  <2>1. ~ Freeing([q EXCEPT !.pc = "write"])
    BY <1>1 DEF Freeing, Request
  <2> QED BY <1>2, <1>3, <1>5, <2>1 DEF TransitionRead
<1>6. CASE TransitionWrite(w) \/ Abort(w)
  BY <1>2, <1>6 DEF TransitionWrite, Abort
<1>7. CASE Effects(w)
  <2>1. q.op = "auditNoShow" => Freeing(q)
    BY <1>7 DEF Effects, Freeing
  <2>2. \/ Resume(w, Calls(q)) \/ End(w)
        \/ q.op = "auditNoShow" /\ req' = [req EXCEPT ![w].pc = "clear"]
    BY <1>7 DEF Effects
  <2> QED BY <1>2, <1>3, <1>7, <2>1, <2>2 DEF Effects
<1>8. ASSUME NEW r \in Res, NEW x \in Row, res' = [res EXCEPT ![r] = x],
             x.status \in InHouse => x.room # None,
             q.op # "upgrade" /\ res[r].status \in Gone => x.status \in Gone,
             \A v \in Workers \ {w} : req'[v] = req[v],
             req'[w] # Idle => Careful(res', req'[w])
      PROVE  RoomInv'
  <2>1. InHouseHasRoom'
    BY <1>1, <1>8 DEF RoomInv, InHouseHasRoom
  <2>2. ASSUME NEW v \in Workers \ {w}, req[v] # Idle, Freeing(req[v])
        PROVE  res'[req[v].id].status \in Gone
    <3>1. /\ req[v].op = "auditNoShow" /\ req[v].op \in Ops /\ req[v].id \in Res
          /\ res[req[v].id].status \in Gone
      BY <2>2 DEF RoomInv, Careful, TypeInv, ShapeOf, Freeing
    <3>2. q.op # "upgrade"
      BY <1>1, <3>1 DEF NoReturn, Alone, ShapeOf
    <3> QED BY <1>1, <1>8, <3>1, <3>2
  <2> QED BY <1>8, <2>1, <2>2, RoomFrame
<1>9. CASE Clear(w)
  <2> DEFINE x == [res[q.id] EXCEPT !.room = None]
  <2>1. q.id \in Res /\ q.pc = "clear" /\ res[q.id].status \in Gone
    BY <1>1, <1>9 DEF Clear, Careful, Freeing, ShapeOf
  <2>2. x \in Row /\ x.status = res[q.id].status /\ x.status \notin InHouse
    BY <1>1, <2>1, StatusFacts DEF Row, Gone
  <2>3. res' = [res EXCEPT ![q.id] = x] /\ req'[w] = Idle
        /\ \A v \in Workers \ {w} : req'[v] = req[v]
    BY <1>1, <1>9 DEF Clear, End
  <2> HIDE DEF x
  <2> QED BY <1>8, <2>1, <2>2, <2>3
<1>10. CASE Claim(w) /\ res[q.id].status \in From(q)
  <2> DEFINE x == Written(q, res[q.id])
  <2>1. q.id \in Res /\ q.pc = "claim" /\ res[q.id] \in Row
    BY <1>1, <1>10 DEF Claim, ShapeOf
  <2>2. /\ x \in Row
        /\ x.status \in InHouse => x.room # None
        /\ q.op # "upgrade" /\ res[q.id].status \in Gone => x.status \in Gone
        /\ q.op = "auditNoShow" => x.status \in Gone
    <3>1. (q.op \in NeedsRoom => q.to \in Rooms)
          /\ (res[q.id].status \in InHouse => res[q.id].room # None)
      BY <1>1, <2>1 DEF ShapeOf, RoomInv, InHouseHasRoom
    <3> QED BY <1>1, <1>10, <2>1, <3>1, ClaimKeepsRoom, WrittenType
  <2>3. res' = [res EXCEPT ![q.id] = x]
    BY <1>10 DEF Claim
  <2>4. res'[q.id] = x
    BY <1>1, <2>1, <2>3
  <2> HIDE DEF x
  <2>5. CASE req' = [req EXCEPT ![w].pc = "effects"]
    <3>1. /\ req'[w].pc = "effects" /\ req'[w].op = q.op /\ req'[w].id = q.id
          /\ req'[w].seen = q.seen /\ \A v \in Workers \ {w} : req'[v] = req[v]
      BY <1>1, <2>5 DEF Request
    <3>2. Careful(res', req'[w])
      BY <1>1, <2>2, <2>4, <3>1 DEF Careful, Freeing
    <3> QED BY <1>8, <2>1, <2>2, <2>3, <3>1, <3>2
  <2>6. CASE Resume(w, Calls(q))
    <3>1. PICK p : req' = [req EXCEPT ![w] = p] /\ (p # Idle => \A table : Careful(table, p))
      BY <1>1, <2>6, Resumes
    <3>2. req'[w] = p /\ \A v \in Workers \ {w} : req'[v] = req[v]
      BY <1>1, <3>1
    <3>3. req'[w] # Idle => Careful(res', req'[w])
      BY <3>1, <3>2
    <3> QED BY <1>8, <2>1, <2>2, <2>3, <3>2, <3>3
  <2> QED BY <1>10, <2>5, <2>6 DEF Claim
<1>11. CASE Claim(w) /\ res[q.id].status \notin From(q)
  BY <1>2, <1>11 DEF Claim
<1> QED BY <1>4, <1>5, <1>6, <1>7, <1>9, <1>10, <1>11 DEF Proceed

\* The writers of one conditional statement touch no reservation that is gone.
LEMMA OtherWritersKeepRooms ==
  ASSUME RoomInv, TypeInv',
         (\E r \in Res : Create(r) \/ PaymentConfirms(r) \/ PaymentExpires(r))
           \/ AdvanceStayovers \/ MarkDueOuts \/ UNCHANGED vars
  PROVE  RoomInv'
<1>0. res \in [Res -> Row]
  BY DEF RoomInv, TypeInv, TypeOK
<1>1. /\ UNCHANGED req
      /\ \A r \in Res : /\ res'[r].room = res[r].room
                        /\ res'[r].status \in InHouse => res[r].status \in InHouse
                        /\ res[r].status \in Gone => res'[r].status = res[r].status
  <2>1. ASSUME NEW r \in Res, Create(r) \/ PaymentConfirms(r) \/ PaymentExpires(r)
        PROVE  <1>1!2 /\ UNCHANGED req
    BY <1>0, <2>1, StatusFacts DEF Create, PaymentConfirms, PaymentExpires, Flip, Gone, Row
  <2>2. CASE AdvanceStayovers
    BY <1>0, <2>2, StatusFacts DEF AdvanceStayovers, AuditMoves, Gone, Row
  <2>3. CASE MarkDueOuts
    BY <1>0, <2>3, StatusFacts DEF MarkDueOuts, AuditMoves, Gone, Row
  <2>4. CASE UNCHANGED vars
    BY <2>4 DEF vars
  <2> QED BY <2>1, <2>2, <2>3, <2>4
<1>2. InHouseHasRoom'
  BY <1>1 DEF RoomInv, InHouseHasRoom
<1>3. \A v \in Workers : req[v] # Idle /\ Freeing(req[v]) => res'[req[v].id].status \in Gone
  BY <1>1 DEF RoomInv, Careful, TypeInv, ShapeOf, Freeing
<1>4. \A v \in Workers : req'[v] # Idle => Careful(res', req'[v])
  BY <1>1, <1>3 DEF RoomInv, Careful
<1>5. (\A v \in Workers : req[v] # Idle => Careful(res, req[v]))'
  BY <1>4 DEF Careful, Freeing
<1> QED BY <1>2, <1>5 DEF RoomInv

\* A guest in house always has a room, however requests interleave and wherever
\* they stop, channel cancellations included; unless a guest's upgrade revives a
\* no-show whose room the night audit has yet to free, for which two requests
\* are needed.
THEOREM GuestsHaveRooms == ASSUME NoReturn PROVE Spec => []InHouseHasRoom
<1>1. Init => RoomInv
  BY TypeInvInitially, StatusFacts DEF Init, RoomInv, InHouseHasRoom
<1>2. RoomInv /\ [Next]_vars => RoomInv'
  <2> SUFFICES ASSUME RoomInv, [Next]_vars PROVE RoomInv'
    OBVIOUS
  <2>0. TypeInv /\ TypeInv'
    BY TypeInvInductive DEF RoomInv
  <2>1. ASSUME NEW w \in Workers, Begin(w) PROVE RoomInv'
    <3>1. PICK q : Start(w, q) /\ Opening(q)
      BY <2>1, BeginStarts
    <3>2. Careful(res, q)
      BY <3>1 DEF Opening, Careful, Freeing
    <3> QED BY <2>0, <3>1, <3>2, RoomRequestStep DEF Start
  <2>2. ASSUME NEW w \in Workers, Proceed(w) PROVE RoomInv'
    BY <2>0, <2>2, ProceedKeepsRooms
  <2> QED BY <2>0, <2>1, <2>2, OtherWritersKeepRooms DEF Next
<1>3. RoomInv => InHouseHasRoom
  BY DEF RoomInv
<1> QED BY <1>1, <1>2, <1>3, PTL DEF Spec
=============================================================================
