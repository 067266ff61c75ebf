--------------------------- MODULE NightAuditProofs --------------------------
(***************************************************************************)
(* The safety properties of NightAudit, for every set of audits and stays, *)
(* every number of dates and of failures.                                  *)
(*                                                                         *)
(* Why the look-up and the post of the live-rate path need no lock: the    *)
(* row of a date is created once, so of the audits at work no two have the *)
(* same date (OneAuditPerDate), and what one of them looked up about its   *)
(* date is still so when it posts (LookedUp).                              *)
(***************************************************************************)
EXTENDS NightAudit, TLAPS

\* The row of the date of an audit at work is running, and completed once the
\* audit has only its last event left.
RunOfAudit ==
    \A a \in Audits : at[a] # Idle =>
        run[at[a].date].status = IF at[a].pc = "emit" THEN "completed" ELSE "running"

OneAuditPerDate ==
    \A a, b \in Audits : a # b /\ at[a] # Idle /\ at[b] # Idle => at[a].date # at[b].date

\* Between look-up and post the charge is still missing.
LookedUp(a) ==
    at[a] # Idle /\ at[a].on # None =>
        /\ at[a].pc = "post"
        /\ at[a].on \in at[a].todo \ Accepted
        /\ charge[Row(a, at[a].on)].rows = 0

StartsWithRoom(a) == at[a].pc = "start" => at[a].line = "room"

Locked(d) ==
    \A l \in Lines, r \in Stays : charge[<<l, r, d>>].rows > 0 => charge[<<l, r, d>>].locked

LockedByNow(a) == at[a].pc = "complete" => Locked(at[a].date)

Came(r) == InHouse(r) \/ stay[r].status = "checked_out"

\* A stay that was read in house does not become an arrival again.
SeenCame == \A d \in Dates : \A r \in run[d].seen : Came(r)

\* What lets a completed audit leave r out of its errors.
Settled(r, d) ==
    \/ charge[<<"room", r, d>>].rows > 0
    \/ r \in Accepted /\ ~(InHouse(r) /\ Priced(r, d))

\* The stays the tariff loop has behind it are accounted for.
LoopAccounts(a) ==
    at[a] # Idle /\ at[a].pc # "start" =>
        \A r \in run[at[a].date].seen :
            \/ at[a].pc = "post" /\ at[a].line = "room" /\ r \in at[a].todo
            \/ r \in at[a].errs
            \/ Settled(r, at[a].date)

IInv ==
    /\ TypeOK
    /\ RunOfAudit
    /\ OneAuditPerDate
    /\ SeenCame
    /\ \A a \in Audits : StartsWithRoom(a) /\ LookedUp(a) /\ LockedByNow(a) /\ LoopAccounts(a)
    /\ NightChargedOnce
    /\ ClosedNightLocked
    /\ NothingForgotten

-----------------------------------------------------------------------------
(* Type correctness *)

\* An audit that is not idle is at a step.
LEMMA AtWork ==
    ASSUME TypeOK, NEW a \in Audits
    PROVE  /\ at[a] # Idle => at[a] \in Step
           /\ at[a].pc \in Pcs => at[a] # Idle
BY DEF TypeOK, Idle, Pcs

LEMMA DoneType ==
    ASSUME TypeOK, NEW a \in Audits, at[a] # Idle, NEW r \in Stays,
           NEW failed \in BOOLEAN, Done(a, r, failed)
    PROVE  at' \in [Audits -> Step \cup {Idle}]
<1>1. at[a] \in Step
  BY AtWork
<1> DEFINE new == [at[a] EXCEPT !.todo = @ \ {r}, !.on = None,
                                !.errs = IF failed THEN @ \cup {r} ELSE @]
<1>2. new \in Step
  BY <1>1 DEF Step
<1>3. at' = [at EXCEPT ![a] = new]
  BY DEF Done
<1> QED
  BY <1>2, <1>3 DEF TypeOK

LEMMA FaultType ==
    ASSUME TypeOK, Fault
    PROVE  faults' \in 0 .. MaxFaults
BY AuditAssumption DEF TypeOK, Fault

LEMMA DoneOrFailedType ==
    ASSUME TypeOK, NEW a \in Audits, at[a] # Idle, NEW r \in Stays, DoneOrFailed(a, r)
    PROVE  at' \in [Audits -> Step \cup {Idle}] /\ faults' \in 0 .. MaxFaults
BY DoneType, FaultType DEF DoneOrFailed, TypeOK

LEMMA TypeInit == Init => TypeOK
BY AuditAssumption DEF Init, TypeOK, Statuses, Idle, AuditRun, Reservation, Charges

LEMMA TypeRun ==
    ASSUME TypeOK, NEW a \in Audits,
           (\E d \in Dates : CreateOrGetAuditRun(a, d)) \/ CompleteAuditRun(a) \/ Finish(a)
             \/ FailAuditRun(a) \/ Crash(a)
    PROVE  TypeOK'
<1>1. CASE \E d \in Dates : CreateOrGetAuditRun(a, d)
  <2>1. PICK d \in Dates : CreateOrGetAuditRun(a, d)
    BY <1>1
  <2>2. [pc |-> "start", date |-> d, line |-> "room", todo |-> {}, on |-> None, errs |-> {}] \in Step
    BY DEF Step, Pcs, Lines
  <2> QED
    BY <2>1, <2>2 DEF CreateOrGetAuditRun, TypeOK, AuditRun
<1>2. CASE CompleteAuditRun(a)
  <2>1. at[a] \in Step
    BY <1>2, AtWork DEF CompleteAuditRun, Pcs
  <2>2. [at[a] EXCEPT !.pc = "emit"] \in Step
    BY <2>1 DEF Step, Pcs
  <2>3. at' \in [Audits -> Step \cup {Idle}]
    BY <1>2, <2>2 DEF CompleteAuditRun, TypeOK
  <2>4. [run[at[a].date] EXCEPT !.status = "completed", !.errs = at[a].errs] \in AuditRun
    <3>1. run[at[a].date] \in AuditRun /\ at[a].errs \in SUBSET Stays
      BY <2>1 DEF TypeOK, Step
    <3> QED
      BY <3>1 DEF AuditRun
  <2>5. run' \in [Dates -> AuditRun]
    BY <1>2, <2>1, <2>4 DEF CompleteAuditRun, TypeOK, Step
  <2> QED
    BY <1>2, <2>3, <2>5 DEF CompleteAuditRun, TypeOK
<1>3. CASE Finish(a)
  BY <1>3 DEF Finish, TypeOK
<1>4. CASE FailAuditRun(a)
  <2>1. at[a] \in Step
    BY <1>4, AtWork DEF FailAuditRun
  <2>2. [run[at[a].date] EXCEPT !.status = "failed", !.errs = {}] \in AuditRun
    <3>1. run[at[a].date] \in AuditRun
      BY <2>1 DEF TypeOK, Step
    <3> QED
      BY <3>1 DEF AuditRun
  <2>3. run' \in [Dates -> AuditRun]
    BY <1>4, <2>1, <2>2 DEF FailAuditRun, TypeOK, Step
  <2> QED
    BY <1>4, <2>3, FaultType DEF FailAuditRun, TypeOK
<1>5. CASE Crash(a)
  BY <1>5, FaultType DEF Crash, TypeOK
<1> QED
  BY <1>1, <1>2, <1>3, <1>4, <1>5

LEMMA TypePost ==
    ASSUME TypeOK, NEW a \in Audits,
           ReadInHouse(a) \/ ReadExtras(a)
             \/ (\E r \in Stays : PostAccepted(a, r) \/ LookUpCharge(a, r)) \/ PostLiveRate(a)
    PROVE  TypeOK'
<1>0. at[a] # Idle /\ at[a] \in Step
  BY AtWork DEF ReadInHouse, ReadExtras, Posted, PostAccepted, LookUpCharge, PostLiveRate, Pcs
<1>1. CASE ReadInHouse(a)
  <2> DEFINE found == {r \in Stays : InHouse(r)}
  <2>1. [at[a] EXCEPT !.pc = "post", !.todo = found] \in Step
    BY <1>0 DEF Step, Pcs
  <2>2. at' \in [Audits -> Step \cup {Idle}]
    BY <1>1, <2>1 DEF ReadInHouse, TypeOK
  <2>3. [run[at[a].date] EXCEPT !.seen = found] \in AuditRun
    BY <1>0 DEF TypeOK, Step, AuditRun
  <2>4. run' \in [Dates -> AuditRun]
    BY <1>0, <1>1, <2>3 DEF ReadInHouse, TypeOK, Step
  <2> QED
    BY <1>1, <2>2, <2>4 DEF ReadInHouse, TypeOK
<1>2. CASE ReadExtras(a)
  <2>1. [at[a] EXCEPT !.line = "extra", !.todo = {r \in Extras : InHouse(r)}] \in Step
    BY <1>0, AuditAssumption DEF Step, Lines
  <2> QED
    BY <1>2, <2>1 DEF ReadExtras, TypeOK
<1>3. ASSUME NEW r \in Stays
      PROVE  /\ Row(a, r) \in Lines \X Stays \X Dates
             /\ [charge[Row(a, r)] EXCEPT !.rows = 1] \in Charges
             /\ [charge[Row(a, r)] EXCEPT !.rows = @ + 1] \in Charges
  <2>1. Row(a, r) \in Lines \X Stays \X Dates
    BY <1>0 DEF Row, Step
  <2>2. charge[Row(a, r)] \in Charges
    BY <2>1 DEF TypeOK
  <2> QED
    BY <2>1, <2>2 DEF Charges
<1>4. ASSUME NEW r \in Stays, PostAccepted(a, r)
      PROVE  TypeOK'
  <2>1. at' \in [Audits -> Step \cup {Idle}] /\ faults' \in 0 .. MaxFaults
    BY <1>0, <1>4, DoneType, FaultType, DoneOrFailedType DEF PostAccepted, TypeOK
  <2>2. charge' \in [Lines \X Stays \X Dates -> Charges]
    BY <1>3, <1>4 DEF PostAccepted, TypeOK
  <2> QED
    BY <1>4, <2>1, <2>2 DEF PostAccepted, TypeOK
<1>5. ASSUME NEW r \in Stays, LookUpCharge(a, r)
      PROVE  TypeOK'
  <2>1. CASE at' = [at EXCEPT ![a].on = r]
    <3>1. [at[a] EXCEPT !.on = r] \in Step
      BY <1>0 DEF Step
    <3> QED
      BY <1>5, <2>1, <3>1 DEF LookUpCharge, TypeOK
  <2>2. CASE Done(a, r, TRUE) \/ Done(a, r, FALSE)
    BY <1>0, <1>5, <2>2, DoneType DEF LookUpCharge, TypeOK
  <2> QED
    BY <1>5, <2>1, <2>2 DEF LookUpCharge
<1>6. CASE PostLiveRate(a)
  <2>0. at[a].on \in Stays
    BY <1>0, <1>6 DEF PostLiveRate, Step
  <2>1. at' \in [Audits -> Step \cup {Idle}] /\ faults' \in 0 .. MaxFaults
    BY <1>0, <1>6, <2>0, DoneType, FaultType, DoneOrFailedType DEF PostLiveRate, TypeOK
  <2>2. charge' \in [Lines \X Stays \X Dates -> Charges]
    BY <1>3, <1>6, <2>0 DEF PostLiveRate, TypeOK
  <2> QED
    BY <1>6, <2>1, <2>2 DEF PostLiveRate, TypeOK
<1> QED
  BY <1>1, <1>2, <1>4, <1>5, <1>6

LEMMA UpdateStatusType ==
    ASSUME TypeOK, NEW matching, NEW status \in Statuses, UpdateStatus(matching, status)
    PROVE  stay' \in [Stays -> Reservation]
BY DEF TypeOK, UpdateStatus, Reservation

LEMMA TypeClose ==
    ASSUME TypeOK, NEW a \in Audits,
           ReadNoShows(a) \/ (\E r \in Stays : MarkNoShow(a, r)) \/ AdvanceStayovers(a)
             \/ MarkDueOuts(a) \/ LockChargesForDate(a)
    PROVE  TypeOK'
<1>0. at[a] # Idle /\ at[a] \in Step
  BY AtWork DEF ReadNoShows, Posted, MarkNoShow, AdvanceStayovers, MarkDueOuts, LockChargesForDate, Pcs
<1>1. CASE ReadNoShows(a)
  <2>1. ASSUME NEW todo \in SUBSET Stays
        PROVE  [at[a] EXCEPT !.pc = "noshow", !.todo = todo] \in Step
    BY <1>0 DEF Step, Pcs
  <2>2. PICK cutoffPassed \in BOOLEAN :
           at' = [at EXCEPT ![a].pc = "noshow",
                    ![a].todo = {r \in Stays :
                       /\ stay[r].status = "confirmed"
                       /\ Arrival[r] < at[a].date \/ (Arrival[r] = at[a].date /\ cutoffPassed)}]
    BY <1>1 DEF ReadNoShows
  <2>3. at' \in [Audits -> Step \cup {Idle}]
    BY <2>1, <2>2 DEF TypeOK
  <2> QED
    BY <1>1, <2>3 DEF ReadNoShows, TypeOK
<1>2. ASSUME NEW r \in Stays, MarkNoShow(a, r)
      PROVE  TypeOK'
  <2>1. at' \in [Audits -> Step \cup {Idle}] /\ faults' \in 0 .. MaxFaults
    BY <1>0, <1>2, DoneType, FaultType, DoneOrFailedType DEF MarkNoShow, TypeOK
  <2>2. [stay[r] EXCEPT !.status = "no_show"] \in Reservation
    BY DEF TypeOK, Reservation, Statuses
  <2>3. stay' \in [Stays -> Reservation]
    BY <1>2, <2>2 DEF MarkNoShow, TypeOK
  <2> QED
    BY <1>2, <2>1, <2>3 DEF MarkNoShow, TypeOK
<1>3. ASSUME NEW pc \in Pcs
      PROVE  [at EXCEPT ![a].pc = pc] \in [Audits -> Step \cup {Idle}]
  <2>1. [at[a] EXCEPT !.pc = pc] \in Step
    BY <1>0 DEF Step
  <2> QED
    BY <2>1 DEF TypeOK
<1>4. CASE AdvanceStayovers(a)
  BY <1>3, <1>4, UpdateStatusType DEF AdvanceStayovers, TypeOK, Statuses, Pcs
<1>5. CASE MarkDueOuts(a)
  BY <1>3, <1>5, UpdateStatusType DEF MarkDueOuts, TypeOK, Statuses, Pcs
<1>6. CASE LockChargesForDate(a)
  <2>1. charge' \in [Lines \X Stays \X Dates -> Charges]
    BY <1>6 DEF LockChargesForDate, TypeOK, Charges
  <2> QED
    BY <1>3, <1>6, <2>1 DEF LockChargesForDate, TypeOK, Pcs
<1> QED
  BY <1>1, <1>2, <1>4, <1>5, <1>6

LEMMA TypeDesk ==
    ASSUME TypeOK, Desk
    PROVE  TypeOK'
<1>1. ASSUME NEW r \in Stays, NEW today \in Dates, CheckIn(r, today)
      PROVE  TypeOK'
  <2>1. [stay[r] EXCEPT !.status = "checked_in", !.since = today] \in Reservation
    <3>1. stay[r] \in Reservation /\ today \in Nat
      BY DEF TypeOK, Dates
    <3> QED
      BY <3>1 DEF Reservation, Statuses
  <2> QED
    BY <1>1, <2>1 DEF TypeOK, CheckIn
<1>2. ASSUME NEW r \in Stays, CheckOut(r)
      PROVE  TypeOK'
  <2>1. [stay[r] EXCEPT !.status = "checked_out"] \in Reservation
    BY DEF TypeOK, Reservation, Statuses
  <2> QED
    BY <1>2, <2>1 DEF TypeOK, CheckOut
<1>3. ASSUME NEW r \in Stays, Settle(r)
      PROVE  TypeOK'
  BY <1>3 DEF TypeOK, Settle
<1> QED
  BY <1>1, <1>2, <1>3 DEF Desk

LEMMA TypeNext == TypeOK /\ [Next]_vars => TypeOK'
<1> SUFFICES ASSUME TypeOK, [Next]_vars
             PROVE  TypeOK'
  OBVIOUS
<1>1. CASE UNCHANGED vars
  BY <1>1 DEF TypeOK, vars
<1>2. CASE Desk
  BY <1>2, TypeDesk
<1>3. ASSUME NEW a \in Audits, Audit(a) \/ FailAuditRun(a) \/ Crash(a)
      PROVE  TypeOK'
  BY <1>3, TypeRun, TypePost, TypeClose DEF Audit
<1> QED
  BY <1>1, <1>2, <1>3 DEF Next

\* The state of the audits, the stays and the charges keeps its type, whatever
\* fails (TypeOK).
THEOREM TypeCorrect == Spec => []TypeOK
BY TypeInit, TypeNext, PTL DEF Spec

-----------------------------------------------------------------------------
(* The steps of an audit between its start and its completion *)

\* Nobody who came becomes an arrival again, nobody who left comes back.
StaysGoOn ==
    \A r \in Stays : Came(r) => Came(r)' /\ (InHouse(r)' => InHouse(r))

\* Charges are added for date d only, one at most, and none is unlocked.
ChargesGrow(d) ==
    \A l \in Lines, r \in Stays, e \in Dates :
        /\ charge'[<<l, r, e>>].rows >= charge[<<l, r, e>>].rows
        /\ charge'[<<l, r, e>>].rows <= 1
        /\ e # d => charge'[<<l, r, e>>].rows = charge[<<l, r, e>>].rows
        /\ charge[<<l, r, e>>].locked => charge'[<<l, r, e>>].locked

\* What such a step of audit a does, and does not do, to the other audits and
\* dates; its own parts of the invariant hold again after it.
WorkStep(a) ==
    /\ at[a] # Idle /\ at'[a] # Idle
    /\ at'[a].date = at[a].date
    /\ at[a].pc # "emit" /\ at'[a].pc # "emit"
    /\ \A b \in Audits \ {a} : at'[b] = at[b]
    /\ \A d \in Dates : run'[d].status = run[d].status /\ run'[d].errs = run[d].errs
    /\ \A d \in Dates : d # at[a].date => run'[d].seen = run[d].seen
    /\ \A r \in run'[at[a].date].seen : r \in run[at[a].date].seen \/ Came(r)
    /\ StaysGoOn
    /\ ChargesGrow(at[a].date)
    /\ at'[a].pc # "start"
    /\ LookedUp(a)' /\ LockedByNow(a)' /\ LoopAccounts(a)'

LEMMA SettledStill ==
    ASSUME TypeOK, TypeOK', StaysGoOn, NEW r \in Stays, NEW d \in Dates,
           Came(r), Settled(r, d),
           charge'[<<"room", r, d>>].rows >= charge[<<"room", r, d>>].rows
    PROVE  Settled(r, d)'
<1>1. charge[<<"room", r, d>>] \in Charges /\ charge'[<<"room", r, d>>] \in Charges
  BY DEF TypeOK, Lines
<1>2. charge[<<"room", r, d>>].rows > 0 => charge'[<<"room", r, d>>].rows > 0
  BY <1>1 DEF Charges
<1> QED
  BY <1>2 DEF Settled, StaysGoOn, Priced

LEMMA WorkPreserves ==
    ASSUME IInv, TypeOK', NEW a \in Audits, WorkStep(a)
    PROVE  IInv'
<1> USE DEF WorkStep
<1>0. at[a] \in Step /\ at[a].date \in Dates /\ TypeOK
  BY AtWork DEF IInv, Step
<1>1. RunOfAudit' /\ OneAuditPerDate'
  <2>1. ASSUME NEW b \in Audits, at'[b] # Idle
        PROVE  at[b] # Idle /\ at'[b].date = at[b].date /\ at[b].date \in Dates
               /\ (at'[b].pc = "emit" <=> at[b].pc = "emit")
    <3>1. at[b] # Idle
      BY <2>1
    <3>2. at[b] \in Step
      BY <3>1, <1>0, AtWork
    <3> QED
      BY <2>1, <3>1, <3>2 DEF Step
  <2> QED
    BY <2>1 DEF IInv, RunOfAudit, OneAuditPerDate
<1>2. SeenCame'
  BY <1>0 DEF IInv, SeenCame, StaysGoOn, TypeOK, AuditRun
<1>3. ASSUME NEW b \in Audits, b # a
      PROVE  StartsWithRoom(b)' /\ LookedUp(b)' /\ LockedByNow(b)' /\ LoopAccounts(b)'
  <2>1. CASE at[b] = Idle
    BY <1>3, <2>1 DEF StartsWithRoom, LookedUp, LockedByNow, LoopAccounts, Idle
  <2>2. CASE at[b] # Idle
    <3>1. at[b] \in Step
      BY <1>0, <2>2, AtWork
    <3>2. PICK d \in Dates : d = at[b].date
      BY <3>1 DEF Step
    <3>3. at'[b] = at[b] /\ d # at[a].date
      BY <1>3, <2>2, <3>2 DEF IInv, OneAuditPerDate
    <3>4. LookedUp(b)'
      BY <3>1, <3>2, <3>3 DEF IInv, LookedUp, Row, ChargesGrow, Step
    <3>5. LockedByNow(b)'
      BY <3>1, <3>2, <3>3 DEF IInv, LockedByNow, Locked, ChargesGrow
    <3>6. LoopAccounts(b)'
      <4>1. ASSUME NEW r \in run[d].seen, Settled(r, d)
            PROVE  Settled(r, d)'
        <5>1. r \in Stays /\ Came(r)
          BY DEF IInv, SeenCame, TypeOK, AuditRun
        <5>2. charge'[<<"room", r, d>>].rows >= charge[<<"room", r, d>>].rows
          BY <5>1 DEF ChargesGrow, Lines
        <5> QED
          BY <1>0, <4>1, <5>1, <5>2, SettledStill
      <4>2. run'[d].seen = run[d].seen
        BY <3>3
      <4> QED
        BY <3>2, <3>3, <4>1, <4>2 DEF IInv, LoopAccounts, Settled
    <3> QED
      BY <3>3, <3>4, <3>5, <3>6 DEF IInv, StartsWithRoom
  <2> QED
    BY <2>1, <2>2
<1>4. NightChargedOnce'
  <2>1. ASSUME NEW x \in Lines \X Stays \X Dates
        PROVE  charge'[x].rows <= 1
    <3>1. PICK l \in Lines, r \in Stays, e \in Dates : x = <<l, r, e>>
      OBVIOUS
    <3> QED
      BY <3>1 DEF ChargesGrow
  <2> QED
    BY <2>1 DEF NightChargedOnce, TypeOK
<1>5. ASSUME NEW d \in Dates, run'[d].status = "completed"
      PROVE  d # at[a].date /\ run[d].status = "completed"
  BY <1>5 DEF IInv, RunOfAudit
<1>6. ClosedNightLocked'
  <2>1. ASSUME NEW d \in Dates, run'[d].status = "completed", NEW l \in Lines, NEW r \in Stays,
               charge'[<<l, r, d>>].rows > 0
        PROVE  charge'[<<l, r, d>>].locked
    BY <1>5, <2>1 DEF IInv, ClosedNightLocked, ChargesGrow
  <2> QED
    BY <2>1 DEF ClosedNightLocked
<1>7. NothingForgotten'
  <2>1. ASSUME NEW d \in Dates, run'[d].status = "completed", NEW r \in run'[d].seen
        PROVE  r \in run'[d].errs \/ Settled(r, d)'
    <3>1. r \in run[d].seen /\ r \in Stays /\ Came(r)
      BY <1>5, <2>1 DEF IInv, SeenCame, TypeOK, AuditRun
    <3>2. r \in run[d].errs \/ Settled(r, d)
      BY <1>5, <2>1, <3>1 DEF IInv, NothingForgotten, Settled
    <3>3. charge'[<<"room", r, d>>].rows >= charge[<<"room", r, d>>].rows
      BY <3>1 DEF ChargesGrow, Lines
    <3>4. run'[d].errs = run[d].errs
      OBVIOUS
    <3> QED
      BY <1>0, <3>1, <3>2, <3>3, <3>4, SettledStill
  <2> QED
    BY <2>1 DEF NothingForgotten, Settled
<1> QED
  BY <1>1, <1>2, <1>3, <1>4, <1>6, <1>7 DEF IInv, StartsWithRoom

LEMMA SameCharges ==
    ASSUME IInv, UNCHANGED charge, NEW d
    PROVE  ChargesGrow(d)
<1>1. ASSUME NEW l \in Lines, NEW r \in Stays, NEW e \in Dates
      PROVE  charge[<<l, r, e>>].rows \in Nat /\ charge[<<l, r, e>>].rows <= 1
  BY DEF IInv, TypeOK, Charges, NightChargedOnce
<1>2. charge' = charge
  OBVIOUS
<1>3. \A n \in Nat : n >= n
  OBVIOUS
<1> QED
  BY <1>1, <1>2, <1>3, Zenon DEF ChargesGrow

LEMMA SameStays ==
    ASSUME UNCHANGED stay
    PROVE  StaysGoOn
BY DEF StaysGoOn, Came, InHouse

\* A charge is added to a row that has none, or was there.
LEMMA OneCharge ==
    ASSUME IInv, NEW a \in Audits, at[a] # Idle, NEW s \in Stays,
           charge' = [charge EXCEPT ![Row(a, s)].rows = 1]
    PROVE  /\ ChargesGrow(at[a].date)
           /\ charge'[Row(a, s)].rows = 1
<1>1. at[a].line \in Lines /\ at[a].date \in Dates
  BY AtWork DEF IInv, Step
<1>2. ASSUME NEW l \in Lines, NEW r \in Stays, NEW e \in Dates
      PROVE  charge[<<l, r, e>>] \in Charges /\ charge[<<l, r, e>>].rows <= 1
  BY DEF IInv, TypeOK, NightChargedOnce
<1>3. ASSUME NEW l \in Lines, NEW r \in Stays, NEW e \in Dates, <<l, r, e>> # Row(a, s)
      PROVE  charge'[<<l, r, e>>] = charge[<<l, r, e>>]
  BY <1>3 DEF IInv, TypeOK
<1>4. /\ charge'[Row(a, s)].rows = 1
      /\ charge'[Row(a, s)].locked = charge[Row(a, s)].locked
  <2>1. charge[Row(a, s)] \in Charges /\ Row(a, s) \in DOMAIN charge
    BY <1>1, <1>2 DEF Row, IInv, TypeOK
  <2> QED
    BY <2>1 DEF Charges
<1>5. ASSUME NEW l \in Lines, NEW r \in Stays, NEW e \in Dates
      PROVE  /\ charge'[<<l, r, e>>].rows >= charge[<<l, r, e>>].rows
             /\ charge'[<<l, r, e>>].rows <= 1
             /\ e # at[a].date => charge'[<<l, r, e>>].rows = charge[<<l, r, e>>].rows
             /\ charge[<<l, r, e>>].locked => charge'[<<l, r, e>>].locked
  <2>1. CASE <<l, r, e>> = Row(a, s)
    BY <1>2, <1>4, <2>1 DEF Row, Charges
  <2>2. CASE <<l, r, e>> # Row(a, s)
    BY <1>2, <1>3, <2>2 DEF Charges
  <2> QED
    BY <2>1, <2>2
<1> QED
  BY <1>4, <1>5 DEF ChargesGrow

LEMMA DoneEffect ==
    ASSUME TypeOK, NEW a \in Audits, at[a] # Idle, NEW r \in Stays,
           NEW failed \in BOOLEAN, Done(a, r, failed)
    PROVE  /\ at'[a] # Idle
           /\ at'[a].pc = at[a].pc /\ at'[a].date = at[a].date /\ at'[a].line = at[a].line
           /\ at'[a].todo = at[a].todo \ {r}
           /\ at'[a].on = None
           /\ at[a].errs \subseteq at'[a].errs /\ (failed => r \in at'[a].errs)
           /\ \A b \in Audits \ {a} : at'[b] = at[b]
<1>1. at[a] \in Step /\ a \in DOMAIN at
  BY AtWork DEF TypeOK
<1>2. at' = [at EXCEPT ![a] = [at[a] EXCEPT !.todo = @ \ {r}, !.on = None,
                                 !.errs = IF failed THEN @ \cup {r} ELSE @]]
  BY DEF Done
<1>3. /\ at'[a].pc = at[a].pc /\ at'[a].date = at[a].date /\ at'[a].line = at[a].line
      /\ at'[a].todo = at[a].todo \ {r}
      /\ at'[a].on = None
      /\ at[a].errs \subseteq at'[a].errs /\ (failed => r \in at'[a].errs)
      /\ \A b \in Audits \ {a} : at'[b] = at[b]
  BY <1>1, <1>2 DEF Step, TypeOK
<1>4. at'[a] # Idle
  BY <1>1, <1>3 DEF Idle, Step, Pcs
<1> QED
  BY <1>3, <1>4

\* An audit that is done with stay r of the tariff loop, having charged it,
\* named it an error or left it out with a reason.
LEMMA DoneIsWork ==
    ASSUME IInv, TypeOK', NEW a \in Audits, at[a] # Idle, NEW r \in Stays, NEW failed \in BOOLEAN,
           at[a].pc \in {"post", "noshow"}, Done(a, r, failed),
           UNCHANGED run, StaysGoOn, ChargesGrow(at[a].date),
           at[a].pc = "post" /\ at[a].line = "room" =>
             failed \/ charge'[Row(a, r)].rows > 0 \/ (r \in Accepted /\ ~Due(a, r))
    PROVE  WorkStep(a)
<1>0. TypeOK
  BY DEF IInv
<1>1. /\ at'[a] # Idle
      /\ at'[a].pc = at[a].pc /\ at'[a].date = at[a].date /\ at'[a].line = at[a].line
      /\ at'[a].todo = at[a].todo \ {r}
      /\ at'[a].on = None
      /\ at[a].errs \subseteq at'[a].errs /\ (failed => r \in at'[a].errs)
      /\ \A b \in Audits \ {a} : at'[b] = at[b]
  BY <1>0, DoneEffect
<1>2. LookedUp(a)' /\ LockedByNow(a)'
  BY <1>1 DEF LookedUp, LockedByNow
<1>3. LoopAccounts(a)'
  <2>1. PICK d \in Dates : d = at[a].date
    BY <1>0, AtWork DEF Step
  <2>2. ASSUME NEW s \in run[d].seen
        PROVE  \/ at'[a].pc = "post" /\ at'[a].line = "room" /\ s \in at'[a].todo
               \/ s \in at'[a].errs
               \/ Settled(s, d)'
    <3>1. s \in Stays /\ Came(s)
      BY DEF IInv, TypeOK, AuditRun, SeenCame
    <3>2. Settled(s, d) => Settled(s, d)'
      <4>1. charge'[<<"room", s, d>>].rows >= charge[<<"room", s, d>>].rows
        BY <3>1 DEF ChargesGrow, Lines
      <4> QED
        BY <1>0, <3>1, <4>1, SettledStill
    <3>3. \/ at[a].pc = "post" /\ at[a].line = "room" /\ s \in at[a].todo
          \/ s \in at[a].errs
          \/ Settled(s, d)
      BY <2>1 DEF IInv, LoopAccounts
    <3>4. CASE at[a].pc = "post" /\ at[a].line = "room" /\ s = r
      <4>1. CASE failed
        BY <1>1, <3>4, <4>1
      <4>2. CASE charge'[Row(a, r)].rows > 0
        BY <2>1, <3>4, <4>2 DEF Settled, Row
      <4>3. CASE r \in Accepted /\ ~Due(a, r)
        BY <2>1, <3>1, <3>2, <3>4, <4>3 DEF Settled, Due
      <4> QED
        BY <3>4, <4>1, <4>2, <4>3
    <3> QED
      BY <1>1, <3>2, <3>3, <3>4
  <2> QED
    BY <1>1, <2>1, <2>2 DEF LoopAccounts, Settled
<1> QED
  BY <1>1, <1>2, <1>3 DEF WorkStep

\* An audit that goes on to its next statement, no stay of the tariff loop left.
LEMMA MoveIsWork ==
    ASSUME IInv, TypeOK', NEW a \in Audits, at[a] # Idle,
           at[a].pc \in {"post", "noshow", "dueout", "lock"},
           at[a].pc \in {"post", "noshow"} => at[a].todo = {},
           NEW pc \in Pcs \ {"start", "emit"}, NEW line \in Lines, NEW todo \in SUBSET Stays,
           at' = [at EXCEPT ![a] = [@ EXCEPT !.pc = pc, !.line = line, !.todo = todo]],
           UNCHANGED run, StaysGoOn, ChargesGrow(at[a].date),
           pc = "complete" => Locked(at[a].date)'
    PROVE  WorkStep(a)
<1>0. TypeOK /\ at[a] \in Step
  BY AtWork DEF IInv
<1>1. /\ at'[a].pc = pc /\ at'[a].date = at[a].date /\ at'[a].on = at[a].on
      /\ at'[a].errs = at[a].errs
      /\ \A b \in Audits \ {a} : at'[b] = at[b]
  BY <1>0 DEF Step, TypeOK
<1>2. at'[a] # Idle
  <2>1. pc # "idle"
    BY DEF Pcs
  <2>2. Idle.pc = "idle"
    BY DEF Idle
  <2> QED
    BY <1>1, <2>1, <2>2
<1>3. LookedUp(a)'
  <2>1. at[a].on = None
    BY DEF IInv, LookedUp
  <2> QED
    BY <1>1, <2>1 DEF LookedUp
<1>4. PICK d \in Dates : d = at[a].date
  BY <1>0 DEF Step
<1>5. LockedByNow(a)'
  BY <1>1 DEF LockedByNow, Locked
<1>6. LoopAccounts(a)'
  <2>1. ASSUME NEW s \in run[d].seen
        PROVE  s \in at'[a].errs \/ Settled(s, d)'
    <3>1. s \in Stays /\ Came(s)
      BY DEF IInv, TypeOK, AuditRun, SeenCame
    <3>2. s \in at[a].errs \/ Settled(s, d)
      BY <1>4 DEF IInv, LoopAccounts
    <3>3. charge'[<<"room", s, d>>].rows >= charge[<<"room", s, d>>].rows
      BY <3>1 DEF ChargesGrow, Lines
    <3> QED
      BY <1>0, <1>1, <3>1, <3>2, <3>3, SettledStill
  <2> QED
    BY <1>1, <1>4, <2>1 DEF LoopAccounts, Settled
<1> QED
  BY <1>1, <1>2, <1>3, <1>5, <1>6 DEF WorkStep

LEMMA ReadInHouseWorks ==
    ASSUME IInv, TypeOK', NEW a \in Audits, ReadInHouse(a)
    PROVE  WorkStep(a)
<1> DEFINE found == {r \in Stays : InHouse(r)}
<1>0. TypeOK /\ at[a] # Idle /\ at[a] \in Step
  BY AtWork DEF IInv, ReadInHouse, Pcs
<1>1. at' = [at EXCEPT ![a] = [at[a] EXCEPT !.pc = "post", !.todo = found]]
  BY DEF ReadInHouse
<1>2. /\ at'[a].pc = "post" /\ at'[a].date = at[a].date /\ at'[a].line = at[a].line
      /\ at'[a].todo = found /\ at'[a].on = at[a].on
      /\ \A b \in Audits \ {a} : at'[b] = at[b]
  BY <1>0, <1>1 DEF Step, TypeOK
<1>3. at'[a] # Idle
  BY <1>2 DEF Idle
<1>4. /\ run'[at[a].date].seen = found
      /\ \A d \in Dates : /\ run'[d].status = run[d].status /\ run'[d].errs = run[d].errs
                          /\ d # at[a].date => run'[d].seen = run[d].seen
  <2>1. run' = [run EXCEPT ![at[a].date] = [run[at[a].date] EXCEPT !.seen = found]]
    BY DEF ReadInHouse
  <2>2. /\ at[a].date \in Dates
        /\ run \in [Dates -> AuditRun]
        /\ run[at[a].date] \in AuditRun
    BY <1>0 DEF TypeOK, Step
  <2> HIDE DEF found
  <2> QED
    BY <2>1, <2>2 DEF AuditRun
<1>5. LookedUp(a)' /\ LockedByNow(a)'
  <2>1. at[a].on = None
    BY <1>0 DEF IInv, LookedUp, ReadInHouse
  <2> QED
    BY <1>2, <2>1 DEF LookedUp, LockedByNow
<1>6. at[a].line = "room"
  BY DEF IInv, StartsWithRoom, ReadInHouse
<1>7. LoopAccounts(a)'
  BY <1>2, <1>4, <1>6 DEF LoopAccounts
<1>8. StaysGoOn /\ ChargesGrow(at[a].date)
  BY SameStays, SameCharges DEF ReadInHouse
<1> QED
  BY <1>0, <1>2, <1>3, <1>4, <1>5, <1>7, <1>8 DEF WorkStep, ReadInHouse, Came

LEMMA PostAcceptedWorks ==
    ASSUME IInv, TypeOK', NEW a \in Audits, NEW r \in Stays, PostAccepted(a, r)
    PROVE  WorkStep(a)
<1>0. /\ TypeOK /\ at[a] # Idle /\ at[a] \in Step
      /\ at[a].pc = "post" /\ r \in Accepted
      /\ UNCHANGED run /\ StaysGoOn
  BY AtWork, SameStays DEF IInv, PostAccepted, Pcs
<1>1. CASE ~Due(a, r) /\ Done(a, r, FALSE) /\ UNCHANGED charge
  BY <1>0, <1>1, SameCharges, DoneIsWork
<1>2. CASE Done(a, r, TRUE) /\ UNCHANGED charge
  BY <1>0, <1>2, SameCharges, DoneIsWork
<1>3. CASE DoneOrFailed(a, r) /\ charge' = [charge EXCEPT ![Row(a, r)].rows = 1]
  <2>1. ChargesGrow(at[a].date) /\ charge'[Row(a, r)].rows = 1
    BY <1>0, <1>3, OneCharge
  <2>2. charge'[Row(a, r)].rows > 0
    BY <2>1
  <2>3. \E failed \in BOOLEAN : Done(a, r, failed)
    BY <1>3 DEF DoneOrFailed
  <2> QED
    BY <1>0, <2>1, <2>2, <2>3, DoneIsWork
<1> QED
  BY <1>1, <1>2, <1>3 DEF PostAccepted

LEMMA LookUpChargeWorks ==
    ASSUME IInv, TypeOK', NEW a \in Audits, NEW r \in Stays, LookUpCharge(a, r)
    PROVE  WorkStep(a)
<1>0. /\ TypeOK /\ at[a] # Idle /\ at[a] \in Step
      /\ at[a].pc = "post" /\ r \in at[a].todo \ Accepted
      /\ UNCHANGED run /\ UNCHANGED stay /\ UNCHANGED charge
      /\ StaysGoOn /\ ChargesGrow(at[a].date)
  BY AtWork, SameStays, SameCharges DEF IInv, LookUpCharge, Pcs
<1>1. CASE Done(a, r, TRUE)
  BY <1>0, <1>1, DoneIsWork
<1>2. CASE Done(a, r, FALSE) /\ charge[Row(a, r)].rows > 0
  <2>1. charge'[Row(a, r)].rows > 0
    BY <1>0, <1>2
  <2> QED
    BY <1>0, <1>2, <2>1, DoneIsWork
<1>3. CASE at' = [at EXCEPT ![a].on = r] /\ charge[Row(a, r)].rows = 0
  <2>1. /\ at'[a].pc = "post" /\ at'[a].date = at[a].date /\ at'[a].line = at[a].line
        /\ at'[a].todo = at[a].todo /\ at'[a].on = r /\ at'[a].errs = at[a].errs
        /\ \A b \in Audits \ {a} : at'[b] = at[b]
    BY <1>0, <1>3 DEF Step, TypeOK
  <2>2. at'[a] # Idle
    BY <2>1 DEF Idle
  <2>3. LookedUp(a)' /\ LockedByNow(a)'
    BY <1>0, <1>3, <2>1 DEF LookedUp, LockedByNow, Row
  <2>4. LoopAccounts(a)'
    BY <1>0, <2>1 DEF IInv, LoopAccounts, Settled, InHouse, Priced
  <2> QED
    BY <1>0, <2>1, <2>2, <2>3, <2>4 DEF WorkStep
<1> QED
  BY <1>1, <1>2, <1>3 DEF LookUpCharge

LEMMA PostLiveRateWorks ==
    ASSUME IInv, TypeOK', NEW a \in Audits, PostLiveRate(a)
    PROVE  WorkStep(a)
<1>0. /\ TypeOK /\ at[a] # Idle /\ at[a] \in Step
      /\ at[a].pc = "post" /\ at[a].on # None
      /\ UNCHANGED run /\ StaysGoOn
  BY AtWork, SameStays DEF IInv, PostLiveRate, Pcs
<1>1. PICK r \in Stays : r = at[a].on
  BY <1>0 DEF Step
<1>2. CASE Done(a, r, TRUE) /\ UNCHANGED charge
  BY <1>0, <1>2, SameCharges, DoneIsWork
<1>3. CASE DoneOrFailed(a, r) /\ charge' = [charge EXCEPT ![Row(a, r)].rows = @ + 1]
  <2>1. charge[Row(a, r)].rows = 0
    BY <1>0, <1>1 DEF IInv, LookedUp
  <2>2. charge' = [charge EXCEPT ![Row(a, r)].rows = 1]
    BY <1>3, <2>1
  <2>3. ChargesGrow(at[a].date) /\ charge'[Row(a, r)].rows = 1
    BY <1>0, <2>2, OneCharge
  <2>4. charge'[Row(a, r)].rows > 0
    BY <2>3
  <2>5. \E failed \in BOOLEAN : Done(a, r, failed)
    BY <1>3 DEF DoneOrFailed
  <2> QED
    BY <1>0, <2>3, <2>4, <2>5, DoneIsWork
<1> QED
  BY <1>1, <1>2, <1>3 DEF PostLiveRate

LEMMA MarkNoShowWorks ==
    ASSUME IInv, TypeOK', NEW a \in Audits, NEW r \in Stays, MarkNoShow(a, r)
    PROVE  WorkStep(a)
<1>0. /\ TypeOK /\ at[a] # Idle /\ at[a].pc = "noshow"
      /\ UNCHANGED run /\ ChargesGrow(at[a].date)
  BY AtWork, SameCharges DEF IInv, MarkNoShow, Pcs
<1>1. StaysGoOn
  <2>1. CASE UNCHANGED stay
    BY <2>1, SameStays
  <2>2. CASE stay[r].status = "confirmed" /\ stay' = [stay EXCEPT ![r].status = "no_show"]
    <3>1. ~Came(r)
      BY <2>2 DEF Came, InHouse
    <3>2. \A s \in Stays \ {r} : stay'[s] = stay[s]
      BY <1>0, <2>2 DEF TypeOK
    <3> QED
      BY <3>1, <3>2 DEF StaysGoOn, Came, InHouse
  <2> QED
    BY <2>1, <2>2 DEF MarkNoShow
<1>2. \E failed \in BOOLEAN : Done(a, r, failed)
  BY DEF MarkNoShow, DoneOrFailed
<1> QED
  BY <1>0, <1>1, <1>2, DoneIsWork

LEMMA AdvanceIsGoingOn ==
    ASSUME TypeOK, NEW matching, NEW status \in {"stayover", "due_out"},
           \A r \in matching : InHouse(r), UpdateStatus(matching, status)
    PROVE  StaysGoOn
<1>1. ASSUME NEW r \in Stays, Came(r)
      PROVE  Came(r)' /\ (InHouse(r)' => InHouse(r))
  <2>1. CASE r \in matching
    <3>1. stay'[r].status = status
      BY <2>1 DEF UpdateStatus, TypeOK, Reservation
    <3> QED
      BY <2>1, <3>1 DEF Came, InHouse
  <2>2. CASE r \notin matching
    BY <1>1, <2>2 DEF UpdateStatus, Came, InHouse
  <2> QED
    BY <2>1, <2>2
<1> QED
  BY <1>1 DEF StaysGoOn

LEMMA MovesWork ==
    ASSUME IInv, TypeOK', NEW a \in Audits,
           ReadExtras(a) \/ ReadNoShows(a) \/ AdvanceStayovers(a) \/ MarkDueOuts(a)
             \/ LockChargesForDate(a)
    PROVE  WorkStep(a)
<1>0. /\ TypeOK /\ at[a] # Idle /\ at[a] \in Step
      /\ UNCHANGED run
      /\ at[a].pc \in {"post", "noshow", "dueout", "lock"}
      /\ at[a].pc \in {"post", "noshow"} => at[a].todo = {}
  BY AtWork DEF IInv, ReadExtras, ReadNoShows, Posted, AdvanceStayovers, MarkDueOuts,
                LockChargesForDate, Pcs
<1>a. /\ {"post", "noshow", "dueout", "lock", "complete"} \subseteq Pcs \ {"start", "emit"}
      /\ "complete" \notin {"post", "noshow", "dueout", "lock"}
  BY DEF Pcs
<1>1. PICK line \in Lines, todo \in SUBSET Stays : line = at[a].line /\ todo = at[a].todo
  BY <1>0 DEF Step
<1>2. ASSUME NEW pc
      PROVE  [at[a] EXCEPT !.pc = pc] = [at[a] EXCEPT !.pc = pc, !.line = line, !.todo = todo]
  BY <1>0, <1>1 DEF Step
<1>3. CASE ReadExtras(a)
  <2>1. PICK extras \in SUBSET Stays : extras = {r \in Extras : InHouse(r)}
    BY AuditAssumption
  <2>2. at' = [at EXCEPT ![a] = [at[a] EXCEPT !.line = "extra", !.todo = extras]]
    BY <1>3, <2>1 DEF ReadExtras
  <2>3. [at[a] EXCEPT !.line = "extra", !.todo = extras]
          = [at[a] EXCEPT !.pc = "post", !.line = "extra", !.todo = extras]
    BY <1>0, <1>3 DEF ReadExtras, Posted, Step
  <2>4. at' = [at EXCEPT ![a] = [@ EXCEPT !.pc = "post", !.line = "extra", !.todo = extras]]
    BY <2>2, <2>3
  <2>5. StaysGoOn /\ ChargesGrow(at[a].date)
    BY <1>3, SameStays, SameCharges DEF ReadExtras
  <2> QED
    BY <1>0, <1>a, <2>4, <2>5, MoveIsWork DEF Lines
<1>4. CASE ReadNoShows(a)
  <2>1. PICK cutoffPassed \in BOOLEAN :
           at' = [at EXCEPT ![a].pc = "noshow",
                    ![a].todo = {r \in Stays :
                       /\ stay[r].status = "confirmed"
                       /\ Arrival[r] < at[a].date \/ (Arrival[r] = at[a].date /\ cutoffPassed)}]
    BY <1>4 DEF ReadNoShows
  <2>2. PICK absent \in SUBSET Stays : absent = {r \in Stays :
                       /\ stay[r].status = "confirmed"
                       /\ Arrival[r] < at[a].date \/ (Arrival[r] = at[a].date /\ cutoffPassed)}
    OBVIOUS
  <2>3. at' = [at EXCEPT ![a] = [at[a] EXCEPT !.pc = "noshow", !.todo = absent]]
    BY <2>1, <2>2
  <2>4. [at[a] EXCEPT !.pc = "noshow", !.todo = absent]
          = [at[a] EXCEPT !.pc = "noshow", !.line = line, !.todo = absent]
    BY <1>0, <1>1 DEF Step
  <2>5. at' = [at EXCEPT ![a] = [@ EXCEPT !.pc = "noshow", !.line = line, !.todo = absent]]
    BY <2>3, <2>4
  <2>6. StaysGoOn /\ ChargesGrow(at[a].date)
    BY <1>4, SameStays, SameCharges DEF ReadNoShows
  <2> QED
    BY <1>0, <1>a, <2>5, <2>6, MoveIsWork
<1>5. CASE AdvanceStayovers(a)
  <2>1. at' = [at EXCEPT ![a] = [@ EXCEPT !.pc = "dueout", !.line = line, !.todo = todo]]
    BY <1>2, <1>5 DEF AdvanceStayovers
  <2>2. StaysGoOn
    BY <1>0, <1>5, AdvanceIsGoingOn DEF AdvanceStayovers, InHouse
  <2>3. ChargesGrow(at[a].date)
    BY <1>5, SameCharges DEF AdvanceStayovers
  <2> QED
    BY <1>0, <1>a, <2>1, <2>2, <2>3, MoveIsWork
<1>6. CASE MarkDueOuts(a)
  <2>1. at' = [at EXCEPT ![a] = [@ EXCEPT !.pc = "lock", !.line = line, !.todo = todo]]
    BY <1>2, <1>6 DEF MarkDueOuts
  <2>2. StaysGoOn
    BY <1>0, <1>6, AdvanceIsGoingOn DEF MarkDueOuts, InHouse
  <2>3. ChargesGrow(at[a].date)
    BY <1>6, SameCharges DEF MarkDueOuts
  <2> QED
    BY <1>0, <1>a, <2>1, <2>2, <2>3, MoveIsWork
<1>7. CASE LockChargesForDate(a)
  <2>1. at' = [at EXCEPT ![a] = [@ EXCEPT !.pc = "complete", !.line = line, !.todo = todo]]
    BY <1>2, <1>7 DEF LockChargesForDate
  <2>2. StaysGoOn
    BY <1>7, SameStays DEF LockChargesForDate
  <2>3. ASSUME NEW l \in Lines, NEW r \in Stays, NEW d \in Dates
        PROVE  /\ charge[<<l, r, d>>].rows \in Nat /\ charge[<<l, r, d>>].rows <= 1
               /\ charge'[<<l, r, d>>].rows = charge[<<l, r, d>>].rows
               /\ charge[<<l, r, d>>].locked => charge'[<<l, r, d>>].locked
               /\ d <= at[a].date /\ charge[<<l, r, d>>].rows > 0 => charge'[<<l, r, d>>].locked
    <3>1. charge[<<l, r, d>>] \in Charges /\ <<l, r, d>> \in DOMAIN charge
      BY <1>0 DEF TypeOK
    <3>2. charge'[<<l, r, d>>] = [charge[<<l, r, d>>] EXCEPT
             !.locked = charge[<<l, r, d>>].locked
                          \/ (<<l, r, d>>[3] <= at[a].date /\ charge[<<l, r, d>>].rows > 0)]
      BY <1>7, <3>1 DEF LockChargesForDate
    <3>3. charge[<<l, r, d>>].rows <= 1
      BY <3>1 DEF IInv, NightChargedOnce
    <3> QED
      BY <3>1, <3>2, <3>3 DEF Charges
  <2>4. ChargesGrow(at[a].date)
    <3>1. \A n \in Nat : n >= n
      OBVIOUS
    <3> QED
      BY <2>3, <3>1, Zenon DEF ChargesGrow
  <2>5. Locked(at[a].date)'
    <3>1. PICK d \in Dates : d = at[a].date
      BY <1>0 DEF Step
    <3>2. d <= at[a].date /\ at'[a].date = d
      BY <1>0, <2>1, <3>1 DEF Dates, TypeOK, Step
    <3> QED
      BY <2>3, <3>1, <3>2 DEF Locked
  <2> QED
    BY <1>0, <1>a, <2>1, <2>2, <2>4, <2>5, MoveIsWork
<1> QED
  BY <1>3, <1>4, <1>5, <1>6, <1>7

-----------------------------------------------------------------------------
(* The start and the end of an audit, and the desk *)

\* The row is new, so no audit at work has the date, and none had it before.
LEMMA StartPreserves ==
    ASSUME IInv, TypeOK', NEW a \in Audits, NEW d \in Dates, CreateOrGetAuditRun(a, d)
    PROVE  IInv'
<1>0. TypeOK
  BY DEF IInv
<1>1. /\ at'[a] = [pc |-> "start", date |-> d, line |-> "room", todo |-> {}, on |-> None, errs |-> {}]
      /\ \A b \in Audits \ {a} : at'[b] = at[b]
      /\ UNCHANGED <<stay, charge>>
  BY <1>0 DEF CreateOrGetAuditRun, TypeOK
<1>2. /\ run'[d].status = "running"
      /\ \A e \in Dates : /\ run'[e].seen = run[e].seen
                          /\ e # d => run'[e] = run[e]
  <2>1. run' = [run EXCEPT ![d] = [run[d] EXCEPT !.status = "running"]]
    BY DEF CreateOrGetAuditRun
  <2>2. run \in [Dates -> AuditRun] /\ run[d] \in AuditRun
    BY <1>0 DEF TypeOK
  <2> QED
    BY <2>1, <2>2 DEF AuditRun
<1>3. ASSUME NEW b \in Audits \ {a}, at[b] # Idle
      PROVE  at[b].date # d /\ at[b].date \in Dates
  <2>1. at[b] \in Step
    BY <1>0, <1>3, AtWork
  <2>2. run[at[b].date].status # "none"
    BY <1>3 DEF IInv, RunOfAudit
  <2> QED
    BY <2>1, <2>2 DEF CreateOrGetAuditRun, Step
<1>4. RunOfAudit'
  BY <1>1, <1>2, <1>3 DEF IInv, RunOfAudit
<1>5. OneAuditPerDate'
  BY <1>1, <1>3 DEF IInv, OneAuditPerDate
<1>6. SeenCame'
  BY <1>1, <1>2 DEF IInv, SeenCame, Came, InHouse
<1>7. ASSUME NEW b \in Audits
      PROVE  StartsWithRoom(b)' /\ LookedUp(b)' /\ LockedByNow(b)' /\ LoopAccounts(b)'
  <2>1. CASE b = a
    BY <1>1, <2>1 DEF StartsWithRoom, LookedUp, LockedByNow, LoopAccounts
  <2>2. CASE b # a
    <3>1. at'[b] = at[b]
      BY <1>1, <2>2
    <3>2. StartsWithRoom(b)' /\ LookedUp(b)' /\ LockedByNow(b)'
      BY <1>1, <3>1 DEF IInv, StartsWithRoom, LookedUp, LockedByNow, Locked, Row
    <3>3. LoopAccounts(b)'
      BY <1>1, <1>2, <1>3, <2>2, <3>1 DEF IInv, LoopAccounts, Settled, InHouse, Priced
    <3> QED
      BY <3>2, <3>3
  <2> QED
    BY <2>1, <2>2
<1>8. NightChargedOnce'
  BY <1>1 DEF IInv, NightChargedOnce
<1>9. ClosedNightLocked' /\ NothingForgotten'
  BY <1>1, <1>2 DEF IInv, ClosedNightLocked, NothingForgotten, InHouse, Priced
<1> QED
  BY <1>4, <1>5, <1>6, <1>7, <1>8, <1>9 DEF IInv

LEMMA CompletePreserves ==
    ASSUME IInv, TypeOK', NEW a \in Audits, CompleteAuditRun(a)
    PROVE  IInv'
<1>0. TypeOK /\ at[a] # Idle /\ at[a] \in Step
  BY AtWork DEF IInv, CompleteAuditRun, Pcs
<1>1. PICK d \in Dates : d = at[a].date
  BY <1>0 DEF Step
<1>2. /\ at'[a] # Idle /\ at'[a].pc = "emit" /\ at'[a].date = d
      /\ at'[a].on = at[a].on /\ at'[a].errs = at[a].errs
      /\ \A b \in Audits \ {a} : at'[b] = at[b]
      /\ UNCHANGED <<stay, charge>>
  <2>1. /\ at'[a].pc = "emit" /\ at'[a].date = d
        /\ at'[a].on = at[a].on /\ at'[a].errs = at[a].errs
        /\ \A b \in Audits \ {a} : at'[b] = at[b]
        /\ UNCHANGED <<stay, charge>>
    BY <1>0, <1>1 DEF CompleteAuditRun, TypeOK, Step
  <2> QED
    BY <2>1 DEF Idle
<1>3. /\ run'[d].status = "completed" /\ run'[d].errs = at[a].errs
      /\ \A e \in Dates : /\ run'[e].seen = run[e].seen
                          /\ e # d => run'[e] = run[e]
  <2>1. run' = [run EXCEPT ![d] = [run[d] EXCEPT !.status = "completed", !.errs = at[a].errs]]
    BY <1>1 DEF CompleteAuditRun
  <2>2. run \in [Dates -> AuditRun] /\ run[d] \in AuditRun
    BY <1>0 DEF TypeOK
  <2> QED
    BY <2>1, <2>2 DEF AuditRun
<1>4. ASSUME NEW b \in Audits \ {a}, at[b] # Idle
      PROVE  at[b].date # d /\ at[b].date \in Dates
  <2>1. at[b] \in Step
    BY <1>0, <1>4, AtWork
  <2> QED
    BY <1>0, <1>1, <1>4, <2>1 DEF IInv, OneAuditPerDate, Step
<1>5. RunOfAudit'
  BY <1>2, <1>3, <1>4 DEF IInv, RunOfAudit
<1>6. OneAuditPerDate'
  BY <1>2, <1>4 DEF IInv, OneAuditPerDate
<1>7. SeenCame'
  BY <1>2, <1>3 DEF IInv, SeenCame, Came, InHouse
<1>8. at[a].pc = "complete"
  BY DEF CompleteAuditRun
<1>9. \A s \in run[d].seen : s \in at[a].errs \/ Settled(s, d)
  BY <1>0, <1>1, <1>8 DEF IInv, LoopAccounts
<1>10. ASSUME NEW b \in Audits
       PROVE  StartsWithRoom(b)' /\ LookedUp(b)' /\ LockedByNow(b)' /\ LoopAccounts(b)'
  <2>1. CASE b = a
    <3>1. at[a].on = None
      BY <1>0, <1>8 DEF IInv, LookedUp
    <3>2. StartsWithRoom(b)' /\ LookedUp(b)' /\ LockedByNow(b)'
      BY <1>2, <2>1, <3>1 DEF StartsWithRoom, LookedUp, LockedByNow
    <3>3. LoopAccounts(b)'
      BY <1>2, <1>3, <1>9, <2>1 DEF LoopAccounts, Settled, InHouse, Priced
    <3> QED
      BY <3>2, <3>3
  <2>2. CASE b # a
    <3>1. at'[b] = at[b]
      BY <1>2, <2>2
    <3>2. StartsWithRoom(b)' /\ LookedUp(b)' /\ LockedByNow(b)'
      BY <1>2, <3>1 DEF IInv, StartsWithRoom, LookedUp, LockedByNow, Locked, Row
    <3>3. LoopAccounts(b)'
      BY <1>2, <1>3, <1>4, <2>2, <3>1 DEF IInv, LoopAccounts, Settled, InHouse, Priced
    <3> QED
      BY <3>2, <3>3
  <2> QED
    BY <2>1, <2>2
<1>11. NightChargedOnce'
  BY <1>2 DEF IInv, NightChargedOnce
<1>12. ClosedNightLocked'
  <2>1. Locked(d)
    BY <1>1, <1>8 DEF IInv, LockedByNow
  <2> QED
    BY <1>2, <1>3, <2>1 DEF IInv, ClosedNightLocked, Locked
<1>13. NothingForgotten'
  BY <1>2, <1>3, <1>9 DEF IInv, NothingForgotten, Settled, InHouse, Priced
<1> QED
  BY <1>5, <1>6, <1>7, <1>10, <1>11, <1>12, <1>13 DEF IInv

\* An audit that ends, however it ends.
LEMMA EndPreserves ==
    ASSUME IInv, TypeOK', NEW a \in Audits, Finish(a) \/ FailAuditRun(a) \/ Crash(a)
    PROVE  IInv'
<1>0. TypeOK /\ at[a] # Idle /\ at[a] \in Step
  BY AtWork DEF IInv, Finish, FailAuditRun, Crash, Pcs
<1>1. /\ at'[a] = Idle
      /\ \A b \in Audits \ {a} : at'[b] = at[b]
      /\ UNCHANGED <<stay, charge>>
  BY <1>0 DEF Finish, FailAuditRun, Crash, TypeOK
<1>2. PICK d \in Dates : d = at[a].date
  BY <1>0 DEF Step
<1>3. \A e \in Dates : /\ run'[e].seen = run[e].seen
                       /\ e # d => run'[e] = run[e]
                       /\ run'[e].status = "completed" => run'[e] = run[e]
  <2>1. CASE UNCHANGED run
    BY <2>1
  <2>2. CASE FailAuditRun(a)
    <3>1. run' = [run EXCEPT ![d] = [run[d] EXCEPT !.status = "failed", !.errs = {}]]
      BY <1>2, <2>2 DEF FailAuditRun
    <3>2. run \in [Dates -> AuditRun] /\ run[d] \in AuditRun
      BY <1>0 DEF TypeOK
    <3> QED
      BY <3>1, <3>2 DEF AuditRun
  <2> QED
    BY <2>1, <2>2 DEF Finish, Crash
<1>4. ASSUME NEW b \in Audits \ {a}, at[b] # Idle
      PROVE  at[b].date # d /\ at[b].date \in Dates
  <2>1. at[b] \in Step
    BY <1>0, <1>4, AtWork
  <2> QED
    BY <1>0, <1>2, <1>4, <2>1 DEF IInv, OneAuditPerDate, Step
<1>5. RunOfAudit' /\ OneAuditPerDate'
  BY <1>1, <1>3, <1>4 DEF IInv, RunOfAudit, OneAuditPerDate
<1>6. SeenCame'
  BY <1>1, <1>3 DEF IInv, SeenCame, Came, InHouse
<1>7. ASSUME NEW b \in Audits
      PROVE  StartsWithRoom(b)' /\ LookedUp(b)' /\ LockedByNow(b)' /\ LoopAccounts(b)'
  <2>1. CASE b = a
    BY <1>1, <2>1 DEF StartsWithRoom, LookedUp, LockedByNow, LoopAccounts, Idle
  <2>2. CASE b # a
    <3>1. at'[b] = at[b]
      BY <1>1, <2>2
    <3>2. StartsWithRoom(b)' /\ LookedUp(b)' /\ LockedByNow(b)'
      BY <1>1, <3>1 DEF IInv, StartsWithRoom, LookedUp, LockedByNow, Locked, Row
    <3>3. LoopAccounts(b)'
      BY <1>1, <1>3, <1>4, <2>2, <3>1 DEF IInv, LoopAccounts, Settled, InHouse, Priced
    <3> QED
      BY <3>2, <3>3
  <2> QED
    BY <2>1, <2>2
<1>8. NightChargedOnce'
  BY <1>1 DEF IInv, NightChargedOnce
<1>9. ClosedNightLocked' /\ NothingForgotten'
  BY <1>1, <1>3 DEF IInv, ClosedNightLocked, NothingForgotten, InHouse, Priced
<1> QED
  BY <1>5, <1>6, <1>7, <1>8, <1>9 DEF IInv

\* The desk touches neither runs nor charges; an accepted stay that leaves may
\* be left out, one that was read in house cannot arrive anew.
LEMMA DeskPreserves ==
    ASSUME IInv, TypeOK', Desk
    PROVE  IInv'
<1>0. TypeOK
  BY DEF IInv
<1>1. UNCHANGED <<run, charge, at>>
  BY DEF Desk, CheckIn, CheckOut, Settle
<1>2. StaysGoOn
  <2>1. ASSUME NEW r \in Stays, NEW today \in Dates, CheckIn(r, today)
        PROVE  StaysGoOn
    <3>1. ~Came(r)
      BY <2>1 DEF CheckIn, Came, InHouse
    <3>2. \A s \in Stays \ {r} : stay'[s] = stay[s]
      BY <1>0, <2>1 DEF CheckIn, TypeOK
    <3> QED
      BY <3>1, <3>2 DEF StaysGoOn, Came, InHouse
  <2>2. ASSUME NEW r \in Stays, CheckOut(r)
        PROVE  StaysGoOn
    <3>1. stay'[r].status = "checked_out"
      BY <1>0, <2>2 DEF CheckOut, TypeOK, Reservation
    <3>2. \A s \in Stays \ {r} : stay'[s] = stay[s]
      BY <1>0, <2>2 DEF CheckOut, TypeOK
    <3> QED
      BY <3>1, <3>2 DEF StaysGoOn, Came, InHouse
  <2>3. ASSUME NEW r \in Stays, Settle(r)
        PROVE  StaysGoOn
    BY <2>3, SameStays DEF Settle
  <2> QED
    BY <2>1, <2>2, <2>3 DEF Desk
<1>3. ASSUME NEW d \in Dates, NEW r \in run[d].seen
      PROVE  r \in Stays /\ Came(r) /\ Came(r)' /\ (Settled(r, d) => Settled(r, d)')
  <2>1. r \in Stays /\ Came(r)
    BY DEF IInv, TypeOK, AuditRun, SeenCame
  <2>2. charge'[<<"room", r, d>>].rows >= charge[<<"room", r, d>>].rows
    <3>1. charge[<<"room", r, d>>].rows \in Nat
      BY <1>0, <2>1 DEF TypeOK, Charges, Lines
    <3> QED
      BY <1>1, <3>1
  <2> QED
    BY <1>0, <1>2, <2>1, <2>2, SettledStill DEF StaysGoOn
<1>4. RunOfAudit' /\ OneAuditPerDate' /\ NightChargedOnce' /\ ClosedNightLocked'
  BY <1>1 DEF IInv, RunOfAudit, OneAuditPerDate, NightChargedOnce, ClosedNightLocked
<1>5. SeenCame'
  BY <1>1, <1>3 DEF SeenCame
<1>6. ASSUME NEW a \in Audits
      PROVE  StartsWithRoom(a)' /\ LookedUp(a)' /\ LockedByNow(a)' /\ LoopAccounts(a)'
  <2>1. StartsWithRoom(a)' /\ LookedUp(a)' /\ LockedByNow(a)'
    BY <1>1 DEF IInv, StartsWithRoom, LookedUp, LockedByNow, Locked, Row
  <2>2. CASE at[a] = Idle
    BY <1>1, <2>1, <2>2 DEF LoopAccounts
  <2>3. CASE at[a] # Idle
    <3>1. PICK d \in Dates : d = at[a].date
      BY <1>0, <2>3, AtWork DEF Step
    <3>2. LoopAccounts(a)'
      BY <1>1, <1>3, <3>1 DEF IInv, LoopAccounts, Settled
    <3> QED
      BY <2>1, <3>2
  <2> QED
    BY <2>2, <2>3
<1>7. NothingForgotten'
  <2>1. ASSUME NEW d \in Dates, run[d].status = "completed", NEW r \in run[d].seen
        PROVE  r \in run[d].errs \/ Settled(r, d)'
    BY <1>3, <2>1 DEF IInv, NothingForgotten, Settled
  <2> QED
    BY <1>1, <2>1 DEF NothingForgotten, Settled
<1> QED
  BY <1>4, <1>5, <1>6, <1>7 DEF IInv

-----------------------------------------------------------------------------
(* The induction *)

LEMMA IInvInit == Init => IInv
<1> SUFFICES ASSUME Init
             PROVE  IInv
  OBVIOUS
<1>1. TypeOK
  BY TypeInit
<1>2. RunOfAudit /\ OneAuditPerDate /\ SeenCame /\ ClosedNightLocked /\ NothingForgotten
  BY DEF Init, RunOfAudit, OneAuditPerDate, SeenCame, ClosedNightLocked, NothingForgotten
<1>3. \A a \in Audits : StartsWithRoom(a) /\ LookedUp(a) /\ LockedByNow(a) /\ LoopAccounts(a)
  BY DEF Init, StartsWithRoom, LookedUp, LockedByNow, LoopAccounts, Idle
<1>4. NightChargedOnce
  BY DEF Init, NightChargedOnce
<1> QED
  BY <1>1, <1>2, <1>3, <1>4 DEF IInv

LEMMA IInvNext == IInv /\ [Next]_vars => IInv'
<1> SUFFICES ASSUME IInv, [Next]_vars
             PROVE  IInv'
  OBVIOUS
<1>0. TypeOK'
  BY TypeNext DEF IInv
<1>1. CASE UNCHANGED vars
  BY <1>1 DEF vars, IInv, TypeOK, RunOfAudit, OneAuditPerDate, SeenCame, Came, StartsWithRoom,
              LookedUp, LockedByNow, Locked, LoopAccounts, Settled, NightChargedOnce,
              ClosedNightLocked, NothingForgotten, InHouse, Row
<1>2. CASE Desk
  BY <1>0, <1>2, DeskPreserves
<1>3. ASSUME NEW a \in Audits, Audit(a) \/ FailAuditRun(a) \/ Crash(a)
      PROVE  IInv'
  <2>1. CASE WorkStep(a)
    BY <1>0, <2>1, WorkPreserves
  <2>2. CASE \E d \in Dates : CreateOrGetAuditRun(a, d)
    BY <1>0, <2>2, StartPreserves
  <2>3. CASE CompleteAuditRun(a)
    BY <1>0, <2>3, CompletePreserves
  <2>4. CASE Finish(a) \/ FailAuditRun(a) \/ Crash(a)
    BY <1>0, <2>4, EndPreserves
  <2> QED
    BY <1>0, <1>3, <2>1, <2>2, <2>3, <2>4, ReadInHouseWorks, PostAcceptedWorks, LookUpChargeWorks,
       PostLiveRateWorks, MarkNoShowWorks, MovesWork DEF Audit
<1> QED
  BY <1>1, <1>2, <1>3 DEF Next

LEMMA Invariant == Spec => []IInv
BY IInvInit, IInvNext, PTL DEF Spec

\* However many audits are asked for, fail, die and are asked for again, no
\* night of a stay is charged twice, although the live-rate path of
\* postRoomTariffs takes no lock between its look-up and its post.
THEOREM NoNightTwice == Spec => []NightChargedOnce
<1>1. IInv => NightChargedOnce
  BY DEF IInv
<1> QED
  BY Invariant, <1>1, PTL

\* A run that completeAuditRun closed has charged every stay it found in house,
\* or names it in its errors, or had a reason of the accepted price to leave it.
THEOREM NobodyForgotten == Spec => []NothingForgotten
<1>1. IInv => NothingForgotten
  BY DEF IInv
<1> QED
  BY Invariant, <1>1, PTL

\* Nothing is posted to a night after lockChargesForDate and completeAuditRun
\* closed it, by any audit.
THEOREM ClosedStaysLocked == Spec => []ClosedNightLocked
<1>1. IInv => ClosedNightLocked
  BY DEF IInv
<1> QED
  BY Invariant, <1>1, PTL

\* processNoShows works on a list that was read before, and turns nobody who
\* has come since into a no-show.
THEOREM PresentIsNoNoShow == Spec => NoShowOnlyAbsent
<1>1. TypeOK /\ [Next]_vars => [\A r \in Stays : InHouse(r) => stay'[r].status # "no_show"]_vars
  <2> SUFFICES ASSUME TypeOK, Next, NEW r \in Stays, InHouse(r)
               PROVE  stay'[r].status # "no_show"
    OBVIOUS
  <2>1. stay[r] \in Reservation /\ stay[r].status # "no_show" /\ stay[r].status # "confirmed"
    BY DEF TypeOK, InHouse
  <2>2. CASE UNCHANGED stay
    BY <2>1, <2>2
  <2>3. ASSUME NEW s \in Stays,
               \/ \E today \in Dates : CheckIn(s, today)
               \/ CheckOut(s)
               \/ \E a \in Audits : MarkNoShow(a, s)
        PROVE  stay'[r].status # "no_show"
    <3>1. CASE s = r
      BY <2>1, <2>3, <3>1 DEF CheckIn, CheckOut, MarkNoShow, TypeOK, Reservation
    <3>2. CASE s # r
      <4>1. stay'[r] = stay[r]
        BY <2>3, <3>2 DEF CheckIn, CheckOut, MarkNoShow, TypeOK
      <4> QED
        BY <2>1, <4>1
    <3> QED
      BY <3>1, <3>2
  <2>4. ASSUME NEW matching, NEW status \in {"stayover", "due_out"}, UpdateStatus(matching, status)
        PROVE  stay'[r].status # "no_show"
    BY <2>1, <2>4 DEF UpdateStatus, Reservation
  <2>5. ASSUME NEW a \in Audits, AdvanceStayovers(a) \/ MarkDueOuts(a)
        PROVE  stay'[r].status # "no_show"
    BY <2>4, <2>5 DEF AdvanceStayovers, MarkDueOuts
  <2> QED
    BY <2>2, <2>3, <2>5 DEF Next, Desk, Audit, Settle, CreateOrGetAuditRun, ReadInHouse, ReadExtras,
       PostAccepted, LookUpCharge, PostLiveRate, ReadNoShows, LockChargesForDate, CompleteAuditRun,
       Finish, FailAuditRun, Crash
<1> QED
  BY <1>1, TypeCorrect, PTL DEF Spec, NoShowOnlyAbsent
=============================================================================
