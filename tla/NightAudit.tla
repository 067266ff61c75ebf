------------------------------ MODULE NightAudit ----------------------------
(***************************************************************************)
(* The night audit of a business date: one audit_runs row per date,        *)
(* and a sequence of steps over the whole property - post the tariff and   *)
(* the nightly extras of every stay in house, turn absent arrivals into    *)
(* no-shows, advance the statuses, lock the day's charges, complete the    *)
(* run.  Each step is its own statement or transaction; the desk works     *)
(* meanwhile, a stay may fail without the rest, a step may throw, and the  *)
(* process may die.  Dates are numbers, rooms and amounts are left out.    *)
(***************************************************************************)
EXTENDS Naturals

CONSTANTS
    Audits,       \* requests that run an audit
    Stays,        \* reservations
    Accepted,     \* those with an accepted pricing snapshot
    Extras,       \* those with a per-night service
    Arrival,      \* Arrival[r], Departure[r]: the dates of reservation r
    Departure,
    LastDate,     \* bound: business dates are 1 .. LastDate
    MaxFaults,    \* bound: how often something fails
    None

ASSUME AuditAssumption ==
    /\ Accepted \subseteq Stays /\ Extras \subseteq Stays
    /\ LastDate \in Nat /\ MaxFaults \in Nat
    /\ Arrival \in [Stays -> Nat] /\ Departure \in [Stays -> Nat]
    /\ \A r \in Stays : Arrival[r] < Departure[r]
    /\ None \notin Stays

Dates == 1 .. LastDate
Lines == {"room", "extra"}

VARIABLES
    run,      \* run[d]: the audit_runs row of d; seen: the stays it read in house
    stay,     \* stay[r]: the reservation row
    folio,    \* folio[r]: the status of its guest folio
    charge,   \* charge[l, r, d]: how many charges of line l are posted for night d
    at,       \* at[a]: the step request a is at
    faults    \* failures so far

vars == <<run, stay, folio, charge, at, faults>>

Statuses == {"confirmed", "checked_in", "stayover", "due_out", "checked_out", "no_show"}
Idle == [pc |-> "idle"]
Pcs == {"start", "post", "noshow", "dueout", "lock", "complete", "emit"}

\* todo: the stays the loop has left; on: the one whose charge was looked for.
Step == [pc : Pcs, date : Dates, line : Lines, todo : SUBSET Stays,
         on : Stays \cup {None}, errs : SUBSET Stays]

AuditRun == [status : {"none", "running", "completed", "failed"},
             errs : SUBSET Stays, seen : SUBSET Stays]
Reservation == [status : Statuses, since : Nat]
Charges == [rows : Nat, locked : BOOLEAN]

TypeOK ==
    /\ run \in [Dates -> AuditRun]
    /\ stay \in [Stays -> Reservation]
    /\ folio \in [Stays -> {"none", "open", "settled"}]
    /\ charge \in [Lines \X Stays \X Dates -> Charges]
    /\ at \in [Audits -> Step \cup {Idle}]
    /\ faults \in 0 .. MaxFaults

Init ==
    /\ run = [d \in Dates |-> [status |-> "none", errs |-> {}, seen |-> {}]]
    /\ stay = [r \in Stays |-> [status |-> "confirmed", since |-> 0]]
    /\ folio = [r \in Stays |-> "none"]
    /\ charge = [x \in Lines \X Stays \X Dates |-> [rows |-> 0, locked |-> FALSE]]
    /\ at = [a \in Audits |-> Idle]
    /\ faults = 0

Fault == faults < MaxFaults /\ faults' = faults + 1

InHouse(r) == stay[r].status \in {"checked_in", "stayover", "due_out"}

\* The nights the accepted price of r covers.
Priced(r, d) == Arrival[r] <= d /\ d < Departure[r]

-----------------------------------------------------------------------------
(* The run *)

\* Mutant: the run of a date is started anew unless it is completed.
CreateOrGetAuditRunAgain(a, d) ==
    /\ at[a] = Idle /\ run[d].status # "completed"
    /\ run' = [run EXCEPT ![d].status = "running"]
    /\ at' = [at EXCEPT ![a] = [pc |-> "start", date |-> d, line |-> "room", todo |-> {},
                                on |-> None, errs |-> {}]]
    /\ UNCHANGED <<stay, folio, charge, faults>>

\* Whatever became of it, a date with a run is not audited again.
CreateOrGetAuditRun(a, d) ==
    /\ at[a] = Idle /\ run[d].status = "none"
    /\ run' = [run EXCEPT ![d].status = "running"]
    /\ at' = [at EXCEPT ![a] = [pc |-> "start", date |-> d, line |-> "room", todo |-> {},
                                on |-> None, errs |-> {}]]
    /\ UNCHANGED <<stay, folio, charge, faults>>

CompleteAuditRun(a) ==
    /\ at[a].pc = "complete"
    /\ run' = [run EXCEPT ![at[a].date].status = "completed", ![at[a].date].errs = at[a].errs]
    /\ at' = [at EXCEPT ![a].pc = "emit"]
    /\ UNCHANGED <<stay, folio, charge, faults>>

Finish(a) ==
    /\ at[a].pc = "emit"
    /\ at' = [at EXCEPT ![a] = Idle]
    /\ UNCHANGED <<run, stay, folio, charge, faults>>

\* A statement outside the per-stay loops throws; so may the last event, when
\* the run is completed already.
FailAuditRun(a) ==
    /\ Fault
    /\ at[a] # Idle
    /\ at[a].pc \in {"post", "noshow"} => at[a].todo = {}
    /\ run' = [run EXCEPT ![at[a].date].status = "failed", ![at[a].date].errs = {}]
    /\ at' = [at EXCEPT ![a] = Idle]
    /\ UNCHANGED <<stay, folio, charge>>

\* The process dies, or audit.started or failAuditRun throws: the row stays.
Crash(a) ==
    /\ Fault
    /\ at[a] # Idle
    /\ at' = [at EXCEPT ![a] = Idle]
    /\ UNCHANGED <<run, stay, folio, charge>>

-----------------------------------------------------------------------------
(* Tariffs and extras *)

\* postRoomTariffs reads the stays in house ...
ReadInHouse(a) ==
    LET found == {r \in Stays : InHouse(r)}
    IN  /\ at[a].pc = "start"
        /\ at' = [at EXCEPT ![a].pc = "post", ![a].todo = found]
        /\ run' = [run EXCEPT ![at[a].date].seen = found]
        /\ UNCHANGED <<stay, folio, charge, faults>>

Posted(a, line) == at[a].pc = "post" /\ at[a].line = line /\ at[a].todo = {}

\* ... and when it is through, postPerNightForProperty those with an extra.
ReadExtras(a) ==
    /\ Posted(a, "room")
    /\ at' = [at EXCEPT ![a].line = "extra", ![a].todo = {r \in Extras : InHouse(r)}]
    /\ UNCHANGED <<run, stay, folio, charge, faults>>

Row(a, r) == <<at[a].line, r, at[a].date>>

\* r is done with; `failed' if it goes to the errors of the run.
Done(a, r, failed) ==
    at' = [at EXCEPT ![a].todo = @ \ {r}, ![a].on = None,
                     ![a].errs = IF failed THEN @ \cup {r} ELSE @]

DoneOrFailed(a, r) ==
    \/ Done(a, r, FALSE) /\ UNCHANGED faults
    \/ Done(a, r, TRUE) /\ Fault

Due(a, r) ==
    /\ at[a].line = "room" => InHouse(r)
    /\ Priced(r, at[a].date)

\* One transaction under the pricing lock, on the reservation as it is now; the
\* charge's source key makes it unique.  The events that follow may throw.
PostAccepted(a, r) ==
    /\ at[a].pc = "post" /\ at[a].on = None /\ r \in at[a].todo \cap Accepted
    /\ \/ /\ ~Due(a, r)
          /\ Done(a, r, FALSE)
          /\ UNCHANGED <<charge, faults>>
       \/ /\ Due(a, r) /\ folio[r] = "open"
          /\ charge' = [charge EXCEPT ![Row(a, r)].rows = 1]
          /\ DoneOrFailed(a, r)
       \/ /\ Due(a, r) /\ folio[r] # "open"
          /\ Done(a, r, TRUE)
          /\ UNCHANGED <<charge, faults>>
       \/ /\ Fault
          /\ Done(a, r, TRUE)
          /\ UNCHANGED charge
    /\ UNCHANGED <<run, stay, folio>>

\* Mutant: a stay without an open folio is passed over.
LookUpChargeQuietly(a, r) ==
    /\ at[a].pc = "post" /\ at[a].on = None /\ r \in at[a].todo \ Accepted
    /\ \/ /\ folio[r] # "open" \/ charge[Row(a, r)].rows > 0
          /\ Done(a, r, FALSE)
       \/ /\ folio[r] = "open" /\ charge[Row(a, r)].rows = 0
          /\ at' = [at EXCEPT ![a].on = r]
    /\ UNCHANGED <<run, stay, folio, charge, faults>>

\* The live-rate path looks for an open folio and an earlier charge of the night ...
LookUpCharge(a, r) ==
    /\ at[a].pc = "post" /\ at[a].on = None /\ r \in at[a].todo \ Accepted
    /\ \/ /\ folio[r] # "open"
          /\ Done(a, r, TRUE)
       \/ /\ folio[r] = "open" /\ charge[Row(a, r)].rows > 0
          /\ Done(a, r, FALSE)
       \/ /\ folio[r] = "open" /\ charge[Row(a, r)].rows = 0
          /\ at' = [at EXCEPT ![a].on = r]
    /\ UNCHANGED <<run, stay, folio, charge, faults>>

\* ... and then posts it, to a folio that may be settled by now; a failure may
\* come before the row is inserted or after.
PostLiveRate(a) ==
    LET r == at[a].on
    IN  /\ at[a].pc = "post" /\ r # None
        /\ \/ /\ folio[r] = "open"
              /\ charge' = [charge EXCEPT ![Row(a, r)].rows = @ + 1]
              /\ DoneOrFailed(a, r)
           \/ /\ folio[r] # "open"
              /\ Done(a, r, TRUE)
              /\ UNCHANGED <<charge, faults>>
           \/ /\ Fault
              /\ Done(a, r, TRUE)
              /\ UNCHANGED charge
        /\ UNCHANGED <<run, stay, folio>>

-----------------------------------------------------------------------------
(* No-shows, statuses and the lock *)

\* Arrivals of the day itself count only after the cut-off hour, if there is one.
ReadNoShows(a) ==
    /\ Posted(a, "extra")
    /\ \E cutoffPassed \in BOOLEAN :
         at' = [at EXCEPT ![a].pc = "noshow",
                  ![a].todo = {r \in Stays :
                     /\ stay[r].status = "confirmed"
                     /\ Arrival[r] < at[a].date \/ (Arrival[r] = at[a].date /\ cutoffPassed)}]
    /\ UNCHANGED <<run, stay, folio, charge, faults>>

\* Mutant: the status is written without looking at it again.
MarkNoShowBlindly(a, r) ==
    /\ at[a].pc = "noshow" /\ r \in at[a].todo
    /\ stay' = [stay EXCEPT ![r].status = "no_show"]
    /\ DoneOrFailed(a, r)
    /\ UNCHANGED <<run, folio, charge>>

\* markNoShow claims the status; the settlement after it may fail.
MarkNoShow(a, r) ==
    /\ at[a].pc = "noshow" /\ r \in at[a].todo
    /\ \/ /\ stay[r].status = "confirmed"
          /\ stay' = [stay EXCEPT ![r].status = "no_show"]
          /\ DoneOrFailed(a, r)
       \/ /\ stay[r].status # "confirmed"
          /\ Done(a, r, TRUE)
          /\ UNCHANGED <<stay, faults>>
       \/ /\ Fault
          /\ Done(a, r, TRUE)
          /\ UNCHANGED stay
    /\ UNCHANGED <<run, folio, charge>>

\* An UPDATE of the status of the stays that satisfy its condition.
UpdateStatus(matching, status) ==
    stay' = [r \in Stays |-> IF r \in matching THEN [stay[r] EXCEPT !.status = status] ELSE stay[r]]

\* Mutant: a status the enum does not have.
AdvanceStayoversMisnamed(a) ==
    /\ at[a].pc = "noshow" /\ at[a].todo = {}
    /\ UpdateStatus({r \in Stays : stay[r].status = "checked_in"}, "stay_over")
    /\ at' = [at EXCEPT ![a].pc = "dueout"]
    /\ UNCHANGED <<run, folio, charge, faults>>

AdvanceStayovers(a) ==
    /\ at[a].pc = "noshow" /\ at[a].todo = {}
    /\ UpdateStatus({r \in Stays : stay[r].status = "checked_in" /\ stay[r].since < at[a].date}, "stayover")
    /\ at' = [at EXCEPT ![a].pc = "dueout"]
    /\ UNCHANGED <<run, folio, charge, faults>>

MarkDueOuts(a) ==
    /\ at[a].pc = "dueout"
    /\ UpdateStatus({r \in Stays : stay[r].status = "stayover" /\ Departure[r] = at[a].date + 1}, "due_out")
    /\ at' = [at EXCEPT ![a].pc = "lock"]
    /\ UNCHANGED <<run, folio, charge, faults>>

\* Mutant: the charges of the date itself are left open.
LockEarlierCharges(a) ==
    /\ at[a].pc = "lock"
    /\ charge' = [x \in DOMAIN charge |->
                    [charge[x] EXCEPT !.locked = @ \/ (x[3] < at[a].date /\ charge[x].rows > 0)]]
    /\ at' = [at EXCEPT ![a].pc = "complete"]
    /\ UNCHANGED <<run, stay, folio, faults>>

LockChargesForDate(a) ==
    /\ at[a].pc = "lock"
    /\ charge' = [x \in DOMAIN charge |->
                    [charge[x] EXCEPT !.locked = @ \/ (x[3] <= at[a].date /\ charge[x].rows > 0)]]
    /\ at' = [at EXCEPT ![a].pc = "complete"]
    /\ UNCHANGED <<run, stay, folio, faults>>

-----------------------------------------------------------------------------
(* The desk *)

\* Guests come on their date of arrival or later (an assumption on the input).
CheckIn(r, today) ==
    /\ stay[r].status = "confirmed" /\ today >= Arrival[r]
    /\ stay' = [stay EXCEPT ![r].status = "checked_in", ![r].since = today]
    /\ folio' = [folio EXCEPT ![r] = "open"]
    /\ UNCHANGED <<run, charge, at, faults>>

\* Express check-out goes on to settle the folio; otherwise it may stay open.
CheckOut(r) ==
    /\ InHouse(r)
    /\ stay' = [stay EXCEPT ![r].status = "checked_out"]
    /\ UNCHANGED <<run, folio, charge, at, faults>>

Settle(r) ==
    /\ folio[r] = "open"
    /\ folio' = [folio EXCEPT ![r] = "settled"]
    /\ UNCHANGED <<run, stay, charge, at, faults>>

Desk == \E r \in Stays : (\E today \in Dates : CheckIn(r, today)) \/ CheckOut(r) \/ Settle(r)

Audit(a) ==
    \/ \E d \in Dates : CreateOrGetAuditRun(a, d)
    \/ ReadInHouse(a)
    \/ ReadExtras(a)
    \/ \E r \in Stays : PostAccepted(a, r) \/ LookUpCharge(a, r)
    \/ PostLiveRate(a)
    \/ ReadNoShows(a)
    \/ \E r \in Stays : MarkNoShow(a, r)
    \/ AdvanceStayovers(a)
    \/ MarkDueOuts(a)
    \/ LockChargesForDate(a)
    \/ CompleteAuditRun(a)
    \/ Finish(a)

Next == Desk \/ \E a \in Audits : Audit(a) \/ FailAuditRun(a) \/ Crash(a)

Spec == Init /\ [][Next]_vars

-----------------------------------------------------------------------------
(* Properties *)

\* No night is charged twice, though the live-rate path looks for an earlier
\* charge and posts in two steps without a lock, and audits run concurrently,
\* fail half-way and are asked for again.
NightChargedOnce == \A x \in DOMAIN charge : charge[x].rows <= 1

\* A completed audit forgot nobody: every stay it found in house is charged
\* for the night or named in the errors of the run; only an accepted stay that
\* left meanwhile, or whose price does not cover the night, is neither.
NothingForgotten ==
    \A d \in Dates : run[d].status = "completed" =>
        \A r \in run[d].seen :
            \/ charge[<<"room", r, d>>].rows > 0
            \/ r \in run[d].errs
            \/ r \in Accepted /\ ~(InHouse(r) /\ Priced(r, d))

\* When an audit is completed, everything it posted for the date is locked, and
\* no other audit posts to that date later.
ClosedNightLocked ==
    \A d \in Dates : run[d].status = "completed" =>
        \A l \in Lines, r \in Stays :
            charge[<<l, r, d>>].rows > 0 => charge[<<l, r, d>>].locked

\* A guest who checked in while the audit was at work is not turned into a
\* no-show from the list read before.
NoShowOnlyAbsent ==
    [][\A r \in Stays : InHouse(r) => stay'[r].status # "no_show"]_vars
=============================================================================
