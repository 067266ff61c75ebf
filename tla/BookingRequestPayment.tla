----------------------- MODULE BookingRequestPayment ------------------------
(***************************************************************************)
(* The money of one booking request: saved-card charges, external          *)
(* payments, refunds, returns and retentions, their allocation to          *)
(* installments, and the accept / deny decision they constrain.            *)
(*                                                                         *)
(* Every transaction of this code locks the request row first, so each is  *)
(* one action.  What is not atomic is a charge or a refund: one            *)
(* transaction claims it, the gateway is called without a lock, a second   *)
(* transaction books the answer - and the process may die in between.      *)
(* Stripe's webhooks report the same facts at any time, in any order, any  *)
(* number of times.                                                        *)
(*                                                                         *)
(* A charge and a refund are identified by their idempotency key, so the   *)
(* intent Stripe has for charge c is intent[c] and the refund it has for   *)
(* claim r is refund[r]: the events it has reported on them so far.  A     *)
(* repeated call with a key is answered with the first response.           *)
(***************************************************************************)
EXTENDS Integers, FiniteSets

CONSTANTS
    Workers,        \* concurrent charge and refund requests of staff
    Cards,          \* saved-card charges, by idempotency key
    Externals,      \* externally recorded payments, by reference
    Claims,         \* refund keys, return references, reasons to retain
    Installments,
    Amount,         \* bound of the model: the amount of every payment
    None

Payments == Cards \cup Externals

\* A payment has at most one allocation row for each installment.
Rows == Payments \X Installments

ASSUME PaymentAssumption ==
    /\ Amount \in Nat \ {0}
    /\ IsFiniteSet(Claims) /\ IsFiniteSet(Payments) /\ IsFiniteSet(Installments)
    /\ Cards \cap Externals = {} /\ Payments \cap Claims = {}
    /\ None \notin Payments \cup Claims

VARIABLES
    request,     \* status of the booking request
    pay,         \* pay[p]: the payments row of p
    claim,       \* claim[r]: the resolution row r, and its movement
    allocs,      \* allocs[<<p, i>>]: the allocation row of payment p to i
    inst,        \* inst[i]: the installment row i
    credit,      \* payment total in the balance of the accepted folio
    told,        \* consequences: the events to announce
    intent,      \* intent[c]: events of Stripe on the PaymentIntent of c
    refund,      \* refund[r]: events of Stripe on the refund of r
    req          \* req[w]: the charge or refund worker w is serving

ledger == <<request, pay, claim, allocs, inst, credit, told>>
provider == <<intent, refund>>
vars == <<ledger, provider, req>>

-----------------------------------------------------------------------------
(* Rows *)

NoPayment == [status |-> "none", folio |-> FALSE]
Payment == [status : {"none", "pending", "captured", "failed", "voided"}, folio : BOOLEAN]

NoClaim == [payment |-> None, type |-> "none", amount |-> 0, status |-> "none", folio |-> FALSE]
Claim == [payment : Payments, type : {"refund", "external_return", "retained"},
          amount : 1..Amount, status : {"pending", "completed", "failed"}, folio : BOOLEAN]

\* resolved = 0: the installment does not exist.
Installment == [resolved : Nat, allocated : Nat, status : {"unpaid", "partial", "paid"}]
NoInstallment == [resolved |-> 0, allocated |-> 0, status |-> "unpaid"]

\* older: the rows of the same payment created before this one.  A row with no
\* amount does not exist.
Allocation == [amount : 0..Amount, older : SUBSET Rows]
NoAllocation == [amount |-> 0, older |-> {}]

Events == {"payment.received", "payment.failed", "payment.refunded"}
IntentEvents == {"processing", "requires_action", "succeeded", "payment_failed", "canceled"}
RefundEvents == {"pending", "succeeded", "failed"}

Idle == [pc |-> "idle"]
Request == [pc : {"call", "answer"}, on : Cards \cup Claims,
            result : IntentEvents \cup RefundEvents \cup {None}]

TypeOK ==
    /\ request \in {"pending", "accepted", "denied"}
    /\ pay \in [Payments -> Payment]
    /\ claim \in [Claims -> Claim \cup {NoClaim}]
    /\ allocs \in [Rows -> Allocation]
    /\ inst \in [Installments -> Installment]
    /\ credit \in Int
    /\ told \subseteq Events \X (Payments \cup Claims)
    /\ intent \in [Cards -> SUBSET IntentEvents]
    /\ refund \in [Claims -> SUBSET RefundEvents]
    /\ req \in [Workers -> Request \cup {Idle}]

Init ==
    /\ request = "pending"
    /\ pay = [p \in Payments |-> NoPayment]
    /\ claim = [r \in Claims |-> NoClaim]
    /\ allocs = [x \in Rows |-> NoAllocation]
    /\ inst = [i \in Installments |-> NoInstallment]
    /\ credit = 0
    /\ told = {}
    /\ intent = [c \in Cards |-> {}]
    /\ refund = [r \in Claims |-> {}]
    /\ req = [w \in Workers |-> Idle]

-----------------------------------------------------------------------------
(* The ledger of one payment, given the resolution rows cl *)

Clip(n) == IF n < 0 THEN 0 ELSE n

\* The sum of the amounts of the rows S, as the number of their units.
Total(cl, S) == Cardinality({u \in S \X (1..Amount) : u[2] <= cl[u[1]].amount})

Resolutions(cl, p, st) == {r \in Claims : cl[r].payment = p /\ cl[r].status = st}
Retained(cl, p) == {r \in Resolutions(cl, p, "completed") : cl[r].type = "retained"}
Movements(cl, p) == Resolutions(cl, p, "completed") \ Retained(cl, p)

NetCaptured(cl, p) == Clip(Amount - Total(cl, Movements(cl, p)))

Unresolved(cl, p) ==
    IF pay[p].status = "captured" THEN Clip(NetCaptured(cl, p) - Total(cl, Retained(cl, p))) ELSE 0

\* Mutant: pending claims do not reserve their amount.
AvailableWithoutReserve(cl, p) == Unresolved(cl, p)

AvailableToResolve(cl, p) == Clip(Unresolved(cl, p) - Total(cl, Resolutions(cl, p, "pending")))

\* The payments part of a folio balance, from the rows linked to the folio.
Credit(ps, cl) ==
    LET linked == {p \in Payments : ps[p].status = "captured" /\ ps[p].folio}
        back == {r \in Claims : /\ cl[r].status = "completed"
                                /\ cl[r].type # "retained"
                                /\ cl[r].folio}
    IN  Amount * Cardinality(linked) - Total(cl, back)

RecalculateBalance(linked) == credit' = IF linked THEN Credit(pay', claim') ELSE credit

Announce(event, id) == told' = told \cup {<<event, id>>}

-----------------------------------------------------------------------------
(* Allocations *)

AllocatedOf(p) == {p} \X Installments
AllocatedTo(i) == Payments \X {i}

StatusOf(allocated, resolved) ==
    IF allocated = 0 THEN "unpaid" ELSE IF allocated >= resolved THEN "paid" ELSE "partial"

\* Mutant: the newest allocations are kept.
KeptNewest(x, net) ==
    LET newer == {y \in Rows : x \in allocs[y].older}
        left == Clip(net - Total(allocs, newer))
    IN  IF allocs[x].amount <= left THEN allocs[x].amount ELSE left

\* What is kept of row x when net is left of its payment: the oldest rows are
\* served first.
Kept(x, net) ==
    LET left == Clip(net - Total(allocs, allocs[x].older))
    IN  IF allocs[x].amount <= left THEN allocs[x].amount ELSE left

\* Rows of which nothing is kept are deleted, and so are all newer ones: what
\* is older than a remaining row is kept in full.
ReconcileAllocations(p) ==
    LET kept == [x \in Rows |-> IF x[1] = p THEN Kept(x, NetCaptured(claim', p)) ELSE allocs[x].amount]
        affected == {x[2] : x \in {y \in Rows : kept[y] # allocs[y].amount}}
    IN  /\ allocs' = [x \in Rows |->
             IF kept[x] = 0 THEN NoAllocation ELSE [allocs[x] EXCEPT !.amount = kept[x]]]
        /\ inst' = [i \in Installments |->
             IF i \notin affected THEN inst[i]
             ELSE LET n == Total(allocs', AllocatedTo(i))
                  IN  [inst[i] EXCEPT !.allocated = n, !.status = StatusOf(n, inst[i].resolved)]]

CreateInstallment(i, a) ==
    /\ request # "denied"
    /\ inst[i] = NoInstallment
    /\ inst' = [inst EXCEPT ![i] = [resolved |-> a, allocated |-> 0, status |-> "unpaid"]]
    /\ UNCHANGED <<request, pay, claim, allocs, credit, told, provider, req>>

UpdateInstallment(i, a) ==
    LET n == Total(allocs, AllocatedTo(i))
    IN  /\ request # "denied"
        /\ inst[i] # NoInstallment
        /\ a >= n
        /\ inst' = [inst EXCEPT ![i] = [resolved |-> a, allocated |-> n, status |-> StatusOf(n, a)]]
        /\ UNCHANGED <<request, pay, claim, allocs, credit, told, provider, req>>

\* What has been allocated is kept: only the open remainder is removed.
DeleteInstallment(i) ==
    LET n == Total(allocs, AllocatedTo(i))
    IN  /\ request # "denied"
        /\ inst[i] # NoInstallment
        /\ n < inst[i].resolved
        /\ inst' = [inst EXCEPT ![i] =
             IF n = 0 THEN NoInstallment
             ELSE [resolved |-> n, allocated |-> n, status |-> "paid"]]
        /\ UNCHANGED <<request, pay, claim, allocs, credit, told, provider, req>>

\* A second allocation of a payment to an installment adds to the first row.
AddAllocation(p, i, a) ==
    LET row == allocs[<<p, i>>]
    IN  [allocs EXCEPT ![<<p, i>>] =
          IF row.amount > 0 THEN [row EXCEPT !.amount = row.amount + a]
          ELSE [amount |-> a, older |-> {x \in AllocatedOf(p) : allocs[x].amount > 0}]]

AllocatePayment(p, i, a) ==
    LET next == AddAllocation(p, i, a)
        n == Total(next, AllocatedTo(i))
    IN  /\ request # "denied"
        /\ pay[p].status = "captured"
        /\ inst[i] # NoInstallment
        /\ Total(allocs, AllocatedOf(p)) + a <= AvailableToResolve(claim, p)
        /\ n <= inst[i].resolved
        /\ allocs' = next
        /\ inst' = [inst EXCEPT ![i].allocated = n, ![i].status = StatusOf(n, inst[i].resolved)]
        /\ UNCHANGED <<request, pay, claim, credit, told, provider, req>>

-----------------------------------------------------------------------------
(* Saved-card charges *)

\* The first transaction: a new pending payment, or the pending one of a
\* repeated request.
StartCharge(w, c) ==
    /\ req[w] = Idle
    /\ request # "denied"
    /\ \/ /\ pay[c].status = "none"
          /\ pay' = [pay EXCEPT ![c] = [status |-> "pending", folio |-> request = "accepted"]]
       \/ /\ pay[c].status = "pending"
          /\ UNCHANGED pay
    /\ req' = [req EXCEPT ![w] = [pc |-> "call", on |-> c, result |-> None]]
    /\ UNCHANGED <<request, claim, allocs, inst, credit, told, provider>>

\* A repeated request for a finished charge repairs what should be there.
ReplayCharge(c) ==
    /\ request # "denied"
    /\ pay[c].status \in {"captured", "failed"}
    /\ UNCHANGED <<request, claim, allocs, inst, provider, req>>
    /\ IF pay[c].status = "captured"
       THEN /\ pay' = [pay EXCEPT ![c].folio = @ \/ request = "accepted"]
            /\ RecalculateBalance(pay'[c].folio)
            /\ Announce("payment.received", c)
       ELSE /\ Announce("payment.failed", c)
            /\ UNCHANGED <<pay, credit>>

\* Stripe executes the first call with a key and answers every later call with
\* the response of the first.
FirstAnswer(h, e) ==
    /\ e \in h
    /\ "processing" \in h => e = "processing"
    /\ {"processing", "requires_action"} \cap h = {"requires_action"} => e = "requires_action"

\* What a call may leave at Stripe: it was never received, it is the first one
\* with its key, or it is answered from the first.
Received(h, answers) == {h} \cup (IF h = {} THEN {{e} : e \in answers} ELSE {})

\* An answer that settles the matter is booked; after one that does not (still
\* processing, or lost with the connection) the transaction writes notes only
\* and the request ends with the row still pending.
Answered(w, e, open) ==
    req' = [req EXCEPT ![w] = IF open THEN Idle ELSE [@ EXCEPT !.pc = "answer", !.result = e]]

\* Mutant: an intent still processing is taken as a decline.
CallChargeProcessingDeclined(w) ==
    LET c == req[w].on
    IN  /\ req[w].pc = "call" /\ c \in Cards
        /\ \E h \in Received(intent[c], {"processing", "succeeded"}) :
             /\ intent' = [intent EXCEPT ![c] = h]
             /\ \E e \in IntentEvents : FirstAnswer(h, e) /\ Answered(w, e, FALSE)
        /\ UNCHANGED <<ledger, refund>>

\* Amount and currency are taken to pass the gateway's own validation, which
\* would answer as a decline does without calling Stripe.
CallCharge(w) ==
    LET c == req[w].on
    IN  /\ req[w].pc = "call" /\ c \in Cards
        /\ \E h \in Received(intent[c], {"processing", "requires_action", "succeeded", "payment_failed"}) :
             /\ intent' = [intent EXCEPT ![c] = h]
             /\ \/ \E e \in IntentEvents : FirstAnswer(h, e) /\ Answered(w, e, e = "processing")
                \/ Answered(w, "unknown", TRUE)
        /\ UNCHANGED <<ledger, refund>>

\* Mutant: the folio read before the gateway call is written back.
FinishChargeStaleFolio(w) ==
    LET c == req[w].on
        status == IF req[w].result = "succeeded" THEN "captured" ELSE "failed"
    IN  /\ req[w].pc = "answer" /\ c \in Cards
        /\ request # "denied" /\ pay[c].status = "pending"
        /\ pay' = [pay EXCEPT ![c] = [status |-> status, folio |-> FALSE]]
        /\ Announce(IF status = "captured" THEN "payment.received" ELSE "payment.failed", c)
        /\ req' = [req EXCEPT ![w] = Idle]
        /\ UNCHANGED <<request, claim, allocs, inst, credit, provider>>

\* The second transaction: a payment that is no longer pending was finished by
\* another request or by a webhook.
FinishCharge(w) ==
    LET c == req[w].on
        status == IF req[w].result = "succeeded" THEN "captured" ELSE "failed"
    IN  /\ req[w].pc = "answer" /\ c \in Cards
        /\ \/ /\ request # "denied"
              /\ pay[c].status = "pending"
              /\ pay' = [pay EXCEPT ![c] = [status |-> status, folio |-> request = "accepted"]]
              /\ Announce(IF status = "captured" THEN "payment.received" ELSE "payment.failed", c)
              /\ UNCHANGED <<request, claim, allocs, inst>>
              /\ RecalculateBalance(status = "captured" /\ pay'[c].folio)
           \/ /\ request = "denied" \/ pay[c].status # "pending"
              /\ UNCHANGED ledger
        /\ req' = [req EXCEPT ![w] = Idle]
        /\ UNCHANGED provider

-----------------------------------------------------------------------------
(* External payments, returns and retentions *)

\* Recording a known reference again repairs the balance and the consequence.
RecordExternalPayment(x) ==
    /\ request # "denied"
    /\ \/ /\ pay[x].status = "none"
          /\ pay' = [pay EXCEPT ![x] = [status |-> "captured", folio |-> request = "accepted"]]
       \/ /\ pay[x].status = "captured"
          /\ UNCHANGED pay
    /\ Announce("payment.received", x)
    /\ UNCHANGED claim
    /\ RecalculateBalance(pay'[x].folio)
    /\ UNCHANGED <<request, allocs, inst, provider, req>>

\* Mutant: allocations are left as they were.
BookMovementOnly(r) ==
    /\ Announce("payment.refunded", r)
    /\ UNCHANGED <<pay, allocs, inst>>
    /\ RecalculateBalance(claim'[r].folio)

\* The movement of claim r reduces the payment: allocations and balance follow.
BookMovement(r) ==
    /\ Announce("payment.refunded", r)
    /\ ReconcileAllocations(claim'[r].payment)
    /\ UNCHANGED pay
    /\ RecalculateBalance(claim'[r].folio)

\* Mutant: the resolution gets the negated amount of its movement.
RecordExternalReturnNegated(r, x, a) ==
    /\ request # "denied"
    /\ pay[x].status = "captured"
    /\ claim[r] = NoClaim
    /\ a <= AvailableToResolve(claim, x)
    /\ claim' = [claim EXCEPT ![r] = [payment |-> x, type |-> "external_return", amount |-> 0 - a,
                                      status |-> "completed", folio |-> request = "accepted"]]
    /\ BookMovement(r)
    /\ UNCHANGED <<request, provider, req>>

RecordExternalReturn(r, x, a) ==
    LET row == [payment |-> x, type |-> "external_return", amount |-> a, status |-> "completed",
                folio |-> request = "accepted"]
    IN  /\ request # "denied"
        /\ pay[x].status = "captured"
        /\ \/ /\ claim[r] = NoClaim
              /\ a <= AvailableToResolve(claim, x)
              /\ claim' = [claim EXCEPT ![r] = row]
           \/ /\ claim[r] \in {row, [row EXCEPT !.folio = TRUE]}
              /\ UNCHANGED claim
        /\ BookMovement(r)
        /\ UNCHANGED <<request, provider, req>>

RetainForDenial(r, p, a) ==
    /\ request = "pending"
    /\ pay[p].status = "captured"
    /\ claim[r] = NoClaim
    /\ a <= AvailableToResolve(claim, p)
    /\ claim' = [claim EXCEPT ![r] = [payment |-> p, type |-> "retained", amount |-> a,
                                      status |-> "completed", folio |-> FALSE]]
    /\ UNCHANGED <<request, pay, allocs, inst, credit, told, provider, req>>

-----------------------------------------------------------------------------
(* Gateway refunds *)

\* The first transaction reserves the amount with a pending claim, or finds
\* the pending claim of a repeated request.
StartRefund(w, r, c, a) ==
    LET row == [payment |-> c, type |-> "refund", amount |-> a, status |-> "pending", folio |-> FALSE]
    IN  /\ req[w] = Idle
        /\ request # "denied"
        /\ pay[c].status = "captured"
        /\ \/ /\ claim[r] = NoClaim
              /\ a <= AvailableToResolve(claim, c)
              /\ claim' = [claim EXCEPT ![r] = row]
           \/ /\ claim[r] = row
              /\ UNCHANGED claim
        /\ req' = [req EXCEPT ![w] = [pc |-> "call", on |-> r, result |-> None]]
        /\ UNCHANGED <<request, pay, allocs, inst, credit, told, provider>>

\* A call that is repeated is answered by the response to the first: that the
\* credentials are refused between the two, which the gateway reports as a failed
\* refund, is left out.
CallRefund(w) ==
    LET r == req[w].on
    IN  /\ req[w].pc = "call" /\ r \in Claims
        /\ \E h \in Received(refund[r], RefundEvents) :
             /\ refund' = [refund EXCEPT ![r] = h]
             /\ \/ \E e \in h : /\ "pending" \in h => e = "pending"
                              /\ Answered(w, e, e = "pending")
                \/ Answered(w, "unknown", TRUE)
        /\ UNCHANGED <<ledger, intent>>

\* Mutant: a refund that failed is not announced.
FailRefundQuietly(r) ==
    /\ claim' = [claim EXCEPT ![r].status = "failed"]
    /\ UNCHANGED <<request, pay, allocs, inst, credit, told>>

FailRefund(r) ==
    /\ claim' = [claim EXCEPT ![r].status = "failed"]
    /\ Announce("payment.failed", r)
    /\ UNCHANGED <<request, pay, allocs, inst, credit>>

CompleteRefund(r) ==
    /\ claim' = [claim EXCEPT ![r].status = "completed", ![r].folio = request = "accepted"]
    /\ BookMovement(r)
    /\ UNCHANGED request

\* What a completed refund should have left behind is put in place again.
RepairRefund(r) ==
    /\ UNCHANGED <<request, claim>>
    /\ BookMovement(r)

ReplayRefund(r) ==
    /\ request # "denied"
    /\ claim[r].type = "refund" /\ claim[r].status = "completed"
    /\ RepairRefund(r)
    /\ UNCHANGED <<provider, req>>

FinishRefund(w) ==
    LET r == req[w].on
        result == req[w].result
    IN  /\ req[w].pc = "answer" /\ r \in Claims
        /\ \/ /\ request # "denied"
              /\ \/ result = "failed" /\ claim[r].status = "pending" /\ FailRefund(r)
                 \/ result = "succeeded" /\ claim[r].status = "pending" /\ CompleteRefund(r)
                 \/ result = "succeeded" /\ claim[r].status = "completed" /\ RepairRefund(r)
           \/ /\ \/ request = "denied"
                 \/ result = "failed" /\ claim[r].status # "pending"
                 \/ result = "succeeded" /\ claim[r].status = "failed"
              /\ UNCHANGED ledger
        /\ req' = [req EXCEPT ![w] = Idle]
        /\ UNCHANGED provider

\* The process dies: between its transactions, or before its answer is booked.
Crash(w) ==
    /\ req[w] # Idle
    /\ req' = [req EXCEPT ![w] = Idle]
    /\ UNCHANGED <<ledger, provider>>

-----------------------------------------------------------------------------
(* Stripe and its webhooks *)

Final(h) == h \cap {"succeeded", "payment_failed", "canceled"} # {}

\* A processing intent settles.  One that asks for the guest's authentication
\* may still succeed if the guest finds a way to answer.
SettleIntent(c) ==
    /\ intent[c] # {}
    /\ ~Final(intent[c])
    /\ \E e \in {"succeeded", "payment_failed", "canceled", "requires_action"} \ intent[c] :
         intent' = [intent EXCEPT ![c] = @ \cup {e}]
    /\ UNCHANGED <<ledger, refund, req>>

\* A refund that succeeded is taken to stay so; Stripe may still fail one when
\* the guest's bank returns it.
SettleRefund(r) ==
    /\ refund[r] = {"pending"}
    /\ \E e \in {"succeeded", "failed"} : refund' = [refund EXCEPT ![r] = @ \cup {e}]
    /\ UNCHANGED <<ledger, intent, req>>

TargetStatus(e) ==
    CASE e = "succeeded" -> "captured"
      [] e \in {"payment_failed", "requires_action"} -> "failed"
      [] e = "canceled" -> "voided"
      [] e = "processing" -> "pending"

\* decidePaymentIntentTransition: only a pending payment moves; an event that
\* agrees with the row repairs it; any other one is only audited.
PaymentIntentEvent(c, e) ==
    LET target == TargetStatus(e)
        repair == pay[c].status = target
        transition == pay[c].status = "pending" /\ e # "processing"
        blocked == e = "succeeded" /\ request = "denied" /\ pay[c].status # "captured"
        linked == request = "accepted" \/ pay[c].folio
    IN  /\ e \in intent[c]
        /\ (repair \/ transition) /\ ~blocked
        /\ UNCHANGED <<request, claim, allocs, inst, provider, req>>
        /\ pay' = [pay EXCEPT ![c] = [status |-> target, folio |-> linked]]
        /\ told' = told \cup (IF target = "pending" THEN {}
                              ELSE {<<IF target = "captured" THEN "payment.received"
                                      ELSE "payment.failed", c>>})
        /\ RecalculateBalance(linked /\ (target = "captured" \/ (repair /\ target # "pending")))

\* decideRefundTransition, with the claim as the ledger's state.
RefundUpdated(r, e) ==
    /\ e \in refund[r]
    /\ \/ e = "failed" /\ claim[r].status \in {"pending", "failed"} /\ FailRefund(r)
       \/ e = "succeeded" /\ claim[r].status = "pending" /\ request # "denied" /\ CompleteRefund(r)
       \/ e = "succeeded" /\ claim[r].status = "completed" /\ RepairRefund(r)
    /\ UNCHANGED <<provider, req>>

\* charge.refunded is taken as a signal to reconcile, never as a movement.
ChargeRefunded(c) ==
    /\ \E r \in Claims : claim[r].payment = c /\ "succeeded" \in refund[r]
    /\ UNCHANGED <<pay, claim>>
    /\ ReconcileAllocations(c)
    /\ RecalculateBalance(request = "accepted" \/ pay[c].folio)
    /\ UNCHANGED <<request, told, provider, req>>

-----------------------------------------------------------------------------
(* The decision *)

\* Every payment and movement of the request goes to the new folio.
Accept ==
    /\ request = "pending"
    /\ request' = "accepted"
    /\ pay' = [p \in Payments |-> [pay[p] EXCEPT !.folio = pay[p].status # "none"]]
    /\ claim' = [r \in Claims |->
         [claim[r] EXCEPT !.folio = claim[r].status = "completed" /\ claim[r].type # "retained"]]
    /\ RecalculateBalance(\E p \in Payments : pay[p].status # "none")
    /\ UNCHANGED <<allocs, inst, told, provider, req>>

\* Mutant: a payment attempt in flight does not stop a denial.
DenyWhileCharging ==
    /\ request = "pending"
    /\ \A r \in Claims : claim[r].status # "pending"
    /\ \A p \in Payments : Unresolved(claim, p) = 0
    /\ request' = "denied"
    /\ UNCHANGED <<pay, claim, allocs, inst, credit, told, provider, req>>

Deny ==
    /\ request = "pending"
    /\ \A p \in Payments : pay[p].status # "pending"
    /\ \A r \in Claims : claim[r].status # "pending"
    /\ \A p \in Payments : Unresolved(claim, p) = 0
    /\ request' = "denied"
    /\ UNCHANGED <<pay, claim, allocs, inst, credit, told, provider, req>>

-----------------------------------------------------------------------------

Staff ==
    \/ \E i \in Installments :
         \/ \E a \in 1..Amount : CreateInstallment(i, a) \/ UpdateInstallment(i, a)
         \/ DeleteInstallment(i)
         \/ \E p \in Payments, a \in 1..Amount : AllocatePayment(p, i, a)
    \/ \E x \in Externals : RecordExternalPayment(x)
    \/ \E r \in Claims, x \in Externals, a \in 1..Amount : RecordExternalReturn(r, x, a)
    \/ \E r \in Claims, p \in Payments, a \in 1..Amount : RetainForDenial(r, p, a)
    \/ Accept
    \/ Deny

Serve(w) ==
    \/ \E c \in Cards : StartCharge(w, c)
    \/ \E r \in Claims, c \in Cards, a \in 1..Amount : StartRefund(w, r, c, a)
    \/ CallCharge(w)
    \/ CallRefund(w)
    \/ FinishCharge(w)
    \/ FinishRefund(w)
    \/ Crash(w)

Settle == (\E c \in Cards : SettleIntent(c)) \/ (\E r \in Claims : SettleRefund(r))

Webhook ==
    \/ \E c \in Cards, e \in IntentEvents : PaymentIntentEvent(c, e)
    \/ \E r \in Claims, e \in RefundEvents : RefundUpdated(r, e)
    \/ \E c \in Cards : ChargeRefunded(c)

Replay == (\E c \in Cards : ReplayCharge(c)) \/ (\E r \in Claims : ReplayRefund(r))

Next == Staff \/ (\E w \in Workers : Serve(w)) \/ Settle \/ Webhook \/ Replay

Spec == Init /\ [][Next]_vars

-----------------------------------------------------------------------------
(* Properties *)

Challenged(c) == "requires_action" \in intent[c]
Refunded(r) == "succeeded" \in refund[r]

\* The ledger follows the provider and nothing else: a payment is captured
\* only when Stripe captured it, it is given up as failed or voided only when
\* Stripe did not (unless the guest authenticates later), a refund is booked
\* or given up only as Stripe reported it - however gateway answers, retries,
\* crashes and late, repeated or reordered webhooks interleave.
LedgerTruth ==
    /\ \A c \in Cards :
         /\ pay[c].status = "captured" => "succeeded" \in intent[c]
         /\ pay[c].status \in {"failed", "voided"} /\ ~Challenged(c) =>
              Final(intent[c]) /\ "succeeded" \notin intent[c]
    /\ \A r \in Claims : claim[r].type = "refund" =>
         /\ claim[r].status = "completed" => Refunded(r)
         /\ claim[r].status = "failed" => "failed" \in refund[r]

\* The installments of a request are backed by money that is still there:
\* the allocations of a payment never exceed what refunds have left of it, and
\* every installment shows the sum and the status of its own allocations.
AllocationsBacked ==
    /\ \A p \in Payments :
         Total(allocs, AllocatedOf(p)) <=
           (IF pay[p].status = "captured" THEN NetCaptured(claim, p) ELSE 0)
    /\ \A i \in Installments :
         /\ inst[i].allocated = Total(allocs, AllocatedTo(i))
         /\ inst[i].allocated <= inst[i].resolved
         /\ inst[i].status = StatusOf(inst[i].allocated, inst[i].resolved)

\* A return releases the newest allocations first, and no more than it has to:
\* when a row loses money, every newer row of its payment is gone and what is
\* left of the payment is still allocated to the last unit.
NewestReleasedFirst ==
    [][\A x \in Rows : allocs'[x].amount < allocs[x].amount =>
         /\ Total(allocs', AllocatedOf(x[1])) = NetCaptured(claim', x[1])
         /\ \A y \in Rows : x \in allocs[y].older => allocs'[y].amount = 0]_vars

\* Every fact about money is announced, with the event that matches it, and no
\* payment is announced both as received and as failed.
Announced ==
    told = {<<"payment.received", p>> : p \in {q \in Payments : pay[q].status = "captured"}}
           \cup {<<"payment.failed", p>> : p \in {q \in Payments : pay[q].status \in {"failed", "voided"}}}
           \cup {<<"payment.failed", r>> : r \in {q \in Claims : claim[q].status = "failed"}}
           \cup {<<"payment.refunded", r>> :
                   r \in {q \in Claims : claim[q].status = "completed" /\ claim[q].type # "retained"}}

\* Once the request is accepted all its money is on the guest's folio: every
\* payment and movement is linked, also those in flight when it was accepted,
\* and the folio's balance counts them.
FolioCredited ==
    request = "accepted" =>
      /\ \A p \in Payments : pay[p].status # "none" => pay[p].folio
      /\ \A r \in Claims : claim[r].status = "completed" /\ claim[r].type # "retained" => claim[r].folio
      /\ credit = Credit(pay, claim)

\* After a denial no card is charged and no money moves: not by a request that
\* was in flight, a retry, or an intent that was still processing.
NoMoneyAfterDenial ==
    [][request = "denied" =>
         /\ UNCHANGED <<request, pay, claim>>
         /\ \A c \in Cards : "succeeded" \in intent'[c] => "succeeded" \in intent[c] \/ Challenged(c)
         /\ \A r \in Claims : Refunded(r)' => Refunded(r)]_vars

\* What Stripe (or the till, for external payments) really holds of payment p,
\* and what the ledger says is retained of it.  A card payment that asked for
\* the guest's authentication is left out: it can be captured after a denial.
Held(p) ==
    IF p \in Externals
    THEN IF pay[p].status = "captured" THEN NetCaptured(claim, p) ELSE 0
    ELSE IF "succeeded" \notin intent[p] \/ Challenged(p) THEN 0
         ELSE Amount - Total(claim, {r \in Claims : claim[r].payment = p /\ Refunded(r)})

KeptOf(p) == IF p \in Cards /\ Challenged(p) THEN 0 ELSE Total(claim, Retained(claim, p))

Contract == INSTANCE GuestMoney WITH
    decision <- request,
    held <- [p \in Payments |-> Held(p)],
    kept <- [p \in Payments |-> KeptOf(p)]

\* Concurrent charges, refunds, returns, retentions and the decision implement
\* the contract of GuestMoney: in particular what Stripe holds at a denial was
\* retained on purpose, and no refund gives back the same money twice.
GuestMoneyKept == Contract!Spec

=============================================================================
