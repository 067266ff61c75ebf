---------------------------- MODULE GatewayPayment --------------------------
(***************************************************************************)
(* A card payment taken through a gateway: authorized for a desk or as the *)
(* deposit of an online booking, captured or voided, and refunded in       *)
(* parts.  The payments row is claimed by a conditional UPDATE before the  *)
(* gateway is called and put back when the call fails; refunds call the    *)
(* gateway first and book negative child rows afterwards.                  *)
(*                                                                         *)
(* Stripe's answer decides an authorization at once: an intent that is not *)
(* held by then fails the row.  Worldline may leave it to the guest - a    *)
(* bank challenge of a tokenized card, or a hosted checkout page - and the *)
(* row pending: Worldline's webhook, a status read when the guest returns  *)
(* and the expiry job compete to finish it.  Events arrive late, twice or  *)
(* never; holds expire, and captures and refunds are made at the provider  *)
(* without the hotel.  Folio balances, which follow each booking, are the  *)
(* subject of Folio.                                                       *)
(***************************************************************************)
EXTENDS Naturals, FiniteSets, FiniteSetsExt

CONSTANTS
    Workers,    \* concurrent requests and jobs
    Gateways,   \* ways to authorize: a subset of AllGateways
    Amount      \* the amount of the payment, in units

AllGateways == {"stripe", "tokenized", "hosted"}

ASSUME GatewayAssumption == Amount \in Nat \ {0} /\ Gateways \subseteq AllGateways

\* A refund is identified by its idempotency key, the total it brings the
\* refunds to; 0 stands for the one made in the dashboard.
Keys == 0 .. Amount

VARIABLES
    gateway,    \* how this payment is authorized
    pay,        \* status of the payments row
    children,   \* its refund rows
    intent,     \* status of the payment at the provider
    past,       \* statuses Worldline has sent or will send events on
    refunds,    \* refunds[k]: the amount the provider refunded under key k
    totals,     \* values of amount_refunded the provider has sent or will send
    heard,      \* the largest of them that was handled
    req,        \* req[w]: what request w is doing
    orphaned,   \* a request died between its claim and the answer
    linked,     \* the row carries the provider's id, which events are matched by
    refused,    \* payment_intent.payment_failed has failed the row
    deposits,   \* deposit ledger entries of the payment
    resv        \* status of the reservation the deposit is for

provider == <<intent, refunds, totals>>
booking == <<deposits, resv>>
marks == <<linked, refused>>
vars == <<gateway, pay, children, provider, past, heard, req, orphaned, marks, booking>>

Idle == [op |-> "none", pc |-> "idle", amount |-> 0, key |-> 0, ok |-> FALSE, got |-> "none"]

Child == [by : {"request", "webhook"}, key : 1 .. Amount, amount : 1 .. Amount]

IntentStatuses == {"none", "open", "challenged", "held", "captured", "canceled", "failed"}

Ops == {"none", "authorize", "capture", "void", "refund", "sync", "expire"}
Pcs == {"idle", "call", "answer", "deposit", "confirm", "read", "apply", "reread", "cancel", "drop"}

Request == [op : Ops, pc : Pcs, amount : 0 .. Amount, key : Keys, ok : BOOLEAN, got : IntentStatuses]

TypeOK ==
    /\ gateway \in Gateways
    /\ pay \in {"none", "pending", "authorized", "captured", "voided", "failed"}
    /\ children \subseteq Child
    /\ intent \in IntentStatuses /\ past \subseteq IntentStatuses
    /\ refunds \in [Keys -> 0 .. Amount]
    /\ totals \subseteq 1 .. Amount
    /\ heard \in 0 .. Amount
    /\ req \in [Workers -> Request]
    /\ orphaned \in BOOLEAN /\ linked \in BOOLEAN /\ refused \in BOOLEAN
    /\ deposits \in Nat
    /\ resv \in {"pending", "confirmed", "cancelled"}

Init ==
    /\ gateway \in Gateways
    /\ pay = "none" /\ children = {}
    /\ intent = "none" /\ past = {}
    /\ refunds = [k \in Keys |-> 0] /\ totals = {} /\ heard = 0
    /\ req = [w \in Workers |-> Idle]
    /\ orphaned = FALSE /\ linked = FALSE /\ refused = FALSE
    /\ deposits = 0 /\ resv = "pending"

\* sumRefundChildren: amounts are sums, counted unit by unit.
Booked == Cardinality({u \in children \X (1 .. Amount) : u[2] <= u[1].amount})
Refunded == Cardinality({u \in Keys \X (1 .. Amount) : u[2] <= refunds[u[1]]})

At(w, op, pc) == req[w].op = op /\ req[w].pc = pc
Begin(w, op, amount, key) ==
    req' = [req EXCEPT ![w] = [Idle EXCEPT !.op = op, !.pc = "call", !.amount = amount, !.key = key]]
Answered(w, ok) == req' = [req EXCEPT ![w].pc = "answer", ![w].ok = ok]
End(w) == req' = [req EXCEPT ![w] = Idle]

Goto(w, pc) == req' = [req EXCEPT ![w].pc = pc]

-----------------------------------------------------------------------------
(* authorizePayment: the gateway first, the row afterwards *)

Authorize(w) ==
    /\ req[w] = Idle /\ pay = "none" /\ intent = "none"
    /\ \A v \in Workers : req[v].op # "authorize"
    /\ Begin(w, "authorize", 0, 0)
    /\ UNCHANGED <<pay, children, provider, heard, orphaned, marks, booking>>

Answers ==
    CASE gateway = "stripe" -> {"held", "challenged", "failed"}
      [] gateway = "tokenized" -> {"challenged", "held", "captured", "failed"}
      [] gateway = "hosted" -> {"open", "failed"}

\* Any error of the call counts as a decline, the loss of the answer too.
CallAuthorize(w) ==
    /\ At(w, "authorize", "call")
    /\ intent' \in Answers
    /\ \E got \in {intent', "none"} :
         req' = [req EXCEPT ![w].pc = "answer", ![w].got = got]
    /\ UNCHANGED <<pay, children, refunds, totals, heard, orphaned, marks, booking>>

\* Stripe's authorization is to be held at once: any other status of the intent
\* fails the row, which keeps the intent's id.
Accepted(got) == got \notin {"none", "failed"} /\ (gateway = "stripe" => got = "held")

\* What the row says of an answer or a status of the provider.
Stored(got) ==
    CASE got = "held" -> "authorized"
      [] got = "captured" -> "captured"
      [] got \in {"open", "challenged"} -> "pending"
      [] got \in {"failed", "canceled"} -> "failed"

\* The checkout of a booking goes on with the deposit, unless the guest is
\* still to act.
InsertPayment(w) ==
    LET status == IF Accepted(req[w].got) THEN Stored(req[w].got) ELSE "failed"
    IN  /\ At(w, "authorize", "answer")
        /\ pay' = status
        /\ linked' = (req[w].got \notin {"none", "failed"})
        /\ \/ End(w)
           \/ status \in {"authorized", "captured"} /\ Goto(w, "deposit")
        /\ UNCHANGED <<children, provider, heard, orphaned, refused, booking>>

RecordDeposit(w) ==
    /\ At(w, "authorize", "deposit")
    /\ deposits' = deposits + 1
    /\ Goto(w, "confirm")
    /\ UNCHANGED <<pay, children, provider, heard, orphaned, marks, resv>>

\* Whether a paid booking is confirmed by itself is a setting of the property.
AutoConfirm == resv' = resv \/ (resv = "pending" /\ resv' = "confirmed")

ConfirmBooking(w) ==
    /\ At(w, "authorize", "confirm")
    /\ AutoConfirm
    /\ End(w)
    /\ UNCHANGED <<pay, children, provider, heard, orphaned, marks, deposits>>

-----------------------------------------------------------------------------
(* Hosted authorizations: the row is pending until one of three finishes it *)

\* Mutant: whoever comes last finishes the payment again.
FinalizeAgain(status) ==
    /\ pay' = status
    /\ deposits' = IF status = "failed" THEN deposits ELSE deposits + 1
    /\ IF status = "failed"
       THEN resv' = IF resv = "pending" THEN "cancelled" ELSE resv
       ELSE AutoConfirm

\* finalizeHostedAuthorization: one transaction, won by the conditional UPDATE.
Finalize(status) ==
    IF pay # "pending" THEN UNCHANGED <<pay, booking>>
    ELSE /\ pay' = status
         /\ \/ UNCHANGED booking            \* the desk's: no deposit to finish
            \/ /\ status = "failed"
               /\ resv' = IF resv = "pending" THEN "cancelled" ELSE resv
               /\ UNCHANGED deposits
            \/ /\ status # "failed"
               /\ deposits' = deposits + 1
               /\ AutoConfirm

\* Worldline's webhook, on a row that was inserted by then.
WorldlineEvent(e) ==
    /\ e \in past \cap {"held", "captured", "failed", "canceled"}
    /\ pay # "none"
    /\ Finalize(Stored(e))
    /\ UNCHANGED <<children, provider, heard, req, orphaned, marks>>

\* syncWorldlineHostedCheckout, called when the guest returns, by the desk, or
\* by expireWorldlineChallenge half an hour later.
StartSync(w, op) ==
    /\ req[w] = Idle /\ pay = "pending"
    /\ req' = [req EXCEPT ![w] = [Idle EXCEPT !.op = op, !.pc = "read"]]
    /\ UNCHANGED <<pay, children, provider, heard, orphaned, marks, booking>>

Undecided == intent \in {"open", "challenged"}

Read(w) ==
    /\ req[w].pc = "read"
    /\ \/ End(w)                    \* the status is unavailable
       \/ Undecided /\ IF req[w].op = "expire" THEN Goto(w, "reread") ELSE End(w)
       \/ ~Undecided /\ req' = [req EXCEPT ![w].pc = "apply", ![w].got = intent]
    /\ UNCHANGED <<pay, children, provider, heard, orphaned, marks, booking>>

Apply(w) ==
    /\ req[w].pc = "apply"
    /\ Finalize(Stored(req[w].got))
    /\ End(w)
    /\ UNCHANGED <<children, provider, heard, orphaned, marks>>

\* Mutant: a challenge is given up without cancelling it at the provider.
RereadNoCancel(w) ==
    /\ req[w].pc = "reread"
    /\ \/ End(w)
       \/ Undecided /\ req' = [req EXCEPT ![w].pc = "drop", ![w].got = intent]
    /\ UNCHANGED <<pay, children, provider, heard, orphaned, marks, booking>>

\* The expiry reads again; a payment that exists is cancelled at the provider
\* before its row is given up.
Reread(w) ==
    /\ req[w].pc = "reread"
    /\ \/ End(w)                    \* unavailable, or decided meanwhile
       \/ /\ Undecided
          /\ req' = [req EXCEPT ![w].pc = IF intent = "open" THEN "drop" ELSE "cancel",
                                ![w].got = intent]
    /\ UNCHANGED <<pay, children, provider, heard, orphaned, marks, booking>>

\* A refusal or a lost answer ends the job, which is tried again.
CancelChallenge(w) ==
    /\ req[w].pc = "cancel"
    /\ intent' = intent \/ (intent \in {"challenged", "held"} /\ intent' = "canceled")
    /\ End(w) \/ (intent' = "canceled" /\ Goto(w, "drop"))
    /\ UNCHANGED <<pay, children, refunds, totals, heard, orphaned, marks, booking>>

Drop(w) ==
    /\ req[w].pc = "drop"
    /\ Finalize("failed")
    /\ End(w)
    /\ UNCHANGED <<children, provider, heard, orphaned, marks>>

\* The guest opens the page, and answers the challenge or does not.  At Stripe
\* an attempt that fails leaves the intent open for another.
Guest ==
    /\ \/ intent = "open" /\ intent' \in {"challenged", "canceled"}
       \/ /\ intent = "challenged"
          /\ intent' \in IF gateway = "stripe" THEN {"held"} ELSE {"held", "captured", "failed"}
    /\ UNCHANGED <<pay, children, refunds, totals, heard, req, orphaned, marks, booking>>

\* Desk or guest cancel the booking meanwhile (module Stay).
CancelReservation ==
    /\ resv \in {"pending", "confirmed"}
    /\ resv' = "cancelled"
    /\ UNCHANGED <<pay, children, provider, heard, req, orphaned, marks, deposits>>

-----------------------------------------------------------------------------
(* capturePayment and voidPayment: claim, call, and put back on failure *)

Claim(w, op, status) ==
    /\ req[w] = Idle /\ pay = "authorized"
    /\ pay' = status
    /\ Begin(w, op, 0, 0)
    /\ UNCHANGED <<children, provider, heard, orphaned, marks, booking>>

ClaimCapture(w) == Claim(w, "capture", "captured")
ClaimVoid(w) == Claim(w, "void", "voided")

\* The provider moves a hold, or repeats what it answered under the same key;
\* every error, also the loss of its answer, is a failure to the caller.  A
\* capture that Worldline accepts is taken to be carried out.
Call(w, op, target) ==
    /\ At(w, op, "call")
    /\ intent' = intent \/ (intent = "held" /\ intent' = target)
    /\ \E ok \in BOOLEAN : (ok => intent' = target) /\ Answered(w, ok)
    /\ UNCHANGED <<pay, children, refunds, totals, heard, orphaned, marks, booking>>

CallCapture(w) == Call(w, "capture", "captured")
CallVoid(w) == Call(w, "void", "canceled")

\* Mutant: a failed call leaves the claim.
FinishUnreverted(w, op) ==
    /\ At(w, op, "answer")
    /\ End(w)
    /\ UNCHANGED <<pay, children, provider, heard, orphaned, marks, booking>>

\* The row is put back by its id, whatever it says by now.
Finish(w, op) ==
    /\ At(w, op, "answer")
    /\ pay' = IF req[w].ok THEN pay ELSE "authorized"
    /\ End(w)
    /\ UNCHANGED <<children, provider, heard, orphaned, marks, booking>>

FinishCapture(w) == Finish(w, "capture")
FinishVoid(w) == Finish(w, "void")

-----------------------------------------------------------------------------
(* refundPayment *)

\* Mutant: what was refunded before is not subtracted.
StartRefundUnchecked(w, amount) ==
    /\ req[w] = Idle /\ pay = "captured"
    /\ Begin(w, "refund", amount, Booked + amount)
    /\ UNCHANGED <<pay, children, provider, heard, orphaned, marks, booking>>

\* A transaction that reads and checks under the lock of the parent row; the
\* key is the total this refund would reach.
StartRefund(w, amount) ==
    /\ req[w] = Idle /\ pay = "captured"
    /\ amount <= Amount - Booked
    /\ Begin(w, "refund", amount, Booked + amount)
    /\ UNCHANGED <<pay, children, provider, heard, orphaned, marks, booking>>

\* The provider refunds once under a key and refuses one used for another
\* amount, or more than is left of the charge.
ProviderRefund(k, amount) ==
    /\ intent = "captured" /\ refunds[k] = 0
    /\ Refunded + amount <= Amount
    /\ refunds' = [refunds EXCEPT ![k] = amount]
    /\ totals' = totals \cup {Refunded + amount}

CallRefund(w) ==
    /\ At(w, "refund", "call")
    /\ \/ ProviderRefund(req[w].key, req[w].amount)
       \/ UNCHANGED <<refunds, totals>>
    /\ \E ok \in BOOLEAN : (ok => refunds'[req[w].key] = req[w].amount) /\ Answered(w, ok)
    /\ UNCHANGED <<pay, children, intent, heard, orphaned, marks, booking>>

Book(by, key, amount) == children' = children \cup {[by |-> by, key |-> key, amount |-> amount]}

\* Mutant: the refund is booked in full, whatever was booked meanwhile.
FinishRefundInFull(w) ==
    /\ At(w, "refund", "answer")
    /\ IF req[w].ok THEN Book("request", req[w].key, req[w].amount) ELSE UNCHANGED children
    /\ End(w)
    /\ UNCHANGED <<pay, provider, heard, orphaned, marks, booking>>

\* The second transaction, under the lock again: what another request or the
\* webhook has booked since is not booked twice.
FinishRefund(w) ==
    LET q == req[w]
        known == \E c \in children : c.by = "request" /\ c.key = q.key
    IN  /\ At(w, "refund", "answer")
        /\ \/ /\ q.ok /\ ~known /\ Booked < q.key
              /\ Book("request", q.key, Min({q.amount, q.key - Booked}))
           \/ /\ ~q.ok \/ known \/ Booked >= q.key
              /\ UNCHANGED children
        /\ End(w)
        /\ UNCHANGED <<pay, provider, heard, orphaned, marks, booking>>

Crash(w) ==
    /\ req[w] # Idle
    /\ orphaned' = (orphaned \/ req[w].op \in {"capture", "void"})
    /\ End(w)
    /\ UNCHANGED <<pay, children, provider, heard, marks, booking>>

-----------------------------------------------------------------------------
(* The provider by itself, and its webhooks *)

\* A hold runs out; an intent that waits for the guest can be cancelled too.
Expire ==
    /\ intent = "held" \/ (gateway = "stripe" /\ intent = "challenged")
    /\ intent' = "canceled"
    /\ UNCHANGED <<pay, children, refunds, totals, heard, req, orphaned, marks, booking>>

CaptureInDashboard ==
    /\ intent = "held"
    /\ intent' = "captured"
    /\ UNCHANGED <<pay, children, refunds, totals, heard, req, orphaned, marks, booking>>

RefundInDashboard(amount) ==
    /\ ProviderRefund(0, amount)
    /\ UNCHANGED <<pay, children, intent, heard, req, orphaned, marks, booking>>

\* payment_intent.succeeded and .canceled write the status by id, also over
\* 'failed'.
PaymentIntentSucceeded ==
    /\ gateway = "stripe" /\ linked /\ intent = "captured"
    /\ pay' = "captured"
    /\ UNCHANGED <<children, provider, heard, req, orphaned, marks, booking>>

PaymentIntentCanceled ==
    /\ gateway = "stripe" /\ linked /\ intent = "canceled"
    /\ pay' = "voided"
    /\ UNCHANGED <<children, provider, heard, req, orphaned, marks, booking>>

\* payment_intent.payment_failed reports an attempt, not the intent: it may be
\* handled whatever the intent says by then, and fails the row by its id.
PaymentIntentFailed ==
    /\ gateway = "stripe" /\ linked /\ pay # "failed"
    /\ pay' = "failed" /\ refused' = TRUE
    /\ UNCHANGED <<children, provider, heard, req, orphaned, linked, booking>>

\* charge.refunded carries the cumulative amount: the difference is booked.
\* The handler divides minor units by 100 for every currency; a unit stands for
\* one amount of a currency with two decimals.
ChargeRefunded(total) ==
    /\ gateway = "stripe" /\ linked /\ total \in totals
    /\ \/ /\ \A c \in children : ~(c.by = "webhook" /\ c.key = total)
          /\ Booked < total
          /\ Book("webhook", total, total - Booked)
       \/ /\ (\E c \in children : c.by = "webhook" /\ c.key = total) \/ Booked >= total
          /\ UNCHANGED children
    /\ heard' = Max({heard, total})
    /\ UNCHANGED <<pay, provider, req, orphaned, marks, booking>>

Serve(w) ==
    \/ Authorize(w) \/ CallAuthorize(w) \/ InsertPayment(w)
    \/ RecordDeposit(w) \/ ConfirmBooking(w)
    \/ \E op \in {"sync", "expire"} : StartSync(w, op)
    \/ Read(w) \/ Apply(w) \/ Reread(w) \/ CancelChallenge(w) \/ Drop(w)
    \/ ClaimCapture(w) \/ CallCapture(w) \/ FinishCapture(w)
    \/ ClaimVoid(w) \/ CallVoid(w) \/ FinishVoid(w)
    \/ \E amount \in 1 .. Amount : StartRefund(w, amount)
    \/ CallRefund(w)
    \/ FinishRefund(w)
    \/ Crash(w)

Provider ==
    \/ Expire \/ CaptureInDashboard
    \/ PaymentIntentSucceeded \/ PaymentIntentCanceled \/ PaymentIntentFailed
    \/ \E n \in 1 .. Amount : RefundInDashboard(n) \/ ChargeRefunded(n)
    \/ \E e \in IntentStatuses : WorldlineEvent(e)

Next ==
    /\ (\E w \in Workers : Serve(w)) \/ Provider \/ Guest \/ CancelReservation
    /\ past' = IF gateway = "stripe" THEN {} ELSE past \cup {intent'}
    /\ UNCHANGED gateway

Spec == Init /\ [][Next]_vars

-----------------------------------------------------------------------------
(* Properties *)

\* The refunds in the ledger are refunds of the provider: never more than it
\* has paid back, never less than the last total it reported - with concurrent
\* partial refunds, answers that are lost, requests that die before booking,
\* refunds from the dashboard, and late or repeated webhooks.
RefundsReconciled == heard <= Booked /\ Booked <= Refunded

Claiming(op) == \E w \in Workers : req[w].op = op

\* A row that says captured or voided is right about the provider, or a request
\* is still to find out, or died while it was to.
PaymentTruth ==
    /\ pay = "captured" => intent = "captured" \/ Claiming("capture") \/ orphaned
    /\ pay = "voided" => intent = "canceled" \/ Claiming("void") \/ orphaned

\* A deposit is recorded once, for a payment that was authorized, and a booking
\* is confirmed by itself only with its deposit - though webhook, status read
\* and expiry finish the same payment, and the guest may cancel meanwhile.  The
\* deposit's row says failed only when payment_intent.payment_failed said so.
DepositBacked ==
    /\ deposits <= 1
    /\ deposits = 1 => \/ pay \in {"authorized", "captured", "voided"}
                       \/ pay = "failed" /\ refused
    /\ resv = "confirmed" => deposits = 1

\* When a pending payment is given up nothing can stay on the guest's card: it
\* was refused or cancelled for good at the provider, also if the guest
\* answered the challenge between the reads of the expiry and its end.  The
\* exception is a checkout page without a payment when it was last read.
NothingStranded ==
    [][pay = "pending" /\ pay' = "failed" =>
         \/ intent \in {"failed", "canceled"}
         \/ \E w \in Workers : req[w].pc = "drop" /\ req[w].got = "open"]_vars
=============================================================================
