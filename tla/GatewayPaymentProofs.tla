------------------------ MODULE GatewayPaymentProofs ------------------------
(***************************************************************************)
(* The safety properties of GatewayPayment, for every amount, every set of *)
(* requests and every choice of gateways.                                  *)
(*                                                                         *)
(* Two halves.  Of the card: captured, canceled and failed are final at    *)
(* the provider, so what a request or an event knows of them is still so   *)
(* when the row is written (CardInv).  Of the refunds: a key is the total  *)
(* its refund would reach on top of what was booked, and what is booked    *)
(* has been paid back, so a provider that refunded under a key has reached *)
(* that total (LedgerInv).                                                 *)
(***************************************************************************)
EXTENDS GatewayPayment, FiniteSetTheorems, TLAPS

-----------------------------------------------------------------------------
(* Requests *)

LEMMA IdleRequest ==
    /\ Idle \in Request
    /\ Idle.op = "none" /\ Idle.pc = "idle"
BY GatewayAssumption DEF Idle, Request, Ops, Pcs, Keys, IntentStatuses

\* The request of w is replaced by q, the others are as they were.
Replaced(w, q) ==
    /\ req'[w] = q
    /\ \A v \in Workers \ {w} : req'[v] = req[v]
    /\ req' \in [Workers -> Request]

LEMMA Replace ==
    ASSUME TypeOK, NEW w \in Workers, NEW q \in Request, req' = [req EXCEPT ![w] = q]
    PROVE  Replaced(w, q)
BY DEF TypeOK, Replaced

LEMMA EndRequest ==
    ASSUME TypeOK, NEW w \in Workers, End(w)
    PROVE  Replaced(w, Idle)
BY Replace, IdleRequest DEF End

LEMMA GotoRequest ==
    ASSUME TypeOK, NEW w \in Workers, NEW pc \in Pcs, Goto(w, pc)
    PROVE  /\ Replaced(w, req'[w])
           /\ req'[w].pc = pc /\ req'[w].op = req[w].op /\ req'[w].got = req[w].got
<1> DEFINE q == [req[w] EXCEPT !.pc = pc]
<1>1. req[w] \in Request
  BY DEF TypeOK
<1>2. q \in Request /\ q.pc = pc /\ q.op = req[w].op /\ q.got = req[w].got
  BY <1>1 DEF Request
<1>3. req' = [req EXCEPT ![w] = q]
  BY DEF Goto
<1> HIDE DEF q
<1>4. Replaced(w, q)
  BY <1>2, <1>3, Replace
<1> QED BY <1>2, <1>4 DEF Replaced

LEMMA BeginRequest ==
    ASSUME TypeOK, NEW w \in Workers, NEW op \in Ops, NEW amount \in 0 .. Amount, NEW key \in Keys,
           Begin(w, op, amount, key)
    PROVE  /\ Replaced(w, req'[w])
           /\ req'[w].pc = "call" /\ req'[w].op = op /\ req'[w].amount = amount /\ req'[w].key = key
<1> DEFINE q == [Idle EXCEPT !.op = op, !.pc = "call", !.amount = amount, !.key = key]
<1>1. q \in Request /\ q.pc = "call" /\ q.op = op /\ q.amount = amount /\ q.key = key
  BY IdleRequest DEF Request, Pcs
<1>2. req' = [req EXCEPT ![w] = q]
  BY DEF Begin
<1> HIDE DEF q
<1>3. Replaced(w, q)
  BY <1>1, <1>2, Replace
<1> QED BY <1>1, <1>3 DEF Replaced

LEMMA AnsweredRequest ==
    ASSUME TypeOK, NEW w \in Workers, NEW ok \in BOOLEAN, Answered(w, ok)
    PROVE  /\ Replaced(w, req'[w])
           /\ req'[w].pc = "answer" /\ req'[w].op = req[w].op /\ (req'[w].ok <=> ok)
           /\ req'[w].amount = req[w].amount /\ req'[w].key = req[w].key
<1> DEFINE q == [req[w] EXCEPT !.pc = "answer", !.ok = ok]
<1>1. req[w] \in Request
  BY DEF TypeOK
<1>2. q \in Request /\ q.pc = "answer" /\ q.op = req[w].op /\ q.amount = req[w].amount /\ q.key = req[w].key
  BY <1>1 DEF Request, Pcs
<1>3. q.ok = ok
  BY <1>1 DEF Request
<1>4. req' = [req EXCEPT ![w] = q]
  BY DEF Answered
<1> HIDE DEF q
<1>5. Replaced(w, q)
  BY <1>2, <1>4, Replace
<1> QED BY <1>2, <1>3, <1>5 DEF Replaced

-----------------------------------------------------------------------------
(* What the requests know, and the row says, of the payment *)

\* A status the provider does not take back.
Final == {"captured", "canceled", "failed"}

\* The row of a payment that was authorized.
Taken == {"authorized", "captured", "voided"}

\* It may have been failed since, by payment_intent.payment_failed only.
Backed == pay \in Taken \/ (pay = "failed" /\ refused)

\* There is one authorization, and its row is its own until it has inserted it.
Authorizing(w) ==
    req[w].op = "authorize" =>
        /\ req[w].pc = "call" => intent = "none"
        /\ req[w].pc \in {"call", "answer"} => pay = "none"
        /\ req[w].pc = "answer" /\ req[w].got # "none" =>
             /\ intent # "none"
             /\ req[w].got \in Final => intent = req[w].got
        /\ req[w].pc = "deposit" => Backed /\ deposits = 0
        /\ req[w].pc = "confirm" => Backed /\ deposits = 1

\* A capture or void holds an authorized row, and a good answer is final.
Claimed(w) ==
    req[w].op \in {"capture", "void"} =>
        /\ Backed
        /\ req[w].pc = "answer" /\ req[w].ok =>
             intent = IF req[w].op = "capture" THEN "captured" ELSE "canceled"

\* What a status read or the expiry is about to write is so for good.
Syncing(w) ==
    /\ req[w].op \in {"sync", "expire"} => intent # "none"
    /\ req[w].pc \in {"read", "apply", "reread", "cancel", "drop"} => req[w].op \in {"sync", "expire"}
    /\ req[w].pc = "apply" =>
         /\ req[w].got \notin {"none", "open", "challenged"}
         /\ req[w].got \in Final => intent = req[w].got
    /\ req[w].pc = "drop" => req[w].got = "open" \/ intent = "canceled"

OneAuthorizes ==
    \A v, w \in Workers : req[v].op = "authorize" /\ req[w].op = "authorize" => v = w

PastTrue == \A e \in past : e \in Final => intent = e

PendingSent == pay = "pending" => intent # "none"

\* A row with an id was inserted, and Stripe never leaves it pending.
RowInv ==
    /\ linked => pay # "none"
    /\ pay = "pending" => gateway # "stripe"

CardInv ==
    /\ OneAuthorizes
    /\ \A w \in Workers : Authorizing(w) /\ Claimed(w) /\ Syncing(w)
    /\ PastTrue
    /\ PendingSent
    /\ PaymentTruth
    /\ DepositBacked

PayStatuses == {"none", "pending", "authorized", "captured", "voided", "failed"}

CardType ==
    /\ pay \in PayStatuses
    /\ intent \in IntentStatuses
    /\ req \in [Workers -> Request]
    /\ orphaned \in BOOLEAN
    /\ deposits \in Nat
    /\ resv \in {"pending", "confirmed", "cancelled"}

\* What every step respects ...
Gentle ==
    /\ intent \in Final => intent' = intent
    /\ intent # "none" => intent' # "none"
    /\ Backed => Backed'

\* ... and every step but the authorization's own.
Apart ==
    /\ intent = "none" => intent' = "none"
    /\ pay = "none" => pay' = "none"
    /\ pay # "pending" => deposits' = deposits

\* A request a step does not touch still knows what it knew.
LEMMA Undisturbed ==
    ASSUME TypeOK, CardInv, Gentle, NEW v \in Workers, req'[v] = req[v],
           req[v].op = "authorize" => Apart
    PROVE  Authorizing(v)' /\ Claimed(v)' /\ Syncing(v)'
<1>1. Authorizing(v) /\ Claimed(v) /\ Syncing(v)
  BY DEF CardInv
<1>2. Authorizing(v)'
  BY <1>1 DEF Authorizing, Gentle, Apart, Backed, Taken, marks
<1>3. Claimed(v)'
  BY <1>1 DEF Claimed, Gentle, Final
<1>4. Syncing(v)'
  BY <1>1 DEF Syncing, Gentle, Final
<1> QED BY <1>2, <1>3, <1>4

LEMMA IdleKnows ==
    ASSUME NEW w \in Workers, req'[w] = Idle
    PROVE  Authorizing(w)' /\ Claimed(w)' /\ Syncing(w)'
BY IdleRequest DEF Authorizing, Claimed, Syncing

\* A step of request w that is no new authorization.
LEMMA StepOfOne ==
    ASSUME TypeOK, CardInv, Gentle, NEW w \in Workers,
           \A v \in Workers \ {w} : req'[v] = req[v],
           req'[w].op = "authorize" => req[w].op = "authorize",
           req[w].op = "authorize" \/ Apart,
           Authorizing(w)' /\ Claimed(w)' /\ Syncing(w)',
           past' \subseteq past \cup {intent'},
           PendingSent', PaymentTruth', DepositBacked'
    PROVE  CardInv'
<1>1. OneAuthorizes'
  BY DEF CardInv, OneAuthorizes
<1>2. ASSUME NEW v \in Workers PROVE Authorizing(v)' /\ Claimed(v)' /\ Syncing(v)'
  <2>1. CASE v # w
    BY <2>1, Undisturbed DEF CardInv, OneAuthorizes
  <2> QED BY <2>1
<1>3. PastTrue'
  BY DEF CardInv, PastTrue, Gentle
<1> QED BY <1>1, <1>2, <1>3 DEF CardInv

\* A step of nobody's: the provider, the guest, a webhook.
LEMMA StepOfNobody ==
    ASSUME TypeOK, CardInv, Gentle, Apart, req' = req, past' \subseteq past \cup {intent'},
           PendingSent', PaymentTruth', DepositBacked'
    PROVE  CardInv'
<1>1. OneAuthorizes'
  BY DEF CardInv, OneAuthorizes
<1>2. ASSUME NEW v \in Workers PROVE Authorizing(v)' /\ Claimed(v)' /\ Syncing(v)'
  BY Undisturbed
<1>3. PastTrue'
  BY DEF CardInv, PastTrue, Gentle
<1> QED BY <1>1, <1>2, <1>3 DEF CardInv

\* Nothing is claimed for nothing: the row stays right while claims stay and
\* the provider does not go back on a final status.
LEMMA TruthKept ==
    ASSUME CardInv, Gentle, pay' = pay, orphaned => orphaned',
           \A v \in Workers : req[v].op \in {"capture", "void"} => req'[v].op = req[v].op \/ orphaned'
    PROVE  PaymentTruth'
BY DEF CardInv, PaymentTruth, Claiming, Gentle, Final

\* A step of request w that leaves the row and the booking alone, and the
\* payment at the provider too or for a later status.
LEMMA RowUntouched ==
    ASSUME TypeOK, CardInv, Gentle, NEW w \in Workers, UNCHANGED <<pay, orphaned, marks, booking>>,
           \A v \in Workers \ {w} : req'[v] = req[v],
           req'[w].op # req[w].op => req[w].op \notin {"capture", "void"} /\ req'[w].op # "authorize",
           req[w].op = "authorize" \/ (intent = "none" => intent' = "none"),
           Authorizing(w)' /\ Claimed(w)' /\ Syncing(w)',
           past' \subseteq past \cup {intent'}
    PROVE  CardInv'
<1>1. PendingSent' /\ DepositBacked'
  BY DEF CardInv, PendingSent, DepositBacked, Gentle, Backed, Taken, booking, marks
<1>2. PaymentTruth'
  BY TruthKept
<1>3. req[w].op = "authorize" \/ Apart
  BY DEF Apart, booking
<1> QED BY <1>1, <1>2, <1>3, StepOfOne

LEMMA AuthorizeCard ==
    ASSUME TypeOK, CardInv, NEW w \in Workers, Authorize(w), past' \subseteq past \cup {intent'}
    PROVE  CardInv' /\ CardType'
<1>1. Replaced(w, req'[w]) /\ req'[w].pc = "call" /\ req'[w].op = "authorize"
  BY BeginRequest, GatewayAssumption DEF Authorize, Ops, Keys
<1>2. UNCHANGED <<pay, intent, orphaned, refused, deposits, resv>> /\ pay = "none" /\ intent = "none" /\ req[w].op = "none"
  BY IdleRequest DEF Authorize, provider, marks, booking
<1>3. OneAuthorizes'
  BY <1>1 DEF Authorize, OneAuthorizes, Replaced
<1>4. Gentle /\ Apart
  BY <1>2 DEF Gentle, Backed, Taken, Apart, marks
<1>5. ASSUME NEW v \in Workers PROVE Authorizing(v)' /\ Claimed(v)' /\ Syncing(v)'
  <2>1. CASE v = w
    BY <1>1, <1>2, <2>1 DEF Authorizing, Claimed, Syncing
  <2>2. CASE v # w
    BY <1>1, <1>4, <2>2, Undisturbed DEF Replaced
  <2> QED BY <2>1, <2>2
<1>6. PastTrue' /\ PendingSent' /\ DepositBacked'
  BY <1>2 DEF CardInv, PastTrue, PendingSent, DepositBacked
<1>7. PaymentTruth'
  BY <1>1, <1>2, <1>4, TruthKept DEF Replaced
<1>8. CardType'
  BY <1>1, <1>2 DEF TypeOK, CardType, PayStatuses, Replaced
<1> QED BY <1>3, <1>5, <1>6, <1>7, <1>8 DEF CardInv

LEMMA CallAuthorizeCard ==
    ASSUME TypeOK, CardInv, NEW w \in Workers, CallAuthorize(w), past' \subseteq past \cup {intent'}
    PROVE  CardInv' /\ CardType'
<1>1. req[w].op = "authorize" /\ req[w].pc = "call" /\ intent = "none" /\ pay = "none" /\ req[w] \in Request
  BY DEF TypeOK, CardInv, Authorizing, CallAuthorize, At
<1>2. intent' \in {"challenged", "held", "captured", "failed", "open"}
  BY GatewayAssumption DEF TypeOK, CallAuthorize, Answers, AllGateways
<1>3. PICK got \in {intent', "none"} : req' = [req EXCEPT ![w].pc = "answer", ![w].got = got]
  BY DEF CallAuthorize
<1> DEFINE q == [req[w] EXCEPT !.pc = "answer", !.got = got]
<1>4. q \in Request /\ q.pc = "answer" /\ q.op = "authorize" /\ q.got \in {intent', "none"}
  BY <1>1, <1>2 DEF Request, Pcs, IntentStatuses
<1>5. req' = [req EXCEPT ![w] = q]
  BY <1>3
<1> HIDE DEF q
<1>6. Replaced(w, q)
  BY <1>4, <1>5, Replace
<1>7. Gentle
  BY <1>1, <1>2 DEF Gentle, Backed, Taken, Final, CallAuthorize, marks
<1>8. UNCHANGED <<pay, orphaned, marks, booking>>
  BY DEF CallAuthorize
<1>9. Authorizing(w)' /\ Claimed(w)' /\ Syncing(w)'
  BY <1>1, <1>2, <1>4, <1>6, <1>8 DEF Replaced, Authorizing, Claimed, Syncing
<1>10. CardType'
  BY <1>2, <1>6, <1>8 DEF TypeOK, CardType, PayStatuses, IntentStatuses, Replaced, booking
<1> QED BY <1>1, <1>4, <1>6, <1>7, <1>8, <1>9, <1>10, RowUntouched DEF Replaced

\* What the row may say of a status, and when it is taken or given up.
LEMMA StoredStatus ==
    ASSUME NEW got \in IntentStatuses \ {"none"}
    PROVE  /\ Stored(got) \in {"pending", "authorized", "captured", "failed"}
           /\ Stored(got) = "captured" <=> got = "captured"
           /\ Stored(got) = "failed" <=> got \in {"failed", "canceled"}
           /\ Stored(got) = "pending" <=> got \in {"open", "challenged"}
BY DEF Stored, IntentStatuses

LEMMA InsertPaymentCard ==
    ASSUME TypeOK, CardInv, NEW w \in Workers, InsertPayment(w), past' \subseteq past \cup {intent'}
    PROVE  CardInv' /\ CardType' /\ pay = "none"
<1>1. /\ req[w].op = "authorize" /\ req[w].pc = "answer" /\ pay = "none" /\ req[w] \in Request
      /\ deposits = 0 /\ resv # "confirmed" /\ Authorizing(w)
  BY DEF TypeOK, CardInv, Authorizing, DepositBacked, InsertPayment, At
<1> DEFINE status == IF Accepted(req[w].got) THEN Stored(req[w].got) ELSE "failed"
<1>2. /\ status \in {"pending", "authorized", "captured", "failed"}
      /\ status = "captured" => intent = "captured"
      /\ status = "pending" => intent # "none"
  <2>1. Accepted(req[w].got) => req[w].got \in IntentStatuses \ {"none"} /\ intent # "none"
    BY <1>1 DEF Request, Authorizing, Accepted
  <2>2. Accepted(req[w].got) /\ req[w].got = "captured" => intent = "captured"
    BY <1>1 DEF Authorizing, Final, Accepted
  <2> QED BY <2>1, <2>2, StoredStatus
<1>3. pay' = status /\ UNCHANGED <<intent, orphaned, refused, deposits, resv>>
  BY DEF InsertPayment, provider, booking
<1>4. End(w) \/ (status \in {"authorized", "captured"} /\ Goto(w, "deposit"))
  BY DEF InsertPayment
<1> HIDE DEF status
<1>5. \/ Replaced(w, Idle)
      \/ Replaced(w, req'[w]) /\ req'[w].pc = "deposit" /\ req'[w].op = "authorize" /\ Backed'
  BY <1>1, <1>3, <1>4, EndRequest, GotoRequest DEF Pcs, Taken, Backed
<1>6. Authorizing(w)' /\ Claimed(w)' /\ Syncing(w)'
  BY <1>1, <1>3, <1>5, IdleKnows DEF Replaced, Authorizing, Claimed, Syncing
<1>7. Gentle
  BY <1>1, <1>3 DEF Gentle, Backed, Taken, marks
<1>8. PendingSent' /\ DepositBacked' /\ PaymentTruth'
  BY <1>1, <1>2, <1>3 DEF PendingSent, DepositBacked, PaymentTruth
<1>9. CardInv'
  BY <1>1, <1>5, <1>6, <1>7, <1>8, IdleRequest, StepOfOne DEF Replaced
<1>10. CardType'
  BY <1>2, <1>3, <1>5 DEF TypeOK, CardType, PayStatuses, Replaced
<1> QED BY <1>1, <1>9, <1>10

LEMMA RecordDepositCard ==
    ASSUME TypeOK, CardInv, NEW w \in Workers, RecordDeposit(w), past' \subseteq past \cup {intent'}
    PROVE  CardInv' /\ CardType'
<1>1. req[w].op = "authorize" /\ req[w].pc = "deposit" /\ Backed /\ deposits = 0
  BY DEF CardInv, Authorizing, RecordDeposit, At
<1>2. UNCHANGED <<pay, intent, orphaned, refused, resv>> /\ deposits' = 1
  BY <1>1 DEF RecordDeposit, provider, marks
<1>3. Replaced(w, req'[w]) /\ req'[w].pc = "confirm" /\ req'[w].op = "authorize"
  BY <1>1, GotoRequest DEF RecordDeposit, Pcs
<1>4. Authorizing(w)' /\ Claimed(w)' /\ Syncing(w)'
  BY <1>1, <1>2, <1>3 DEF Authorizing, Claimed, Syncing, Backed, Taken, marks
<1>5. Gentle
  BY <1>2 DEF Gentle, Backed, Taken, marks
<1>6. PendingSent' /\ DepositBacked'
  BY <1>1, <1>2 DEF CardInv, PendingSent, DepositBacked, Taken, Backed
<1>7. PaymentTruth'
  BY <1>1, <1>2, <1>3, <1>5, TruthKept DEF Replaced
<1>8. CardInv'
  BY <1>1, <1>3, <1>4, <1>5, <1>6, <1>7, StepOfOne DEF Replaced
<1>9. CardType'
  BY <1>2, <1>3 DEF TypeOK, CardType, PayStatuses, Replaced
<1> QED BY <1>8, <1>9

LEMMA ConfirmBookingCard ==
    ASSUME TypeOK, CardInv, NEW w \in Workers, ConfirmBooking(w), past' \subseteq past \cup {intent'}
    PROVE  CardInv' /\ CardType'
<1>1. req[w].op = "authorize" /\ req[w].pc = "confirm" /\ Backed /\ deposits = 1
  BY DEF CardInv, Authorizing, ConfirmBooking, At
<1>2. UNCHANGED <<pay, intent, orphaned, refused, deposits>> /\ (resv' = resv \/ resv' = "confirmed")
  BY DEF ConfirmBooking, AutoConfirm, provider, marks
<1>3. Replaced(w, Idle)
  BY EndRequest DEF ConfirmBooking
<1>4. Authorizing(w)' /\ Claimed(w)' /\ Syncing(w)'
  BY <1>3, IdleKnows DEF Replaced
<1>5. Gentle
  BY <1>2 DEF Gentle, Backed, Taken, marks
<1>6. PendingSent' /\ DepositBacked'
  BY <1>1, <1>2 DEF CardInv, PendingSent, DepositBacked
<1>7. PaymentTruth'
  BY <1>1, <1>2, <1>3, <1>5, TruthKept DEF Replaced
<1>8. CardInv'
  BY <1>1, <1>3, <1>4, <1>5, <1>6, <1>7, IdleRequest, StepOfOne DEF Replaced
<1>9. CardType'
  BY <1>2, <1>3 DEF TypeOK, CardType, PayStatuses, Replaced
<1> QED BY <1>8, <1>9

\* finalizeHostedAuthorization, whoever calls it, with a status that is so.
LEMMA Finalized ==
    ASSUME TypeOK, CardInv, NEW status \in {"authorized", "captured", "failed"}, Finalize(status),
           status = "captured" => intent = "captured",
           UNCHANGED <<intent, orphaned, refused>>,
           \A v \in Workers : req[v].op \in {"capture", "void"} => req'[v].op = req[v].op
    PROVE  /\ Gentle /\ Apart /\ PendingSent' /\ DepositBacked' /\ PaymentTruth'
           /\ pay' \in PayStatuses /\ deposits' \in Nat /\ resv' \in {"pending", "confirmed", "cancelled"}
<1>1. CASE pay # "pending"
  <2>1. UNCHANGED <<pay, deposits, resv>>
    BY <1>1 DEF Finalize, booking
  <2>2. Gentle /\ Apart /\ PendingSent' /\ DepositBacked'
    BY <2>1 DEF CardInv, Gentle, Backed, Taken, Apart, PendingSent, DepositBacked
  <2> QED BY <2>1, <2>2, TruthKept DEF TypeOK, PayStatuses
<1>2. CASE pay = "pending"
  <2>1. deposits = 0 /\ resv # "confirmed" /\ pay' = status
    BY <1>2 DEF CardInv, DepositBacked, TypeOK, Finalize
  <2>2. \/ deposits' = 0 /\ (resv' = resv \/ resv' = "cancelled")
        \/ status # "failed" /\ deposits' = 1 /\ (resv' = resv \/ resv' = "confirmed")
    BY <1>2, <2>1 DEF Finalize, AutoConfirm, booking
  <2>3. Gentle /\ Apart /\ PendingSent' /\ PaymentTruth'
    BY <1>2, <2>1 DEF Gentle, Backed, Apart, PendingSent, PaymentTruth, Taken, marks
  <2>4. DepositBacked'
    BY <2>1, <2>2 DEF DepositBacked
  <2> QED BY <2>1, <2>2, <2>3, <2>4 DEF TypeOK, PayStatuses
<1> QED BY <1>1, <1>2

LEMMA ApplyCard ==
    ASSUME TypeOK, CardInv, NEW w \in Workers, Apply(w), past' \subseteq past \cup {intent'}
    PROVE  CardInv' /\ CardType'
<1>1. /\ req[w] \in Request /\ req[w].op \in {"sync", "expire"}
      /\ req[w].got \in {"held", "captured", "canceled", "failed"}
      /\ req[w].got = "captured" => intent = "captured"
  BY DEF TypeOK, CardInv, Syncing, Apply, Final, Request, IntentStatuses
<1>2. Stored(req[w].got) \in {"authorized", "captured", "failed"}
      /\ (Stored(req[w].got) = "captured" => intent = "captured")
  BY <1>1, StoredStatus DEF IntentStatuses
<1>3. Replaced(w, Idle)
  BY EndRequest DEF Apply
<1>4. UNCHANGED <<intent, orphaned, refused>> /\ Finalize(Stored(req[w].got))
  BY DEF Apply, provider, marks
<1>5. \A v \in Workers : req[v].op \in {"capture", "void"} => req'[v].op = req[v].op
  BY <1>1, <1>3 DEF Replaced
<1>6. /\ Gentle /\ Apart /\ PendingSent' /\ DepositBacked' /\ PaymentTruth'
      /\ pay' \in PayStatuses /\ deposits' \in Nat /\ resv' \in {"pending", "confirmed", "cancelled"}
  BY <1>2, <1>4, <1>5, Finalized
<1>7. CardInv'
  BY <1>3, <1>6, IdleKnows, IdleRequest, StepOfOne DEF Replaced
<1>8. CardType'
  BY <1>3, <1>4, <1>6 DEF TypeOK, CardType, Replaced
<1> QED BY <1>7, <1>8

LEMMA DropCard ==
    ASSUME TypeOK, CardInv, NEW w \in Workers, Drop(w), past' \subseteq past \cup {intent'}
    PROVE  CardInv' /\ CardType'
<1>1. req[w].op \in {"sync", "expire"}
  BY DEF CardInv, Syncing, Drop
<1>2. Replaced(w, Idle)
  BY EndRequest DEF Drop
<1>3. UNCHANGED <<intent, orphaned, refused>> /\ Finalize("failed")
  BY DEF Drop, provider, marks
<1>4. \A v \in Workers : req[v].op \in {"capture", "void"} => req'[v].op = req[v].op
  BY <1>1, <1>2 DEF Replaced
<1>5. /\ Gentle /\ Apart /\ PendingSent' /\ DepositBacked' /\ PaymentTruth'
      /\ pay' \in PayStatuses /\ deposits' \in Nat /\ resv' \in {"pending", "confirmed", "cancelled"}
  BY <1>3, <1>4, Finalized
<1>6. CardInv'
  BY <1>2, <1>5, IdleKnows, IdleRequest, StepOfOne DEF Replaced
<1>7. CardType'
  BY <1>2, <1>3, <1>5 DEF TypeOK, CardType, Replaced
<1> QED BY <1>6, <1>7

LEMMA WorldlineEventCard ==
    ASSUME TypeOK, CardInv, NEW e \in IntentStatuses, WorldlineEvent(e), past' \subseteq past \cup {intent'}
    PROVE  CardInv' /\ CardType'
<1>1. e \in {"held", "captured", "failed", "canceled"} /\ (e = "captured" => intent = "captured")
  BY DEF CardInv, PastTrue, WorldlineEvent, Final
<1>2. Stored(e) \in {"authorized", "captured", "failed"} /\ (Stored(e) = "captured" => intent = "captured")
  BY <1>1, StoredStatus DEF IntentStatuses
<1>3. UNCHANGED <<intent, orphaned, refused, req>> /\ Finalize(Stored(e))
  BY DEF WorldlineEvent, provider, marks
<1>4. /\ Gentle /\ Apart /\ PendingSent' /\ DepositBacked' /\ PaymentTruth'
      /\ pay' \in PayStatuses /\ deposits' \in Nat /\ resv' \in {"pending", "confirmed", "cancelled"}
  BY <1>2, <1>3, Finalized
<1>5. CardInv'
  BY <1>3, <1>4, StepOfNobody
<1>6. CardType'
  BY <1>3, <1>4 DEF TypeOK, CardType
<1> QED BY <1>5, <1>6

LEMMA StartSyncCard ==
    ASSUME TypeOK, CardInv, NEW w \in Workers, NEW op \in {"sync", "expire"}, StartSync(w, op),
           past' \subseteq past \cup {intent'}
    PROVE  CardInv' /\ CardType'
<1> DEFINE q == [Idle EXCEPT !.op = op, !.pc = "read"]
<1>1. q \in Request /\ q.op = op /\ q.pc = "read"
  BY IdleRequest DEF Request, Ops, Pcs
<1>2. req' = [req EXCEPT ![w] = q]
  BY DEF StartSync
<1> HIDE DEF q
<1>3. Replaced(w, q)
  BY <1>1, <1>2, Replace
<1>4. UNCHANGED <<pay, intent, orphaned, marks, booking>> /\ req[w].op = "none" /\ intent # "none"
  BY IdleRequest DEF StartSync, provider, CardInv, PendingSent
<1>5. Gentle
  BY <1>4 DEF Gentle, Backed, Taken, marks
<1>6. Authorizing(w)' /\ Claimed(w)' /\ Syncing(w)'
  BY <1>1, <1>3, <1>4 DEF Replaced, Authorizing, Claimed, Syncing
<1>7. CardInv'
  BY <1>1, <1>3, <1>4, <1>5, <1>6, RowUntouched DEF Replaced
<1>8. CardType'
  BY <1>3, <1>4 DEF TypeOK, CardType, PayStatuses, Replaced, booking
<1> QED BY <1>7, <1>8

\* A step of a status read or of the expiry that leaves the row alone: what
\* the request says afterwards.
LEMMA SyncStepCard ==
    ASSUME TypeOK, CardInv, NEW w \in Workers, req[w].op \in {"sync", "expire"}, intent' \in IntentStatuses,
           Gentle, UNCHANGED <<pay, orphaned, marks, booking>>,
           Replaced(w, req'[w]),
           \/ req'[w] = Idle
           \/ /\ req'[w].op = req[w].op
              /\ req'[w].pc \in {"reread", "cancel"}
           \/ /\ req'[w].op = req[w].op /\ req'[w].pc = "apply"
              /\ intent' = req'[w].got /\ intent' \notin {"open", "challenged"}
           \/ /\ req'[w].op = req[w].op /\ req'[w].pc = "drop"
              /\ req'[w].got = "open" \/ intent' = "canceled",
           past' \subseteq past \cup {intent'}
    PROVE  CardInv' /\ CardType'
<1>1. intent # "none" /\ intent' # "none"
  BY DEF CardInv, Syncing, Gentle
<1>2. Authorizing(w)' /\ Claimed(w)' /\ Syncing(w)'
  <2>1. CASE req'[w] = Idle
    BY <2>1, IdleKnows
  <2>2. CASE req'[w] # Idle
    BY <1>1, <2>2 DEF Authorizing, Claimed, Syncing
  <2> QED BY <2>1, <2>2
<1>3. CardInv'
  BY <1>1, <1>2, IdleRequest, RowUntouched DEF Replaced
<1>4. CardType'
  BY DEF TypeOK, CardType, PayStatuses, Replaced, booking
<1> QED BY <1>3, <1>4

LEMMA ReadCard ==
    ASSUME TypeOK, CardInv, NEW w \in Workers, Read(w), past' \subseteq past \cup {intent'}
    PROVE  CardInv' /\ CardType'
<1>1. req[w] \in Request /\ req[w].op \in {"sync", "expire"} /\ intent \in IntentStatuses
  BY DEF TypeOK, CardInv, Syncing, Read
<1>2. UNCHANGED <<pay, intent, orphaned, marks, booking>> /\ Gentle
  BY DEF Read, provider, marks, Gentle, Backed, Taken
<1>3. CASE End(w)
  BY <1>1, <1>2, <1>3, EndRequest, SyncStepCard DEF Replaced
<1>4. CASE Goto(w, "reread")
  <2>1. Replaced(w, req'[w]) /\ req'[w].op = req[w].op /\ req'[w].pc = "reread"
    BY <1>4, GotoRequest DEF Pcs
  <2> QED BY <1>1, <1>2, <2>1, SyncStepCard
<1>5. CASE ~Undecided /\ req' = [req EXCEPT ![w].pc = "apply", ![w].got = intent]
  <2> DEFINE q == [req[w] EXCEPT !.pc = "apply", !.got = intent]
  <2>1. q \in Request /\ q.op = req[w].op /\ q.pc = "apply" /\ q.got = intent
    BY <1>1 DEF Request, Pcs
  <2>2. req' = [req EXCEPT ![w] = q]
    BY <1>5
  <2> HIDE DEF q
  <2>3. Replaced(w, q)
    BY <2>1, <2>2, Replace
  <2> QED BY <1>1, <1>2, <1>5, <2>1, <2>3, SyncStepCard DEF Replaced, Undecided
<1> QED BY <1>3, <1>4, <1>5 DEF Read

LEMMA RereadCard ==
    ASSUME TypeOK, CardInv, NEW w \in Workers, Reread(w), past' \subseteq past \cup {intent'}
    PROVE  CardInv' /\ CardType'
<1>1. req[w] \in Request /\ req[w].op \in {"sync", "expire"} /\ intent \in IntentStatuses
  BY DEF TypeOK, CardInv, Syncing, Reread
<1>2. UNCHANGED <<pay, intent, orphaned, marks, booking>> /\ Gentle
  BY DEF Reread, provider, marks, Gentle, Backed, Taken
<1>3. CASE End(w)
  BY <1>1, <1>2, <1>3, EndRequest, SyncStepCard DEF Replaced
<1>4. CASE /\ Undecided
           /\ req' = [req EXCEPT ![w].pc = IF intent = "open" THEN "drop" ELSE "cancel", ![w].got = intent]
  <2> DEFINE pc == IF intent = "open" THEN "drop" ELSE "cancel"
             q == [req[w] EXCEPT !.pc = pc, !.got = intent]
  <2>1. pc \in Pcs /\ ((pc = "drop" /\ intent = "open") \/ pc = "cancel")
    BY DEF Pcs
  <2>2. req' = [req EXCEPT ![w] = q]
    BY <1>4
  <2> HIDE DEF pc
  <2>3. q \in Request /\ q.op = req[w].op /\ q.pc = pc /\ q.got = intent
    BY <1>1, <2>1 DEF Request
  <2> HIDE DEF q
  <2>4. Replaced(w, q)
    BY <2>2, <2>3, Replace
  <2> QED BY <1>1, <1>2, <2>1, <2>3, <2>4, SyncStepCard DEF Replaced
<1> QED BY <1>3, <1>4 DEF Reread

LEMMA CancelChallengeCard ==
    ASSUME TypeOK, CardInv, NEW w \in Workers, CancelChallenge(w), past' \subseteq past \cup {intent'}
    PROVE  CardInv' /\ CardType'
<1>1. req[w].op \in {"sync", "expire"} /\ intent' \in IntentStatuses
  BY DEF TypeOK, CardInv, Syncing, CancelChallenge, IntentStatuses
<1>2. UNCHANGED <<pay, orphaned, marks, booking>> /\ Gentle
  BY DEF CancelChallenge, Gentle, Backed, Taken, Final, marks
<1>3. CASE End(w)
  BY <1>1, <1>2, <1>3, EndRequest, SyncStepCard DEF Replaced
<1>4. CASE intent' = "canceled" /\ Goto(w, "drop")
  <2>1. Replaced(w, req'[w]) /\ req'[w].op = req[w].op /\ req'[w].pc = "drop"
    BY <1>4, GotoRequest DEF Pcs
  <2> QED BY <1>1, <1>2, <1>4, <2>1, SyncStepCard
<1> QED BY <1>3, <1>4 DEF CancelChallenge

LEMMA ClaimCard ==
    ASSUME TypeOK, CardInv, NEW w \in Workers, ClaimCapture(w) \/ ClaimVoid(w),
           past' \subseteq past \cup {intent'}
    PROVE  CardInv' /\ CardType'
<1>1. /\ Replaced(w, req'[w]) /\ req'[w].pc = "call"
      /\ \/ req'[w].op = "capture" /\ pay' = "captured"
         \/ req'[w].op = "void" /\ pay' = "voided"
  BY BeginRequest, GatewayAssumption DEF ClaimCapture, ClaimVoid, Claim, Ops, Keys
<1>2. UNCHANGED <<intent, orphaned, refused, deposits, resv>> /\ pay = "authorized" /\ req[w].op = "none"
  BY IdleRequest DEF ClaimCapture, ClaimVoid, Claim, provider, marks, booking
<1>3. Gentle /\ Apart
  BY <1>1, <1>2 DEF Gentle, Backed, Apart, Taken, marks
<1>4. Authorizing(w)' /\ Claimed(w)' /\ Syncing(w)'
  BY <1>1 DEF Authorizing, Claimed, Syncing, Taken, Backed, marks
<1>5. PendingSent' /\ DepositBacked'
  BY <1>1, <1>2 DEF CardInv, PendingSent, DepositBacked
<1>6. PaymentTruth'
  BY <1>1 DEF PaymentTruth, Claiming
<1>7. CardInv'
  BY <1>1, <1>3, <1>4, <1>5, <1>6, StepOfOne DEF Replaced
<1>8. CardType'
  BY <1>1, <1>2 DEF TypeOK, CardType, PayStatuses, Replaced
<1> QED BY <1>7, <1>8

LEMMA CallCard ==
    ASSUME TypeOK, CardInv, NEW w \in Workers, CallCapture(w) \/ CallVoid(w),
           past' \subseteq past \cup {intent'}
    PROVE  CardInv' /\ CardType'
<1>1. PICK op \in {"capture", "void"}, target \in {"captured", "canceled"} :
        /\ target = IF op = "capture" THEN "captured" ELSE "canceled"
        /\ Call(w, op, target)
  BY DEF CallCapture, CallVoid
<1>2. PICK ok \in BOOLEAN : (ok => intent' = target) /\ Answered(w, ok)
  BY <1>1 DEF Call
<1>3. /\ Replaced(w, req'[w]) /\ req'[w].pc = "answer" /\ req'[w].op = op
      /\ req'[w].ok => intent' = target
  BY <1>1, <1>2, AnsweredRequest DEF Call, At
<1>4. /\ UNCHANGED <<pay, orphaned, marks, booking>> /\ req[w].op = op
      /\ intent' = intent \/ (intent = "held" /\ intent' = target)
  BY <1>1 DEF Call, At
<1>5. Gentle
  BY <1>1, <1>4 DEF Gentle, Backed, Taken, Final, marks
<1>6. Authorizing(w)' /\ Claimed(w)' /\ Syncing(w)'
  BY <1>1, <1>3, <1>4 DEF CardInv, Authorizing, Claimed, Syncing, Backed, Taken, marks
<1>7. CardInv'
  BY <1>3, <1>4, <1>5, <1>6, RowUntouched DEF Replaced
<1>8. CardType'
  BY <1>3, <1>4 DEF TypeOK, CardType, PayStatuses, Replaced, booking, IntentStatuses
<1> QED BY <1>7, <1>8

LEMMA FinishCard ==
    ASSUME TypeOK, CardInv, NEW w \in Workers, FinishCapture(w) \/ FinishVoid(w),
           past' \subseteq past \cup {intent'}
    PROVE  CardInv' /\ CardType'
<1>1. PICK op \in {"capture", "void"} : Finish(w, op)
  BY DEF FinishCapture, FinishVoid
<1>2. /\ UNCHANGED <<intent, orphaned, refused, deposits, resv>> /\ req[w].op = op /\ req[w].pc = "answer"
      /\ req[w].ok => pay' = pay
      /\ ~req[w].ok => pay' = "authorized"
  BY <1>1 DEF Finish, At, provider, marks, booking
<1>3. /\ Backed
      /\ req[w].ok => intent = IF op = "capture" THEN "captured" ELSE "canceled"
  BY <1>2 DEF CardInv, Claimed
<1>4. Replaced(w, Idle)
  BY <1>1, EndRequest DEF Finish
<1>5. pay' = pay \/ pay' = "authorized"
  BY <1>2
<1>6. Gentle /\ Apart
  BY <1>2, <1>3, <1>5 DEF Gentle, Backed, Apart, Taken, marks
<1>7. PendingSent' /\ DepositBacked'
  BY <1>2, <1>3, <1>5 DEF CardInv, PendingSent, DepositBacked
<1>8. PaymentTruth'
  <2>1. CASE ~req[w].ok
    BY <1>2, <2>1 DEF PaymentTruth
  <2>2. CASE req[w].ok
    <3>1. \A v \in Workers : req[v].op \in {"capture", "void"} => v = w \/ req'[v] = req[v]
      BY <1>4 DEF Replaced
    <3>2. pay = "captured" => intent = "captured" \/ orphaned \/ \E v \in Workers \ {w} : req[v].op = "capture"
      BY <1>2, <1>3, <2>2 DEF CardInv, PaymentTruth, Claiming
    <3>3. pay = "voided" => intent = "canceled" \/ orphaned \/ \E v \in Workers \ {w} : req[v].op = "void"
      BY <1>2, <1>3, <2>2 DEF CardInv, PaymentTruth, Claiming
    <3> QED BY <1>2, <2>2, <3>1, <3>2, <3>3 DEF PaymentTruth, Claiming
  <2> QED BY <2>1, <2>2
<1>9. CardInv'
  BY <1>4, <1>6, <1>7, <1>8, IdleKnows, IdleRequest, StepOfOne DEF Replaced
<1>10. CardType'
  BY <1>2, <1>4, <1>5 DEF TypeOK, CardType, PayStatuses, Replaced
<1> QED BY <1>9, <1>10

LEMMA CrashCard ==
    ASSUME TypeOK, CardInv, NEW w \in Workers, Crash(w), past' \subseteq past \cup {intent'}
    PROVE  CardInv' /\ CardType'
<1>1. UNCHANGED <<pay, intent, refused, deposits, resv>>
  BY DEF Crash, provider, marks, booking
<1>2. (orphaned => orphaned') /\ (req[w].op \in {"capture", "void"} => orphaned') /\ orphaned' \in BOOLEAN
  BY DEF Crash
<1>3. Replaced(w, Idle)
  BY EndRequest DEF Crash
<1>4. Gentle /\ Apart /\ PendingSent' /\ DepositBacked'
  BY <1>1 DEF CardInv, Gentle, Backed, Taken, Apart, PendingSent, DepositBacked
<1>5. PaymentTruth'
  BY <1>1, <1>2, <1>3, <1>4, TruthKept DEF Replaced
<1>6. CardInv'
  BY <1>3, <1>4, <1>5, IdleKnows, IdleRequest, StepOfOne DEF Replaced
<1>7. CardType'
  BY <1>1, <1>2, <1>3 DEF TypeOK, CardType, PayStatuses, Replaced
<1> QED BY <1>6, <1>7

\* Refunds do not touch the status of the payment.
LEMMA RefundStepCard ==
    ASSUME TypeOK, CardInv, NEW w \in Workers,
           \/ \E amount \in 1 .. Amount : StartRefund(w, amount)
           \/ CallRefund(w)
           \/ FinishRefund(w),
           req' \in [Workers -> Request],
           past' \subseteq past \cup {intent'}
    PROVE  CardInv' /\ CardType'
<1>1. UNCHANGED <<pay, intent, orphaned, marks, booking>> /\ Gentle
  BY DEF StartRefund, CallRefund, FinishRefund, provider, marks, Gentle, Backed, Taken
<1>2. ASSUME NEW q, req' = [req EXCEPT ![w] = q]
      PROVE  req'[w] = q /\ \A v \in Workers \ {w} : req'[v] = req[v]
  BY <1>2 DEF TypeOK
<1>3. CASE \E amount \in 1 .. Amount : StartRefund(w, amount)
  <2>1. req[w].op = "none" /\ (\A v \in Workers \ {w} : req'[v] = req[v]) /\ req'[w].op = "refund" /\ req'[w].pc = "call"
    <3>1. PICK amount \in 1 .. Amount : StartRefund(w, amount)
      BY <1>3
    <3> DEFINE q == [Idle EXCEPT !.op = "refund", !.pc = "call", !.amount = amount, !.key = Booked + amount]
    <3>2. q.op = "refund" /\ q.pc = "call"
      BY IdleRequest DEF Request
    <3>3. req' = [req EXCEPT ![w] = q] /\ req[w] = Idle
      BY <3>1 DEF StartRefund, Begin
    <3> HIDE DEF q
    <3> QED BY <1>2, <3>2, <3>3, IdleRequest
  <2>2. Authorizing(w)' /\ Claimed(w)' /\ Syncing(w)'
    BY <2>1 DEF Authorizing, Claimed, Syncing
  <2> QED BY <1>1, <2>1, <2>2, RowUntouched DEF TypeOK, CardType, PayStatuses, booking
<1>4. CASE CallRefund(w)
  <2>1. req[w].op = "refund" /\ req[w] \in Request
    BY <1>4 DEF CallRefund, At, TypeOK
  <2>2. (\A v \in Workers \ {w} : req'[v] = req[v]) /\ req'[w].op = "refund" /\ req'[w].pc = "answer"
    BY <1>4, <2>1, AnsweredRequest DEF CallRefund, Replaced
  <2>3. Authorizing(w)' /\ Claimed(w)' /\ Syncing(w)'
    BY <2>2 DEF Authorizing, Claimed, Syncing
  <2> QED BY <1>1, <2>1, <2>2, <2>3, RowUntouched DEF TypeOK, CardType, PayStatuses, booking
<1>5. CASE FinishRefund(w)
  <2>1. req[w].op = "refund" /\ Replaced(w, Idle)
    BY <1>5, EndRequest DEF FinishRefund, At
  <2> QED BY <1>1, <2>1, IdleRequest, IdleKnows, RowUntouched DEF Replaced, TypeOK, CardType, PayStatuses, booking
<1> QED BY <1>3, <1>4, <1>5

LEMMA ProviderCard ==
    ASSUME TypeOK, CardInv, RowInv,
           \/ Expire \/ CaptureInDashboard \/ PaymentIntentSucceeded \/ PaymentIntentCanceled
           \/ PaymentIntentFailed \/ Guest \/ CancelReservation
           \/ \E n \in 1 .. Amount : RefundInDashboard(n) \/ ChargeRefunded(n),
           past' \subseteq past \cup {intent'}
    PROVE  CardInv' /\ CardType'
<1>1. req' = req /\ orphaned' = orphaned
  BY DEF Expire, CaptureInDashboard, PaymentIntentSucceeded, PaymentIntentCanceled, PaymentIntentFailed, 
     Guest, CancelReservation, RefundInDashboard, ChargeRefunded
<1>2. CASE Expire \/ CaptureInDashboard \/ Guest
  <2>1. /\ UNCHANGED <<pay, refused, deposits, resv>> /\ intent' \in IntentStatuses
        /\ intent \notin Final /\ intent # "none" /\ intent' # "none"
    BY <1>2 DEF Expire, CaptureInDashboard, Guest, booking, marks, Final, IntentStatuses
  <2>2. Gentle /\ Apart /\ PendingSent' /\ DepositBacked'
    BY <2>1 DEF CardInv, Gentle, Backed, Taken, Apart, PendingSent, DepositBacked
  <2>3. PaymentTruth'
    BY <1>1, <2>1, <2>2, TruthKept
  <2> QED BY <1>1, <2>1, <2>2, <2>3, StepOfNobody DEF TypeOK, CardType, PayStatuses
<1>3. CASE PaymentIntentSucceeded \/ PaymentIntentCanceled \/ PaymentIntentFailed
  <2>1. /\ UNCHANGED <<intent, deposits, resv>> /\ pay # "none"
        /\ \/ pay' = "captured" /\ intent = "captured" /\ refused' = refused
           \/ pay' = "voided" /\ intent = "canceled" /\ refused' = refused
           \/ pay' = "failed" /\ refused'
    BY <1>3 DEF PaymentIntentSucceeded, PaymentIntentCanceled, PaymentIntentFailed, RowInv, 
       provider, marks, booking
  <2>2. Gentle /\ Apart /\ PendingSent' /\ DepositBacked' /\ PaymentTruth'
    BY <2>1 DEF CardInv, Gentle, Backed, Taken, Apart, PendingSent, DepositBacked, PaymentTruth
  <2> QED BY <1>1, <2>1, <2>2, StepOfNobody DEF TypeOK, CardType, PayStatuses
<1>4. CASE \/ CancelReservation
           \/ \E n \in 1 .. Amount : RefundInDashboard(n) \/ ChargeRefunded(n)
  <2>1. UNCHANGED <<pay, intent, refused, deposits>> /\ (resv' = resv \/ resv' = "cancelled")
    BY <1>4 DEF CancelReservation, RefundInDashboard, ChargeRefunded, provider, marks, booking
  <2>2. Gentle /\ Apart /\ PendingSent' /\ DepositBacked'
    BY <2>1 DEF CardInv, Gentle, Backed, Taken, Apart, PendingSent, DepositBacked
  <2>3. PaymentTruth'
    BY <1>1, <2>1, <2>2, TruthKept
  <2> QED BY <1>1, <2>1, <2>2, <2>3, StepOfNobody DEF TypeOK, CardType, PayStatuses
<1> QED BY <1>2, <1>3, <1>4

-----------------------------------------------------------------------------
(* Sums: a set of refund rows, or of refunds, counted unit by unit *)

Units(S) == {u \in S \X (1 .. Amount) : u[2] <= u[1].amount}

\* The units of one more row are those of its amount.
LEMMA OneMoreRow ==
    ASSUME NEW S, IsFiniteSet(S), NEW c, c \notin S, c.amount \in 0 .. Amount
    PROVE  /\ Cardinality(Units(S)) \in Nat
           /\ Cardinality(Units(S \cup {c})) = Cardinality(Units(S)) + c.amount
<1> USE GatewayAssumption
<1> DEFINE new == {c} \X (1 .. c.amount)
<1>1. IsFiniteSet(1 .. Amount) /\ IsFiniteSet(1 .. c.amount) /\ Cardinality(1 .. c.amount) = c.amount
  BY FS_Interval
<1>2. IsFiniteSet(S \X (1 .. Amount))
  BY <1>1, FS_Product
<1>3. IsFiniteSet(Units(S)) /\ Cardinality(Units(S)) \in Nat
  BY <1>2, FS_Subset, FS_CardinalityType DEF Units
<1>4. IsFiniteSet(new) /\ Cardinality(new) = c.amount
  <2>1. IsFiniteSet({c}) /\ Cardinality({c}) = 1
    BY FS_Singleton
  <2>2. IsFiniteSet(new) /\ Cardinality(new) = Cardinality({c}) * Cardinality(1 .. c.amount)
    BY <1>1, <2>1, FS_Product
  <2> QED BY <1>1, <2>1, <2>2
<1>5. Units(S \cup {c}) = Units(S) \cup new
  BY DEF Units
<1>6. Units(S) \cap new = {}
  BY DEF Units
<1>7. Cardinality(Units(S) \cap new) = 0
  BY <1>6, FS_EmptySet
<1> HIDE DEF new
<1>8. Cardinality(Units(S) \cup new) = Cardinality(Units(S)) + Cardinality(new) - Cardinality(Units(S) \cap new)
  BY <1>3, <1>4, FS_Union
<1>9. Cardinality(Units(S \cup {c})) = Cardinality(Units(S) \cup new)
  BY <1>5
<1> QED BY <1>3, <1>4, <1>7, <1>8, <1>9

LEMMA UpTo ==
    ASSUME NEW a \in Nat
    PROVE  IsFiniteSet(1 .. a) /\ Cardinality(1 .. a) = a
BY FS_Interval

KeyUnits(f) == {u \in Keys \X (1 .. Amount) : u[2] <= f[u[1]]}

LEMMA CountOfRefunds ==
    ASSUME NEW f \in [Keys -> 0 .. Amount]
    PROVE  IsFiniteSet(KeyUnits(f)) /\ Cardinality(KeyUnits(f)) \in Nat
<1> USE GatewayAssumption
<1>1. IsFiniteSet(1 .. Amount) /\ IsFiniteSet(Keys)
  BY FS_Interval DEF Keys
<1>2. IsFiniteSet(Keys \X (1 .. Amount))
  BY <1>1, FS_Product
<1> QED BY <1>2, FS_Subset, FS_CardinalityType DEF KeyUnits

LEMMA OneMoreRefund ==
    ASSUME NEW f \in [Keys -> 0 .. Amount], NEW k \in Keys, f[k] = 0, NEW a \in 1 .. Amount
    PROVE  Cardinality(KeyUnits([f EXCEPT ![k] = a])) = Cardinality(KeyUnits(f)) + a
<1> USE GatewayAssumption
<1> DEFINE new == {k} \X (1 .. a)
           g == [f EXCEPT ![k] = a]
<1>1. IsFiniteSet({k}) /\ Cardinality({k}) = 1
  BY FS_Singleton
<1>2. IsFiniteSet(1 .. a) /\ Cardinality(1 .. a) = a
  <2>1. a \in Nat
    OBVIOUS
  <2> QED BY <2>1, UpTo
<1>3. IsFiniteSet(new) /\ Cardinality(new) = Cardinality({k}) * Cardinality(1 .. a)
  BY <1>1, <1>2, FS_Product
<1>4. KeyUnits(g) = KeyUnits(f) \cup new
  <2>1. g[k] = a /\ \A x \in Keys \ {k} : g[x] = f[x]
    OBVIOUS
  <2> HIDE DEF g
  <2>2. ASSUME NEW x \in Keys, NEW n \in 1 .. Amount
        PROVE  n <= g[x] <=> (n <= f[x] \/ (x = k /\ n \in 1 .. a))
    BY <2>1
  <2>3. KeyUnits(g) \subseteq KeyUnits(f) \cup new
    BY <2>2 DEF KeyUnits
  <2>4. KeyUnits(f) \cup new \subseteq KeyUnits(g)
    BY <2>2 DEF KeyUnits
  <2> QED BY <2>3, <2>4
<1>5. KeyUnits(f) \cap new = {}
  BY DEF KeyUnits, Keys
<1>6. Cardinality(KeyUnits(f) \cap new) = 0
  BY <1>5, FS_EmptySet
<1> HIDE DEF new, g
<1>7. Cardinality(KeyUnits(f) \cup new)
        = Cardinality(KeyUnits(f)) + Cardinality(new) - Cardinality(KeyUnits(f) \cap new)
  BY <1>3, CountOfRefunds, FS_Union
<1>8. Cardinality(KeyUnits(g)) = Cardinality(KeyUnits(f) \cup new)
  BY <1>4
<1>9. Cardinality(new) = a
  BY <1>1, <1>2, <1>3
<1>10. Cardinality(KeyUnits(g)) = Cardinality(KeyUnits(f)) + a
  BY <1>6, <1>7, <1>8, <1>9, CountOfRefunds
<1> QED BY <1>10 DEF g

LEMMA CountNothing ==
    /\ Cardinality(Units({})) = 0
    /\ Cardinality(KeyUnits([k \in Keys |-> 0])) = 0
<1>1. Units({}) = {}
  BY DEF Units
<1>2. KeyUnits([k \in Keys |-> 0]) = {}
  BY GatewayAssumption DEF KeyUnits
<1> QED BY <1>1, <1>2, FS_EmptySet

-----------------------------------------------------------------------------
(* The refunds in the ledger and at the provider *)

\* A refund under way was asked for on top of what was booked, and a good
\* answer means that the provider has made it.
Refunding(w) ==
    req[w].op = "refund" =>
        /\ req[w].amount \in 1 .. req[w].key
        /\ req[w].key <= Booked + req[w].amount
        /\ req[w].pc = "answer" /\ req[w].ok => refunds[req[w].key] = req[w].amount

LedgerInv ==
    /\ IsFiniteSet(children)
    /\ Booked \in Nat /\ Refunded \in 0 .. Amount
    /\ RefundsReconciled
    /\ \A t \in totals : t <= Refunded
    /\ \A k \in 1 .. Amount : refunds[k] > 0 => k <= Refunded
    /\ \A c \in children : c.by = "webhook" => c.key <= Booked
    /\ \A w \in Workers : Refunding(w)

LedgerType ==
    /\ children \subseteq Child
    /\ refunds \in [Keys -> 0 .. Amount]
    /\ totals \subseteq 1 .. Amount
    /\ heard \in 0 .. Amount

\* A request that is no refund, or was one before, in a step that books nothing.
LEMMA LedgerUntouched ==
    ASSUME TypeOK, LedgerInv, UNCHANGED <<children, refunds, totals, heard>>,
           \A w \in Workers : req'[w].op = "refund" => req'[w] = req[w]
    PROVE  LedgerInv' /\ LedgerType'
<1>1. Booked' = Booked /\ Refunded' = Refunded
  BY DEF Booked, Refunded
<1>2. \A w \in Workers : Refunding(w)'
  BY <1>1 DEF LedgerInv, Refunding
<1>3. LedgerType'
  BY DEF TypeOK, LedgerType
<1>4. LedgerInv'
  BY <1>1, <1>2 DEF LedgerInv, RefundsReconciled
<1> QED BY <1>3, <1>4

LEMMA StartRefundLedger ==
    ASSUME TypeOK, LedgerInv, NEW w \in Workers, NEW amount \in 1 .. Amount, StartRefund(w, amount)
    PROVE  LedgerInv' /\ LedgerType' /\ req' \in [Workers -> Request]
<1> USE GatewayAssumption
<1>1. Booked + amount \in 1 .. Amount
  BY DEF LedgerInv, StartRefund, RefundsReconciled
<1>2. /\ Replaced(w, req'[w]) /\ req'[w].pc = "call"
      /\ req'[w].op = "refund" /\ req'[w].amount = amount /\ req'[w].key = Booked + amount
  BY <1>1, BeginRequest DEF StartRefund, Ops, Keys
<1>3. UNCHANGED <<children, refunds, totals, heard>>
  BY DEF StartRefund, provider
<1>4. Booked' = Booked /\ Refunded' = Refunded
  BY <1>3 DEF Booked, Refunded
<1>5. Refunding(w)'
  BY <1>1, <1>2, <1>4 DEF Refunding, LedgerInv
<1>6. \A v \in Workers \ {w} : Refunding(v)'
  BY <1>2, <1>3, <1>4 DEF LedgerInv, Refunding, Replaced
<1>7. LedgerInv'
  BY <1>3, <1>4, <1>5, <1>6 DEF LedgerInv, RefundsReconciled
<1> QED BY <1>2, <1>3, <1>7 DEF TypeOK, LedgerType, Replaced

\* The provider refunds `amount' under key k: it is then at least at the total
\* k stands for, because it was at what had been booked before.
LEMMA ProviderRefunds ==
    ASSUME TypeOK, LedgerInv, NEW k \in Keys, NEW amount \in 1 .. Amount, ProviderRefund(k, amount),
           k # 0 => k <= Booked + amount,
           UNCHANGED <<children, heard>>
    PROVE  /\ Refunded' = Refunded + amount /\ Refunded' \in 0 .. Amount /\ Booked' = Booked
           /\ RefundsReconciled'
           /\ \A t \in totals' : t <= Refunded'
           /\ \A x \in 1 .. Amount : refunds'[x] > 0 => x <= Refunded'
           /\ refunds'[k] = amount /\ \A x \in Keys \ {k} : refunds'[x] = refunds[x]
           /\ refunds[k] = 0
           /\ LedgerType'
<1> USE GatewayAssumption
<1>1. /\ refunds \in [Keys -> 0 .. Amount] /\ refunds[k] = 0
      /\ refunds' = [refunds EXCEPT ![k] = amount]
      /\ Refunded + amount <= Amount /\ totals' = totals \cup {Refunded + amount}
  BY DEF TypeOK, ProviderRefund
<1>2. Refunded' = Refunded + amount
  <2>1. Refunded = Cardinality(KeyUnits(refunds))
    BY DEF Refunded, KeyUnits
  <2>2. Refunded' = Cardinality(KeyUnits(refunds'))
    BY DEF Refunded, KeyUnits
  <2> QED BY <1>1, <2>1, <2>2, OneMoreRefund
<1>3. Booked' = Booked
  BY DEF Booked
<1>4. Refunded' \in 0 .. Amount /\ RefundsReconciled'
  BY <1>1, <1>2, <1>3 DEF LedgerInv, RefundsReconciled, TypeOK
<1>5. \A t \in totals' : t <= Refunded'
  BY <1>1, <1>2, <1>4 DEF LedgerInv, TypeOK
<1>6. refunds'[k] = amount /\ \A x \in Keys \ {k} : refunds'[x] = refunds[x]
  BY <1>1
<1>7. \A x \in 1 .. Amount : refunds'[x] > 0 => x <= Refunded'
  BY <1>2, <1>4, <1>6 DEF LedgerInv, RefundsReconciled, Keys
<1>8. LedgerType'
  BY <1>1, <1>2, <1>4 DEF TypeOK, LedgerType, LedgerInv
<1> QED BY <1>1, <1>2, <1>3, <1>4, <1>5, <1>6, <1>7, <1>8

LEMMA CallRefundLedger ==
    ASSUME TypeOK, LedgerInv, NEW w \in Workers, CallRefund(w)
    PROVE  LedgerInv' /\ LedgerType' /\ req' \in [Workers -> Request]
<1> USE GatewayAssumption
<1>1. req[w] \in Request /\ req[w].op = "refund" /\ Refunding(w)
  BY DEF TypeOK, LedgerInv, CallRefund, At
<1>2. PICK k \in Keys, amount \in 1 .. Amount : k = req[w].key /\ amount = req[w].amount
  BY <1>1 DEF Request, Refunding, Keys
<1>3. PICK ok \in BOOLEAN : (ok => refunds'[k] = amount) /\ Answered(w, ok)
  BY <1>2 DEF CallRefund
<1>4. /\ Replaced(w, req'[w]) /\ req'[w].pc = "answer" /\ req'[w].op = "refund"
      /\ req'[w].amount = amount /\ req'[w].key = k
      /\ req'[w].ok => refunds'[k] = amount
  BY <1>1, <1>2, <1>3, AnsweredRequest
<1>5. UNCHANGED <<children, heard>>
  BY DEF CallRefund
<1>6. amount \in 1 .. k /\ k <= Booked + amount
  BY <1>1, <1>2 DEF Refunding
<1>7. CASE ProviderRefund(k, amount)
  <2>1. /\ Booked' = Booked /\ Refunded' \in 0 .. Amount /\ RefundsReconciled'
        /\ \A t \in totals' : t <= Refunded'
        /\ \A x \in 1 .. Amount : refunds'[x] > 0 => x <= Refunded'
        /\ \A x \in Keys \ {k} : refunds'[x] = refunds[x]
        /\ refunds[k] = 0
        /\ LedgerType'
    BY <1>5, <1>6, <1>7, ProviderRefunds
  <2>2. ASSUME NEW v \in Workers \ {w} PROVE Refunding(v)'
    <3>1. req'[v] = req[v] /\ req[v] \in Request /\ Refunding(v)
      BY <1>4 DEF Replaced, TypeOK, LedgerInv
    <3>2. req[v].op = "refund" => req[v].amount >= 1 /\ req[v].key \in Keys
      BY <3>1 DEF Refunding, Request
    <3> QED BY <2>1, <3>1, <3>2 DEF Refunding
  <2>3. Refunding(w)'
    BY <1>4, <1>6, <2>1 DEF Refunding
  <2>4. LedgerInv'
    BY <1>5, <2>1, <2>2, <2>3 DEF LedgerInv
  <2> QED BY <1>4, <2>1, <2>4 DEF Replaced
<1>8. CASE UNCHANGED <<refunds, totals>>
  <2>1. Booked' = Booked /\ Refunded' = Refunded
    BY <1>5, <1>8 DEF Booked, Refunded
  <2>2. ASSUME NEW v \in Workers \ {w} PROVE Refunding(v)'
    BY <1>4, <1>8, <2>1 DEF LedgerInv, Refunding, Replaced
  <2>3. Refunding(w)'
    BY <1>4, <1>6, <2>1 DEF Refunding
  <2>4. LedgerInv'
    BY <1>5, <1>8, <2>1, <2>2, <2>3 DEF LedgerInv, RefundsReconciled
  <2> QED BY <1>4, <1>5, <1>8, <2>4 DEF Replaced, LedgerType, TypeOK
<1> QED BY <1>2, <1>7, <1>8 DEF CallRefund

LEMMA DashboardLedger ==
    ASSUME TypeOK, LedgerInv, NEW amount \in 1 .. Amount, RefundInDashboard(amount)
    PROVE  LedgerInv' /\ LedgerType'
<1> USE GatewayAssumption
<1>1. ProviderRefund(0, amount) /\ UNCHANGED <<children, heard, req>> /\ 0 \in Keys
  BY DEF RefundInDashboard, Keys
<1>2. /\ Booked' = Booked /\ Refunded' \in 0 .. Amount /\ RefundsReconciled'
      /\ \A t \in totals' : t <= Refunded'
      /\ \A x \in 1 .. Amount : refunds'[x] > 0 => x <= Refunded'
      /\ \A x \in Keys \ {0} : refunds'[x] = refunds[x]
      /\ LedgerType'
  BY <1>1, ProviderRefunds
<1>3. ASSUME NEW v \in Workers PROVE Refunding(v)'
  <2>1. Refunding(v) /\ req[v] \in Request
    BY DEF LedgerInv, TypeOK
  <2>2. req[v].op = "refund" => req[v].key \in Keys \ {0}
    BY <2>1 DEF Refunding, Request, Keys
  <2> QED BY <1>1, <1>2, <2>1, <2>2 DEF Refunding
<1>4. LedgerInv'
  BY <1>1, <1>2, <1>3 DEF LedgerInv
<1> QED BY <1>2, <1>4

LEMMA SmallerOfTwo ==
    ASSUME NEW a \in Nat, NEW b \in Nat
    PROVE  Min({a, b}) = IF a <= b THEN a ELSE b
<1> DEFINE m == IF a <= b THEN a ELSE b
<1>1. m \in {a, b} /\ \A y \in {a, b} : m <= y
  OBVIOUS
<1>2. \A x \in {a, b} : (\A y \in {a, b} : x <= y) => x = m
  OBVIOUS
<1> HIDE DEF m
<1> QED BY <1>1, <1>2 DEF Min, m

LEMMA LargerOfTwo ==
    ASSUME NEW a \in Nat, NEW b \in Nat
    PROVE  Max({a, b}) = IF a >= b THEN a ELSE b
<1> DEFINE m == IF a >= b THEN a ELSE b
<1>1. m \in {a, b} /\ \A y \in {a, b} : m >= y
  OBVIOUS
<1>2. \A x \in {a, b} : (\A y \in {a, b} : x >= y) => x = m
  OBVIOUS
<1> HIDE DEF m
<1> QED BY <1>1, <1>2 DEF Max, m

\* One more refund row, up to a total the provider has reached.
LEMMA RowBooked ==
    ASSUME TypeOK, LedgerInv, NEW by \in {"request", "webhook"}, NEW key \in 1 .. Amount,
           NEW amount \in 1 .. Amount, Book(by, key, amount),
           \A c \in children : ~(c.by = by /\ c.key = key),
           Booked + amount <= key, key <= Refunded,
           by = "webhook" => Booked + amount = key,
           UNCHANGED <<refunds, totals>>,
           heard' = heard \/ heard' <= Booked + amount, heard' \in 0 .. Amount,
           \A w \in Workers : req'[w].op = "refund" => req'[w] = req[w]
    PROVE  LedgerInv' /\ LedgerType'
<1> USE GatewayAssumption
<1> DEFINE c == [by |-> by, key |-> key, amount |-> amount]
<1>1. c \in Child /\ c \notin children /\ c.amount = amount /\ c.by = by /\ c.key = key
  BY DEF Child
<1>2. children' = children \cup {c}
  BY DEF Book
<1> HIDE DEF c
<1>3. Booked' = Booked + amount
  <2>1. Booked = Cardinality(Units(children)) /\ Booked' = Cardinality(Units(children'))
    BY DEF Booked, Units
  <2>2. IsFiniteSet(children) /\ c.amount \in 0 .. Amount
    BY <1>1 DEF LedgerInv
  <2> QED BY <1>1, <1>2, <2>1, <2>2, OneMoreRow
<1>4. Refunded' = Refunded
  BY DEF Refunded
<1>5. IsFiniteSet(children')
  BY <1>2, FS_AddElement DEF LedgerInv
<1>6. /\ Booked \in Nat /\ Refunded \in 0 .. Amount /\ heard \in 0 .. Amount /\ heard <= Booked
      /\ \A x \in children : x.by = "webhook" => x.key <= Booked
      /\ children \subseteq Child
  BY DEF LedgerInv, TypeOK, RefundsReconciled
<1>7. RefundsReconciled'
  BY <1>3, <1>4, <1>6 DEF RefundsReconciled
<1>8. \A x \in children' : x.by = "webhook" => x.key <= Booked'
  <2>1. ASSUME NEW x \in children, x.by = "webhook" PROVE x.key <= Booked'
    <3>1. x.key \in Nat
      BY <1>6 DEF Child
    <3> QED BY <1>3, <1>6, <2>1, <3>1
  <2> QED BY <1>1, <1>2, <1>3, <1>6, <2>1
<1>9. ASSUME NEW v \in Workers PROVE Refunding(v)'
  <2>1. req[v] \in Request /\ Refunding(v)
    BY DEF LedgerInv, TypeOK
  <2>2. req[v].amount \in Nat /\ req[v].key \in Nat
    BY <2>1 DEF Request, Keys
  <2> QED BY <1>3, <1>6, <2>1, <2>2 DEF Refunding
<1>10. LedgerInv'
  BY <1>3, <1>4, <1>5, <1>6, <1>7, <1>8, <1>9 DEF LedgerInv
<1>11. LedgerType'
  BY <1>1, <1>2 DEF LedgerType, TypeOK
<1> QED BY <1>10, <1>11

LEMMA FinishRefundLedger ==
    ASSUME TypeOK, LedgerInv, NEW w \in Workers, FinishRefund(w)
    PROVE  LedgerInv' /\ LedgerType' /\ req' \in [Workers -> Request]
<1> USE GatewayAssumption
<1>1. req[w] \in Request /\ req[w].op = "refund" /\ req[w].pc = "answer" /\ Refunding(w)
  BY DEF TypeOK, LedgerInv, FinishRefund, At
<1>2. PICK k \in 1 .. Amount, a \in 1 .. Amount : k = req[w].key /\ a = req[w].amount
  BY <1>1 DEF Request, Refunding, Keys
<1>3. Replaced(w, Idle)
  BY EndRequest DEF FinishRefund
<1>4. UNCHANGED <<refunds, totals, heard>>
  BY DEF FinishRefund, provider
<1>5. \A v \in Workers : req'[v].op = "refund" => req'[v] = req[v]
  BY <1>3, IdleRequest DEF Replaced
<1>6. CASE UNCHANGED children
  BY <1>3, <1>4, <1>5, <1>6, LedgerUntouched DEF Replaced
<1>7. CASE /\ req[w].ok /\ Booked < k /\ \A c \in children : ~(c.by = "request" /\ c.key = k)
           /\ Book("request", k, Min({a, k - Booked}))
  <2>1. refunds[k] = a /\ k <= Refunded
    BY <1>1, <1>2, <1>7 DEF Refunding, LedgerInv
  <2>2. PICK n \in 1 .. Amount : n = Min({a, k - Booked}) /\ Booked + n <= k
    <3>1. Booked \in Nat /\ k - Booked \in Nat /\ k - Booked >= 1
      BY <1>7 DEF LedgerInv
    <3>2. Min({a, k - Booked}) = IF a <= k - Booked THEN a ELSE k - Booked
      BY <3>1, SmallerOfTwo
    <3> QED BY <3>1, <3>2
  <2>3. heard \in 0 .. Amount
    BY DEF TypeOK
  <2>4. Book("request", k, n)
    BY <1>7, <2>2
  <2> QED BY <1>3, <1>4, <1>5, <1>7, <2>1, <2>2, <2>3, <2>4, RowBooked DEF Replaced
<1> QED BY <1>2, <1>6, <1>7 DEF FinishRefund

LEMMA ChargeRefundedLedger ==
    ASSUME TypeOK, LedgerInv, NEW total \in 1 .. Amount, ChargeRefunded(total)
    PROVE  LedgerInv' /\ LedgerType'
<1> USE GatewayAssumption
<1>1. total \in totals /\ UNCHANGED <<refunds, totals, req>> /\ heard' = Max({heard, total})
  BY DEF ChargeRefunded, provider
<1>2. /\ total <= Refunded /\ Booked \in Nat /\ Refunded \in 0 .. Amount
      /\ heard \in 0 .. Amount /\ heard <= Booked
  BY <1>1 DEF LedgerInv, RefundsReconciled, TypeOK
<1>3. heard' = IF heard >= total THEN heard ELSE total
  BY <1>1, <1>2, LargerOfTwo
<1>4. heard' \in 0 .. Amount /\ (heard' = heard \/ heard' = total)
  BY <1>2, <1>3
<1>5. CASE /\ \A c \in children : ~(c.by = "webhook" /\ c.key = total)
           /\ Booked < total
           /\ Book("webhook", total, total - Booked)
  <2>1. PICK n \in 1 .. Amount : n = total - Booked
    BY <1>2, <1>5
  <2>2. Booked + n = total
    BY <1>2, <2>1
  <2> QED BY <1>1, <1>2, <1>4, <1>5, <2>1, <2>2, RowBooked
<1>6. CASE /\ (\E c \in children : c.by = "webhook" /\ c.key = total) \/ Booked >= total
           /\ UNCHANGED children
  <2>1. Booked' = Booked /\ Refunded' = Refunded
    BY <1>1, <1>6 DEF Booked, Refunded
  <2>2. total <= Booked
    BY <1>2, <1>6 DEF LedgerInv
  <2>3. RefundsReconciled'
    BY <1>2, <1>4, <2>1, <2>2 DEF LedgerInv, RefundsReconciled
  <2>4. \A v \in Workers : Refunding(v)'
    BY <1>1, <2>1 DEF LedgerInv, Refunding
  <2>5. LedgerInv'
    BY <1>1, <1>6, <2>1, <2>3, <2>4 DEF LedgerInv
  <2> QED BY <1>1, <1>4, <1>6, <2>5 DEF LedgerType, TypeOK
<1> QED BY <1>5, <1>6 DEF ChargeRefunded

-----------------------------------------------------------------------------
(* The theorems *)

IInv == TypeOK /\ CardInv /\ RowInv /\ LedgerInv

\* The steps of a request that are no steps of a refund.
CardStep(w) ==
    \/ Authorize(w) \/ CallAuthorize(w) \/ InsertPayment(w)
    \/ RecordDeposit(w) \/ ConfirmBooking(w)
    \/ \E op \in {"sync", "expire"} : StartSync(w, op)
    \/ Read(w) \/ Apply(w) \/ Reread(w) \/ CancelChallenge(w) \/ Drop(w)
    \/ ClaimCapture(w) \/ CallCapture(w) \/ FinishCapture(w)
    \/ ClaimVoid(w) \/ CallVoid(w) \/ FinishVoid(w)
    \/ Crash(w)

LEMMA NoRefund ==
    ASSUME IInv, NEW w \in Workers, CardStep(w)
    PROVE  \A v \in Workers : req'[v].op = "refund" => req'[v] = req[v]
<1> USE GatewayAssumption
<1>1. ASSUME Replaced(w, req'[w]), req'[w].op # "refund"
      PROVE  \A v \in Workers : req'[v].op = "refund" => req'[v] = req[v]
  BY <1>1 DEF Replaced
<1>2. CASE End(w)
  BY <1>1, <1>2, EndRequest, IdleRequest DEF IInv, Replaced
<1>3. CASE Authorize(w)
  BY <1>1, <1>3, BeginRequest DEF IInv, Authorize, Ops, Keys
<1>4. CASE ClaimCapture(w) \/ ClaimVoid(w)
  BY <1>1, <1>4, BeginRequest DEF IInv, ClaimCapture, ClaimVoid, Claim, Ops, Keys
<1>5. ASSUME NEW pc \in Pcs, Goto(w, pc), req[w].op # "refund"
      PROVE  \A v \in Workers : req'[v].op = "refund" => req'[v] = req[v]
  BY <1>1, <1>5, GotoRequest DEF IInv
<1>6. ASSUME NEW q, req' = [req EXCEPT ![w] = q], q.op # "refund"
      PROVE  \A v \in Workers : req'[v].op = "refund" => req'[v] = req[v]
  BY <1>6 DEF IInv, TypeOK
<1>7. req[w] \in Request /\ Idle \in Request
  BY IdleRequest DEF IInv, TypeOK
<1>8. ASSUME NEW pc, NEW got, req[w].op # "refund"
      PROVE  [req[w] EXCEPT !.pc = pc, !.got = got].op # "refund"
  BY <1>7, <1>8 DEF Request
<1>9. CASE CallAuthorize(w)
  <2>1. req[w].op = "authorize"
    BY <1>9 DEF CallAuthorize, At
  <2>2. PICK got \in {intent', "none"} : req' = [req EXCEPT ![w].pc = "answer", ![w].got = got]
    BY <1>9 DEF CallAuthorize
  <2> DEFINE q == [req[w] EXCEPT !.pc = "answer", !.got = got]
  <2>3. q.op # "refund"
    BY <1>8, <2>1
  <2>4. req' = [req EXCEPT ![w] = q]
    BY <2>2
  <2> HIDE DEF q
  <2> QED BY <1>6, <2>3, <2>4
<1>10. CASE \E op \in {"sync", "expire"} : StartSync(w, op)
  <2>1. PICK op \in {"sync", "expire"} : StartSync(w, op)
    BY <1>10
  <2> DEFINE q == [Idle EXCEPT !.op = op, !.pc = "read"]
  <2>2. q.op # "refund"
    BY <1>7 DEF Request
  <2>3. req' = [req EXCEPT ![w] = q]
    BY <2>1 DEF StartSync
  <2> HIDE DEF q
  <2> QED BY <1>6, <2>2, <2>3
<1>11. req[w].pc \in {"read", "reread", "cancel"} => req[w].op # "refund"
  BY DEF IInv, CardInv, Syncing
<1>12. CASE Read(w)
  <2>1. CASE req' = [req EXCEPT ![w].pc = "apply", ![w].got = intent]
    <3> DEFINE q == [req[w] EXCEPT !.pc = "apply", !.got = intent]
    <3>1. q.op # "refund"
      BY <1>8, <1>11, <1>12 DEF Read
    <3>2. req' = [req EXCEPT ![w] = q]
      BY <2>1
    <3> HIDE DEF q
    <3> QED BY <1>6, <3>1, <3>2
  <2> QED BY <1>2, <1>5, <1>11, <1>12, <2>1 DEF Read, Pcs
<1>13. CASE Reread(w)
  <2>1. CASE req' = [req EXCEPT ![w].pc = IF intent = "open" THEN "drop" ELSE "cancel", ![w].got = intent]
    <3> DEFINE pc == IF intent = "open" THEN "drop" ELSE "cancel"
               q == [req[w] EXCEPT !.pc = pc, !.got = intent]
    <3>1. q.op # "refund"
      BY <1>8, <1>11, <1>13 DEF Reread
    <3>2. req' = [req EXCEPT ![w] = q]
      BY <2>1
    <3> HIDE DEF q
    <3> QED BY <1>6, <3>1, <3>2
  <2> QED BY <1>2, <1>13, <2>1 DEF Reread
<1>14. CASE CancelChallenge(w)
  BY <1>2, <1>5, <1>11, <1>14 DEF CancelChallenge, Pcs
<1>15. CASE CallCapture(w) \/ CallVoid(w)
  <2>1. req[w].op # "refund" /\ \E ok \in BOOLEAN : Answered(w, ok)
    BY <1>15 DEF CallCapture, CallVoid, Call, At
  <2> QED BY <1>1, <2>1, AnsweredRequest DEF IInv
<1>16. CASE InsertPayment(w) \/ RecordDeposit(w) \/ ConfirmBooking(w)
  BY <1>2, <1>5, <1>16 DEF InsertPayment, RecordDeposit, ConfirmBooking, At, Pcs
<1> QED BY <1>2, <1>3, <1>4, <1>9, <1>10, <1>12, <1>13, <1>14, <1>15, <1>16
    DEF CardStep, Apply, Drop, FinishCapture, FinishVoid, Finish, Crash

LEMMA CardSteps ==
    ASSUME IInv, NEW w \in Workers, CardStep(w), past' \subseteq past \cup {intent'}
    PROVE  CardInv' /\ CardType' /\ LedgerInv' /\ LedgerType'
<1>1. CardInv' /\ CardType'
  BY AuthorizeCard, CallAuthorizeCard, InsertPaymentCard, RecordDepositCard, ConfirmBookingCard,
     StartSyncCard, ReadCard, ApplyCard, RereadCard, CancelChallengeCard, DropCard, ClaimCard,
     CallCard, FinishCard, CrashCard DEF IInv, CardStep
<1>2. UNCHANGED <<children, refunds, totals, heard>>
  BY DEF CardStep, Authorize, CallAuthorize, InsertPayment, RecordDeposit, ConfirmBooking, StartSync,
     Read, Apply, Reread, CancelChallenge, Drop, ClaimCapture, ClaimVoid, Claim, CallCapture, CallVoid,
     Call, FinishCapture, FinishVoid, Finish, Crash, provider
<1> QED BY <1>1, <1>2, NoRefund, LedgerUntouched DEF IInv

LEMMA RefundSteps ==
    ASSUME IInv, NEW w \in Workers, past' \subseteq past \cup {intent'},
           \/ \E amount \in 1 .. Amount : StartRefund(w, amount)
           \/ CallRefund(w)
           \/ FinishRefund(w)
    PROVE  CardInv' /\ CardType' /\ LedgerInv' /\ LedgerType'
<1>1. LedgerInv' /\ LedgerType' /\ req' \in [Workers -> Request]
  BY StartRefundLedger, CallRefundLedger, FinishRefundLedger DEF IInv
<1> QED BY <1>1, RefundStepCard DEF IInv

LEMMA OtherSteps ==
    ASSUME IInv, Provider \/ Guest \/ CancelReservation, past' \subseteq past \cup {intent'}
    PROVE  CardInv' /\ CardType' /\ LedgerInv' /\ LedgerType'
<1>1. CardInv' /\ CardType'
  BY ProviderCard, WorldlineEventCard DEF IInv, Provider
<1>2. CASE \/ Expire \/ CaptureInDashboard \/ Guest \/ CancelReservation
           \/ PaymentIntentSucceeded \/ PaymentIntentCanceled \/ PaymentIntentFailed
           \/ \E e \in IntentStatuses : WorldlineEvent(e)
  <2>1. UNCHANGED <<children, refunds, totals, heard, req>>
    BY <1>2 DEF Expire, CaptureInDashboard, PaymentIntentSucceeded, PaymentIntentCanceled,
       PaymentIntentFailed, Guest, CancelReservation, WorldlineEvent, provider
  <2> QED BY <1>1, <2>1, LedgerUntouched DEF IInv
<1>3. CASE \E n \in 1 .. Amount : RefundInDashboard(n) \/ ChargeRefunded(n)
  BY <1>1, <1>3, DashboardLedger, ChargeRefundedLedger DEF IInv
<1> QED BY <1>2, <1>3 DEF Provider

LEMMA RowSteps ==
    ASSUME IInv, Next
    PROVE  RowInv' /\ linked' \in BOOLEAN /\ refused' \in BOOLEAN
<1>1. gateway' = gateway /\ linked \in BOOLEAN /\ refused \in BOOLEAN /\ RowInv
  BY DEF IInv, TypeOK, Next
<1>2. ASSUME UNCHANGED marks, pay' = pay \/ pay' \notin {"none", "pending"}
      PROVE  RowInv' /\ linked' \in BOOLEAN /\ refused' \in BOOLEAN
  BY <1>1, <1>2 DEF RowInv, marks
<1>3. ASSUME NEW got \in IntentStatuses \ {"none", "open", "challenged"}, Finalize(Stored(got)), UNCHANGED marks
      PROVE  RowInv' /\ linked' \in BOOLEAN /\ refused' \in BOOLEAN
  <2>1. Stored(got) \notin {"none", "pending"}
    BY StoredStatus DEF IntentStatuses
  <2> QED BY <1>2, <1>3, <2>1 DEF Finalize
<1>4. ASSUME NEW w \in Workers, InsertPayment(w)
      PROVE  RowInv' /\ linked' \in BOOLEAN /\ refused' \in BOOLEAN
  <2>1. req[w].got \in IntentStatuses
    BY DEF IInv, TypeOK, Request
  <2>2. CASE Accepted(req[w].got)
    <3>1. pay' = Stored(req[w].got) /\ refused' = refused
      BY <1>4, <2>2 DEF InsertPayment
    <3>2. pay' # "none" /\ (pay' = "pending" => gateway # "stripe")
      BY <2>1, <2>2, <3>1, StoredStatus DEF Accepted
    <3>3. linked' \in BOOLEAN
      BY <1>4 DEF InsertPayment
    <3> QED BY <1>1, <3>1, <3>2, <3>3 DEF RowInv
  <2>3. CASE ~Accepted(req[w].got)
    BY <1>1, <1>4, <2>3 DEF InsertPayment, RowInv
  <2> QED BY <2>2, <2>3
<1>5. ASSUME NEW w \in Workers, Apply(w)
      PROVE  RowInv' /\ linked' \in BOOLEAN /\ refused' \in BOOLEAN
  <2>1. req[w].got \in IntentStatuses \ {"none", "open", "challenged"}
    BY <1>5 DEF IInv, TypeOK, Request, CardInv, Syncing, Apply
  <2> QED BY <1>3, <1>5, <2>1 DEF Apply
<1>6. ASSUME NEW w \in Workers, Serve(w), ~InsertPayment(w), ~Apply(w)
      PROVE  RowInv' /\ linked' \in BOOLEAN /\ refused' \in BOOLEAN
  BY <1>2, <1>6 DEF Serve, Authorize, CallAuthorize, RecordDeposit, ConfirmBooking, StartSync,
     Read, Reread, CancelChallenge, Drop, Finalize, ClaimCapture, ClaimVoid, Claim, CallCapture, CallVoid, Call,
     FinishCapture, FinishVoid, Finish, StartRefund, CallRefund, FinishRefund, Crash
<1>7. ASSUME NEW e \in IntentStatuses, WorldlineEvent(e)
      PROVE  RowInv' /\ linked' \in BOOLEAN /\ refused' \in BOOLEAN
  <2>1. e \in IntentStatuses \ {"none", "open", "challenged"}
    BY <1>7 DEF WorldlineEvent
  <2> QED BY <1>3, <1>7, <2>1 DEF WorldlineEvent
<1>8. CASE PaymentIntentFailed
  BY <1>1, <1>8 DEF PaymentIntentFailed, RowInv
<1>9. CASE \/ Guest \/ CancelReservation \/ Expire \/ CaptureInDashboard
           \/ PaymentIntentSucceeded \/ PaymentIntentCanceled
           \/ \E n \in 1 .. Amount : RefundInDashboard(n) \/ ChargeRefunded(n)
  BY <1>2, <1>9 DEF Guest, CancelReservation, Expire, CaptureInDashboard, PaymentIntentSucceeded,
     PaymentIntentCanceled, RefundInDashboard, ChargeRefunded
<1> QED BY <1>4, <1>5, <1>6, <1>7, <1>8, <1>9 DEF Next, Provider

LEMMA InitHolds == Init => IInv
<1> SUFFICES ASSUME Init PROVE IInv
  OBVIOUS
<1> USE GatewayAssumption
<1>1. TypeOK
  <2>1. refunds \in [Keys -> 0 .. Amount] /\ heard \in 0 .. Amount
    BY DEF Init
  <2>2. req \in [Workers -> Request]
    BY IdleRequest DEF Init
  <2>3. orphaned \in BOOLEAN /\ linked \in BOOLEAN /\ refused \in BOOLEAN
    BY DEF Init
  <2> QED BY <2>1, <2>2, <2>3 DEF Init, TypeOK, IntentStatuses
<1>2. \A w \in Workers : req[w] = Idle
  BY DEF Init
<1>3. \A w \in Workers : Authorizing(w) /\ Claimed(w) /\ Syncing(w) /\ Refunding(w)
  BY <1>2, IdleRequest DEF Authorizing, Claimed, Syncing, Refunding
<1>4. CardInv
  BY <1>2, <1>3, IdleRequest DEF Init, CardInv, OneAuthorizes, PastTrue, PendingSent, PaymentTruth, DepositBacked
<1>5. Booked = 0 /\ Refunded = 0
  <2>1. Booked = Cardinality(Units({})) /\ Refunded = Cardinality(KeyUnits([k \in Keys |-> 0]))
    BY DEF Init, Booked, Refunded, Units, KeyUnits
  <2> QED BY <2>1, CountNothing
<1>6. IsFiniteSet(children)
  BY FS_EmptySet DEF Init
<1>7. LedgerInv
  BY <1>3, <1>5, <1>6 DEF Init, LedgerInv, RefundsReconciled, Keys
<1>8. RowInv
  BY DEF Init, RowInv
<1> QED BY <1>1, <1>4, <1>7, <1>8 DEF IInv

LEMMA NextKeeps == IInv /\ [Next]_vars => IInv'
<1> SUFFICES ASSUME IInv, [Next]_vars PROVE IInv'
  OBVIOUS
<1>1. CASE Next
  <2>1. past' \subseteq past \cup {intent'} /\ gateway' = gateway
    BY <1>1 DEF Next
  <2>2. CardInv' /\ CardType' /\ LedgerInv' /\ LedgerType'
    BY <1>1, <2>1, CardSteps, RefundSteps, OtherSteps DEF Next, Serve, CardStep
  <2>3. RowInv' /\ linked' \in BOOLEAN /\ refused' \in BOOLEAN
    BY <1>1, RowSteps
  <2>4. past' \subseteq IntentStatuses
    BY <2>1, <2>2 DEF IInv, TypeOK, CardType
  <2>5. TypeOK'
    BY <2>1, <2>2, <2>3, <2>4 DEF IInv, TypeOK, CardType, LedgerType, PayStatuses
  <2> QED BY <2>2, <2>3, <2>5 DEF IInv
<1>2. CASE UNCHANGED vars
  <2>1. UNCHANGED <<pay, children, intent, refunds, totals, past, heard, req, orphaned, linked, refused, deposits,
                    resv, gateway>>
    BY <1>2 DEF vars, provider, marks, booking
  <2>2. TypeOK'
    BY <2>1 DEF IInv, TypeOK
  <2>3. Gentle /\ Apart /\ PendingSent' /\ DepositBacked'
    BY <2>1 DEF IInv, CardInv, Gentle, Backed, Apart, PendingSent, DepositBacked
  <2>4. PaymentTruth'
    BY <2>1, <2>3, TruthKept DEF IInv
  <2>5. CardInv'
    BY <2>1, <2>3, <2>4, StepOfNobody DEF IInv
  <2>6. LedgerInv'
    BY <2>1, LedgerUntouched DEF IInv
  <2>7. RowInv'
    BY <2>1 DEF IInv, RowInv
  <2> QED BY <2>2, <2>5, <2>6, <2>7 DEF IInv
<1> QED BY <1>1, <1>2

LEMMA Invariant == Spec => []IInv
BY InitHolds, NextKeeps, PTL DEF Spec

\* Every row, request, refund and event keeps its shape: no refund row is booked
\* for nothing or for more than the payment.
THEOREM TypeCorrect == Spec => []TypeOK
<1>1. IInv => TypeOK
  BY DEF IInv
<1> QED BY <1>1, Invariant, PTL

\* The refunds in the ledger never exceed what the provider has paid back and
\* never stay behind the last total it reported: a refund is booked up to its
\* idempotency key, and the provider has reached that total.
THEOREM Reconciled == Spec => []RefundsReconciled
<1>1. IInv => RefundsReconciled
  BY DEF IInv, LedgerInv
<1> QED BY <1>1, Invariant, PTL

\* A row that says captured or voided is right about the provider, unless a
\* request is still to find out or died while it was to.
THEOREM RowsTrue == Spec => []PaymentTruth
<1>1. IInv => PaymentTruth
  BY DEF IInv, CardInv
<1> QED BY <1>1, Invariant, PTL

\* A deposit is recorded at most once, for a payment that was authorized and that
\* only payment_intent.payment_failed can have failed since, and a booking
\* confirms itself only with its deposit.
THEOREM DepositsBacked == Spec => []DepositBacked
<1>1. IInv => DepositBacked
  BY DEF IInv, CardInv
<1> QED BY <1>1, Invariant, PTL

\* A pending payment is given up only when the provider has refused or cancelled
\* it for good, or no payment existed when the expiry last read the page.
THEOREM NoneStranded == Spec => NothingStranded
<1> DEFINE P == pay = "pending" /\ pay' = "failed" =>
                  \/ intent \in {"failed", "canceled"}
                  \/ \E w \in Workers : req[w].pc = "drop" /\ req[w].got = "open"
<1>1. IInv /\ [Next]_vars => [P]_vars
  <2> SUFFICES ASSUME IInv, Next, pay = "pending", pay' = "failed"
               PROVE  \/ intent \in {"failed", "canceled"}
                      \/ \E w \in Workers : req[w].pc = "drop" /\ req[w].got = "open"
    OBVIOUS
  <2>1. ASSUME NEW w \in Workers, Serve(w)
        PROVE  Apply(w) \/ Drop(w)
    <3>1. ~InsertPayment(w)
      BY DEF IInv, CardInv, Authorizing, InsertPayment, At
    <3> QED BY <2>1, <3>1 DEF Serve, Authorize, CallAuthorize, RecordDeposit, ConfirmBooking, StartSync,
          Read, Reread, CancelChallenge, ClaimCapture, ClaimVoid, Claim, CallCapture, CallVoid, Call,
          FinishCapture, FinishVoid, Finish, StartRefund, CallRefund, FinishRefund, Crash
  <2>2. ASSUME NEW w \in Workers, Apply(w) PROVE intent \in {"failed", "canceled"}
    <3>1. /\ req[w].got \in IntentStatuses \ {"none"}
          /\ req[w].got \in Final => intent = req[w].got
      BY <2>2 DEF IInv, TypeOK, Request, CardInv, Syncing, Apply
    <3>2. Stored(req[w].got) = "failed"
      BY <2>2 DEF Apply, Finalize
    <3> QED BY <3>1, <3>2, StoredStatus DEF Final
  <2>3. ASSUME NEW w \in Workers, Drop(w)
        PROVE  intent = "canceled" \/ (req[w].pc = "drop" /\ req[w].got = "open")
    BY <2>3 DEF IInv, CardInv, Syncing, Drop
  <2>4. ASSUME NEW e \in IntentStatuses, WorldlineEvent(e) PROVE intent \in {"failed", "canceled"}
    <3>1. e # "none" /\ (e \in Final => intent = e) /\ Stored(e) = "failed"
      BY <2>4 DEF IInv, CardInv, PastTrue, WorldlineEvent, Finalize
    <3> QED BY <3>1, StoredStatus DEF Final
  <2>5. ~(\/ Guest \/ CancelReservation \/ Expire \/ CaptureInDashboard
          \/ PaymentIntentSucceeded \/ PaymentIntentCanceled
          \/ \E n \in 1 .. Amount : RefundInDashboard(n) \/ ChargeRefunded(n))
    BY DEF Guest, CancelReservation, Expire, CaptureInDashboard, PaymentIntentSucceeded,
       PaymentIntentCanceled, RefundInDashboard, ChargeRefunded
  <2>6. ~PaymentIntentFailed
    BY DEF IInv, RowInv, PaymentIntentFailed
  <2> QED BY <2>1, <2>2, <2>3, <2>4, <2>5, <2>6 DEF Next, Provider
<1> QED BY <1>1, Invariant, PTL DEF Spec, NothingStranded

=============================================================================
