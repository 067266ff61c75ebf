-------------------- MODULE BookingRequestPaymentProofs --------------------
(***************************************************************************)
(* The money of a booking request, for every amount, every set of charges, *)
(* external payments, claims and workers.                                  *)
(*                                                                         *)
(* The argument has two levels.  Whatever an action does, to the rows, the *)
(* folio's balance, the announcements and the provider it is one of a few  *)
(* moves: one payment moves, a claim is made, settled or repeated, an      *)
(* intent or a refund grows at Stripe, the request is decided, or nothing  *)
(* of this happens (first half, one lemma per action).  Every move keeps   *)
(* the inductive invariant, and is a step of the contract of GuestMoney    *)
(* (second half, one lemma per move).                                      *)
(***************************************************************************)
EXTENDS BookingRequestPayment, FiniteSetTheorems, TLAPS

-----------------------------------------------------------------------------
(* The inductive invariant *)

Statuses == {"pending", "accepted", "denied"}

\* The part of TypeOK the argument needs: allocations and installments play
\* no role in it.
Typed ==
    /\ request \in Statuses
    /\ pay \in [Payments -> Payment]
    /\ claim \in [Claims -> Claim \cup {NoClaim}]
    /\ credit \in Int
    /\ intent \in [Cards -> SUBSET IntentEvents]
    /\ refund \in [Claims -> SUBSET RefundEvents]
    /\ req \in [Workers -> Request \cup {Idle}]

\* What Stripe may say of an intent and of a refund: one final event each, and
\* nothing before the ledger has a row for it.
ProviderInv ==
    /\ \A c \in Cards :
         /\ pay[c].status = "none" => intent[c] = {}
         /\ \A e, f \in {"succeeded", "payment_failed", "canceled"} :
              e \in intent[c] /\ f \in intent[c] => e = f
    /\ \A r \in Claims :
         /\ claim[r].type # "refund" => refund[r] = {}
         /\ ~ ({"succeeded", "failed"} \subseteq refund[r])

\* A worker serves a row that exists, and knows an answer Stripe has given.
Serving(w) ==
    req[w].pc \in {"call", "answer"} =>
        \/ /\ req[w].on \in Cards
           /\ pay[req[w].on].status # "none"
           /\ req[w].pc = "answer" => req[w].result \in intent[req[w].on] \ {"processing"}
        \/ /\ req[w].on \in Claims
           /\ claim[req[w].on].type = "refund"
           /\ req[w].pc = "answer" => req[w].result \in refund[req[w].on] \ {"pending"}

\* The claims that hold on to money of payment p.
Live(cl, p) == {r \in Claims : cl[r].payment = p /\ cl[r].status \in {"pending", "completed"}}

ClaimKinds ==
    \A r \in Claims :
        /\ claim[r].status # "none" => pay[claim[r].payment].status = "captured"
        /\ claim[r].type = "refund" => claim[r].payment \in Cards
        /\ claim[r].type = "external_return" => claim[r].payment \in Externals
        /\ claim[r].type \in {"external_return", "retained"} => claim[r].status = "completed"

\* All claims on a payment together stay within it.
ClaimsCovered == \A p \in Payments : Total(claim, Live(claim, p)) <= Amount

DecisionInv ==
    /\ request = "denied" =>
         /\ \A p \in Payments : pay[p].status # "pending"
         /\ \A r \in Claims : claim[r].status # "pending"
    /\ request # "accepted" =>
         /\ credit = 0
         /\ \A p \in Payments : ~ pay[p].folio
         /\ \A r \in Claims : ~ claim[r].folio

\* What there is to announce of a payment in status st, and of a claim.
PaymentNews(p, st) ==
    {<<"payment.received", q>> : q \in {n \in {p} : st = "captured"}}
      \cup {<<"payment.failed", q>> : q \in {n \in {p} : st \in {"failed", "voided"}}}
ClaimNews(r, row) ==
    {<<"payment.failed", q>> : q \in {n \in {r} : row.status = "failed"}}
      \cup {<<"payment.refunded", q>> :
              q \in {n \in {r} : row.status = "completed" /\ row.type # "retained"}}

RowInv == ProviderInv /\ LedgerTruth /\ ClaimKinds /\ ClaimsCovered /\ DecisionInv

IInv == Typed /\ RowInv /\ (\A w \in Workers : Serving(w)) /\ FolioCredited /\ Announced

-----------------------------------------------------------------------------
(* The moves *)

Recounted == request = "accepted" /\ credit' = Credit(pay', claim')

\* No row changes, and nothing at the provider; the balance may be recounted.
Silent ==
    /\ UNCHANGED <<request, pay, claim, told, intent, refund>>
    /\ credit' = credit \/ Recounted

\* The row of payment p is inserted, or follows what Stripe has reported, or
\* is repaired.
PaymentMoves(p) ==
    /\ UNCHANGED <<request, claim, intent, refund>>
    /\ pay' \in [Payments -> Payment]
    /\ \A q \in Payments \ {p} : pay'[q] = pay[q]
    /\ request = "denied" => pay' = pay
    /\ \/ pay'[p].status = pay[p].status
       \/ /\ pay[p].status = "none"
          /\ pay'[p].status = IF p \in Cards THEN "pending" ELSE "captured"
       \/ /\ pay[p].status = "pending" /\ p \in Cards
          /\ \/ pay'[p].status = "captured" /\ "succeeded" \in intent[p]
             \/ /\ pay'[p].status \in {"failed", "voided"}
                /\ {"payment_failed", "canceled", "requires_action"} \cap intent[p] # {}
    /\ pay'[p].status # "none"
    /\ pay'[p].folio <=> request = "accepted"
    /\ told' = told \cup PaymentNews(p, pay'[p].status)
    /\ credit' = credit \/ Recounted
    /\ request = "accepted" /\ pay'[p].status = "captured" => Recounted

\* Claim r is written, with what follows from it.
ClaimBooked(r) ==
    /\ UNCHANGED <<request, pay, intent, refund>>
    /\ claim' \in [Claims -> Claim \cup {NoClaim}]
    /\ \A q \in Claims \ {r} : claim'[q] = claim[q]
    /\ claim'[r].status # "none"
    /\ told' = told \cup ClaimNews(r, claim'[r])
    /\ claim'[r].folio => request = "accepted"
    /\ credit' = credit \/ Recounted
    /\ request = "accepted" /\ claim'[r].status = "completed" /\ claim'[r].type # "retained" =>
         claim'[r].folio /\ Recounted

ClaimMade(r) ==
    /\ ClaimBooked(r)
    /\ request # "denied"
    /\ claim[r] = NoClaim
    /\ claim'[r].payment \in Payments
    /\ pay[claim'[r].payment].status = "captured"
    /\ claim'[r].amount \in 1..Amount
    /\ claim'[r].amount <= AvailableToResolve(claim, claim'[r].payment)
    /\ \/ claim'[r].type = "refund" /\ claim'[r].payment \in Cards /\ claim'[r].status = "pending"
       \/ /\ claim'[r].type = "external_return" /\ claim'[r].payment \in Externals
          /\ claim'[r].status = "completed"
       \/ claim'[r].type = "retained" /\ request = "pending" /\ claim'[r].status = "completed"

ClaimSettled(r) ==
    /\ ClaimBooked(r)
    /\ request # "denied"
    /\ claim[r].status = "pending"
    /\ claim'[r].payment = claim[r].payment /\ claim'[r].type = claim[r].type
    /\ claim'[r].amount = claim[r].amount
    /\ \/ claim'[r].status = "completed" /\ "succeeded" \in refund[r]
       \/ claim'[r].status = "failed" /\ "failed" \in refund[r]

ClaimRepeated(r) == ClaimBooked(r) /\ claim' = claim

\* Stripe reports one more event on the intent of c, or on the refund of r.
IntentGrows(c, e) ==
    /\ UNCHANGED <<request, pay, claim, credit, told, refund>>
    /\ pay[c].status # "none"
    /\ ~Final(intent[c])
    /\ intent' = [intent EXCEPT ![c] = @ \cup {e}]

RefundGrows(r, e) ==
    /\ UNCHANGED <<request, pay, claim, credit, told, intent>>
    /\ claim[r].type = "refund"
    /\ refund[r] \subseteq {"pending"}
    /\ refund' = [refund EXCEPT ![r] = @ \cup {e}]

Move ==
    \/ Silent
    \/ \E p \in Payments : PaymentMoves(p)
    \/ \E r \in Claims : ClaimMade(r) \/ ClaimSettled(r) \/ ClaimRepeated(r)
    \/ \E c \in Cards, e \in IntentEvents : IntentGrows(c, e)
    \/ \E r \in Claims, e \in RefundEvents : RefundGrows(r, e)
    \/ Accept
    \/ Deny

\* Worker w goes on with what it knows, the others wait.
Advances(w) ==
    /\ req' \in [Workers -> Request \cup {Idle}]
    /\ \A v \in Workers \ {w} : req'[v] = req[v]
    /\ Serving(w)'

-----------------------------------------------------------------------------
(* Rows *)

LEMMA RequestRow ==
    ASSUME Typed, NEW w \in Workers, req[w].pc \in {"call", "answer"}
    PROVE  req[w] \in Request /\ req[w] # Idle
BY DEF Typed, Request, Idle

LEMMA ClaimRow ==
    ASSUME Typed, NEW r \in Claims
    PROVE  /\ claim[r].status = "none" <=> claim[r] = NoClaim
           /\ claim[r].status # "none" => claim[r] \in Claim
           /\ claim[r].type = "none" <=> claim[r] = NoClaim
           /\ claim[r].amount \in 0..Amount
<1>1. claim[r] \in Claim \cup {NoClaim}
  BY DEF Typed
<1>2. CASE claim[r] = NoClaim
  BY <1>2, PaymentAssumption DEF NoClaim
<1>3. CASE claim[r] \in Claim
  <2>1. claim[r].status # "none" /\ claim[r].type # "none"
    BY <1>3 DEF Claim
  <2>2. claim[r] # NoClaim
    BY <2>1 DEF NoClaim
  <2>3. claim[r].amount \in 0..Amount
    BY <1>3, PaymentAssumption DEF Claim
  <2> QED BY <1>3, <2>1, <2>2, <2>3
<1> QED BY <1>1, <1>2, <1>3

\* The row of claim r is replaced.
ClaimWritten(r, row) ==
    /\ claim' \in [Claims -> Claim \cup {NoClaim}]
    /\ claim'[r] = row
    /\ \A q \in Claims \ {r} : claim'[q] = claim[q]

LEMMA WriteClaim ==
    ASSUME Typed, NEW r \in Claims, NEW row \in Claim, claim' = [claim EXCEPT ![r] = row]
    PROVE  ClaimWritten(r, row)
BY DEF Typed, ClaimWritten

\* The row of payment p is replaced.
PaymentWritten(p, st, linked) ==
    /\ pay' \in [Payments -> Payment]
    /\ pay'[p].status = st
    /\ pay'[p].folio <=> linked
    /\ \A q \in Payments \ {p} : pay'[q] = pay[q]

LEMMA WritePayment ==
    ASSUME Typed, NEW p \in Payments, NEW row \in Payment, pay' = [pay EXCEPT ![p] = row]
    PROVE  PaymentWritten(p, row.status, row.folio)
BY DEF Typed, PaymentWritten

LEMMA PaymentRow ==
    ASSUME NEW st \in {"none", "pending", "captured", "failed", "voided"}, NEW linked \in BOOLEAN
    PROVE  /\ [status |-> st, folio |-> linked] \in Payment
           /\ [status |-> st, folio |-> linked].status = st
           /\ [status |-> st, folio |-> linked].folio = linked
BY DEF Payment

LEMMA EndRequest ==
    ASSUME Typed, NEW w \in Workers, req' = [req EXCEPT ![w] = Idle]
    PROVE  Advances(w)
<1>1. req'[w] = Idle /\ req' \in [Workers -> Request \cup {Idle}] /\ \A v \in Workers \ {w} : req'[v] = req[v]
  BY DEF Typed
<1>2. Serving(w)'
  BY <1>1 DEF Serving, Idle
<1> QED BY <1>1, <1>2 DEF Advances

LEMMA NewRequest ==
    ASSUME Typed, NEW w \in Workers, NEW on \in Cards \cup Claims,
           req' = [req EXCEPT ![w] = [pc |-> "call", on |-> on, result |-> None]],
           on \in Cards => pay'[on].status # "none",
           on \in Claims => claim'[on].type = "refund"
    PROVE  Advances(w)
<1> DEFINE q == [pc |-> "call", on |-> on, result |-> None]
<1>1. q \in Request /\ q.pc = "call" /\ q.on = on
  BY DEF Request
<1>2. req' = [req EXCEPT ![w] = q]
  OBVIOUS
<1> HIDE DEF q
<1>3. req'[w] = q /\ req' \in [Workers -> Request \cup {Idle}] /\ \A v \in Workers \ {w} : req'[v] = req[v]
  BY <1>1, <1>2 DEF Typed
<1>4. Serving(w)'
  BY <1>1, <1>3 DEF Serving
<1> QED BY <1>3, <1>4 DEF Advances

\* The answer of a call is known once it is one Stripe has given.
LEMMA AnsweredRequest ==
    ASSUME Typed, NEW w \in Workers, NEW e, NEW open \in BOOLEAN,
           req[w].pc = "call", Answered(w, e, open),
           ~open => \/ /\ req[w].on \in Cards /\ e \in IntentEvents
                       /\ pay'[req[w].on].status # "none"
                       /\ e \in intent'[req[w].on] \ {"processing"}
                    \/ /\ req[w].on \in Claims /\ e \in RefundEvents
                       /\ claim'[req[w].on].type = "refund"
                       /\ e \in refund'[req[w].on] \ {"pending"}
    PROVE  Advances(w)
<1>1. CASE open
  BY <1>1, EndRequest DEF Answered
<1>2. CASE ~open
  <2> DEFINE q == [req[w] EXCEPT !.pc = "answer", !.result = e]
  <2>1. req[w] \in Request
    BY RequestRow
  <2>2. q \in Request /\ q.pc = "answer" /\ q.on = req[w].on /\ q.result = e
    BY <1>2, <2>1 DEF Request
  <2>3. req' = [req EXCEPT ![w] = q]
    BY <1>2 DEF Answered
  <2> HIDE DEF q
  <2>4. req'[w] = q /\ req' \in [Workers -> Request \cup {Idle}] /\ \A v \in Workers \ {w} : req'[v] = req[v]
    BY <2>2, <2>3 DEF Typed
  <2>5. Serving(w)'
    BY <1>2, <2>2, <2>4 DEF Serving
  <2> QED BY <2>4, <2>5 DEF Advances
<1> QED BY <1>1, <1>2

\* A row is linked to the folio exactly when the request has one.
LEMMA Linked ==
    ASSUME IInv, NEW p \in Payments, pay[p].status # "none"
    PROVE  pay[p].folio <=> request = "accepted"
BY DEF IInv, RowInv, DecisionInv, FolioCredited

LEMMA Apart == Cards \cap Claims = {} /\ Externals \cap Cards = {} /\ Cards \subseteq Payments /\ Externals \subseteq Payments
BY PaymentAssumption DEF Payments

-----------------------------------------------------------------------------
(* Every action is a move *)

LEMMA InstallmentMove ==
    ASSUME NEW i, NEW a, NEW p,
           CreateInstallment(i, a) \/ UpdateInstallment(i, a) \/ DeleteInstallment(i) \/ AllocatePayment(p, i, a)
    PROVE  Silent /\ req' = req
BY DEF CreateInstallment, UpdateInstallment, DeleteInstallment, AllocatePayment, Silent, provider

LEMMA StartChargeMove ==
    ASSUME IInv, NEW w \in Workers, NEW c \in Cards, StartCharge(w, c)
    PROVE  (Silent \/ PaymentMoves(c)) /\ Advances(w)
<1>1. Typed /\ c \in Payments /\ request # "denied" /\ (request = "accepted") \in BOOLEAN
  BY Apart DEF IInv, StartCharge
<1>2. UNCHANGED <<request, claim, credit, told, intent, refund>>
  BY DEF StartCharge, provider
<1>3. CASE pay[c].status = "none" /\ pay' = [pay EXCEPT ![c] = [status |-> "pending", folio |-> request = "accepted"]]
  <2>1. PaymentWritten(c, "pending", request = "accepted")
    BY <1>1, <1>3, PaymentRow, WritePayment
  <2>2. PaymentNews(c, "pending") = {}
    BY DEF PaymentNews
  <2>3. PaymentMoves(c)
    BY <1>1, <1>2, <1>3, <2>1, <2>2 DEF PaymentMoves, PaymentWritten
  <2>4. pay'[c].status # "none"
    BY <2>1 DEF PaymentWritten
  <2> QED BY <1>1, <2>3, <2>4, NewRequest, Apart DEF StartCharge
<1>4. CASE pay[c].status = "pending" /\ UNCHANGED pay
  <2>1. Silent
    BY <1>2, <1>4 DEF Silent
  <2>2. pay'[c].status # "none"
    BY <1>4
  <2> QED BY <1>1, <2>1, <2>2, NewRequest, Apart DEF StartCharge
<1> QED BY <1>3, <1>4 DEF StartCharge

LEMMA ReplayChargeMove ==
    ASSUME IInv, NEW c \in Cards, ReplayCharge(c)
    PROVE  PaymentMoves(c) /\ req' = req
<1>1. Typed /\ c \in Payments /\ request # "denied" /\ pay[c] \in Payment /\ (pay[c].folio <=> request = "accepted")
  BY Apart, Linked DEF IInv, ReplayCharge, Typed
<1>2. UNCHANGED <<request, claim, intent, refund, req>>
  BY DEF ReplayCharge, provider
<1>3. CASE pay[c].status = "captured"
  <2> DEFINE row == [pay[c] EXCEPT !.folio = pay[c].folio \/ request = "accepted"]
  <2>1. row \in Payment /\ row.status = "captured"
    BY <1>1, <1>3 DEF Payment
  <2>2. row.folio <=> request = "accepted"
    BY <1>1 DEF Payment
  <2>3. pay' = [pay EXCEPT ![c] = row]
    BY <1>3 DEF ReplayCharge
  <2> HIDE DEF row
  <2>4. PaymentWritten(c, "captured", request = "accepted")
    BY <1>1, <2>1, <2>2, <2>3, WritePayment DEF PaymentWritten
  <2>5. told' = told \cup PaymentNews(c, "captured")
    BY <1>3 DEF ReplayCharge, Announce, PaymentNews
  <2>6. credit' = IF pay'[c].folio THEN Credit(pay', claim') ELSE credit
    BY <1>3 DEF ReplayCharge, RecalculateBalance
  <2> QED BY <1>1, <1>2, <1>3, <2>4, <2>5, <2>6 DEF PaymentMoves, PaymentWritten, Recounted
<1>4. CASE pay[c].status = "failed"
  <2>1. told' = told \cup PaymentNews(c, "failed") /\ pay' = pay /\ credit' = credit
    BY <1>4 DEF ReplayCharge, Announce, PaymentNews
  <2> QED BY <1>1, <1>2, <1>4, <2>1 DEF PaymentMoves, Typed
<1> QED BY <1>3, <1>4 DEF ReplayCharge

LEMMA CallChargeMove ==
    ASSUME IInv, NEW w \in Workers, CallCharge(w)
    PROVE  (Silent \/ \E c \in Cards, e \in IntentEvents : IntentGrows(c, e)) /\ Advances(w)
<1>1. PICK c \in Cards : c = req[w].on
  BY DEF CallCharge
<1>2. Typed /\ req[w].pc = "call" /\ pay[c].status # "none" /\ intent[c] \in SUBSET IntentEvents
  BY <1>1, Apart DEF IInv, Typed, CallCharge, Serving
<1>3. PICK h \in Received(intent[c], {"processing", "requires_action", "succeeded", "payment_failed"}) :
        /\ intent' = [intent EXCEPT ![c] = h]
        /\ \/ \E e \in IntentEvents : FirstAnswer(h, e) /\ Answered(w, e, e = "processing")
           \/ Answered(w, "unknown", TRUE)
  BY <1>1 DEF CallCharge
<1>4. UNCHANGED <<request, pay, claim, credit, told, refund>>
  BY DEF CallCharge, ledger
<1>5. intent'[c] = h
  BY <1>2, <1>3 DEF Typed
<1>6. Advances(w)
  <2>1. CASE Answered(w, "unknown", TRUE)
    BY <1>2, <2>1, AnsweredRequest
  <2>2. ASSUME NEW e \in IntentEvents, FirstAnswer(h, e), Answered(w, e, e = "processing")
        PROVE  Advances(w)
    <3>1. e \in intent'[c] /\ pay'[c].status # "none"
      BY <1>2, <1>4, <1>5, <2>2 DEF FirstAnswer
    <3>2. (e = "processing") \in BOOLEAN
      OBVIOUS
    <3> QED BY <1>1, <1>2, <2>2, <3>1, <3>2, AnsweredRequest
  <2> QED BY <1>3, <2>1, <2>2
<1>7. CASE h = intent[c]
  BY <1>2, <1>3, <1>4, <1>6, <1>7 DEF Silent, Typed
<1>8. CASE h # intent[c]
  <2>1. PICK e \in {"processing", "requires_action", "succeeded", "payment_failed"} : intent[c] = {} /\ h = {e}
    BY <1>3, <1>8 DEF Received
  <2>2. intent' = [intent EXCEPT ![c] = @ \cup {e}] /\ ~Final(intent[c])
    BY <1>3, <2>1 DEF Final
  <2>3. IntentGrows(c, e) /\ e \in IntentEvents
    BY <1>2, <1>4, <2>2 DEF IntentGrows, IntentEvents
  <2> QED BY <1>6, <2>3
<1> QED BY <1>7, <1>8

LEMMA CallRefundMove ==
    ASSUME IInv, NEW w \in Workers, CallRefund(w)
    PROVE  (Silent \/ \E r \in Claims, e \in RefundEvents : RefundGrows(r, e)) /\ Advances(w)
<1>1. PICK r \in Claims : r = req[w].on
  BY DEF CallRefund
<1>2. Typed /\ req[w].pc = "call" /\ claim[r].type = "refund" /\ refund[r] \in SUBSET RefundEvents
  BY <1>1, Apart DEF IInv, Typed, CallRefund, Serving
<1>3. PICK h \in Received(refund[r], RefundEvents) :
        /\ refund' = [refund EXCEPT ![r] = h]
        /\ \/ \E e \in h : /\ "pending" \in h => e = "pending"
                           /\ Answered(w, e, e = "pending")
           \/ Answered(w, "unknown", TRUE)
  BY <1>1 DEF CallRefund
<1>4. UNCHANGED <<request, pay, claim, credit, told, intent>>
  BY DEF CallRefund, ledger
<1>5. refund'[r] = h /\ h \subseteq RefundEvents
  BY <1>2, <1>3 DEF Typed, Received
<1>6. Advances(w)
  <2>1. CASE Answered(w, "unknown", TRUE)
    BY <1>2, <2>1, AnsweredRequest
  <2>2. ASSUME NEW e \in h, Answered(w, e, e = "pending")
        PROVE  Advances(w)
    <3>1. e \in refund'[r] /\ claim'[r].type = "refund" /\ e \in RefundEvents
      BY <1>2, <1>4, <1>5, <2>2
    <3>2. (e = "pending") \in BOOLEAN
      OBVIOUS
    <3> QED BY <1>1, <1>2, <2>2, <3>1, <3>2, AnsweredRequest
  <2> QED BY <1>3, <2>1, <2>2
<1>7. CASE h = refund[r]
  BY <1>2, <1>3, <1>4, <1>6, <1>7 DEF Silent, Typed
<1>8. CASE h # refund[r]
  <2>1. PICK e \in RefundEvents : refund[r] = {} /\ h = {e}
    BY <1>3, <1>8 DEF Received
  <2>2. refund' = [refund EXCEPT ![r] = @ \cup {e}] /\ refund[r] \subseteq {"pending"}
    BY <1>3, <2>1
  <2>3. RefundGrows(r, e)
    BY <1>2, <1>4, <2>2 DEF RefundGrows
  <2> QED BY <1>6, <2>3
<1> QED BY <1>7, <1>8

LEMMA FinishChargeMove ==
    ASSUME IInv, NEW w \in Workers, FinishCharge(w)
    PROVE  (Silent \/ \E c \in Cards : PaymentMoves(c)) /\ Advances(w)
<1>1. PICK c \in Cards : c = req[w].on
  BY DEF FinishCharge
<1>2. /\ Typed /\ c \in Payments /\ (request = "accepted") \in BOOLEAN
      /\ req[w].result \in intent[c] \ {"processing"} /\ intent[c] \in SUBSET IntentEvents
  BY <1>1, Apart DEF IInv, Typed, FinishCharge, Serving
<1>3. Advances(w)
  BY <1>2, EndRequest DEF FinishCharge
<1>4. CASE UNCHANGED ledger
  BY <1>3, <1>4 DEF FinishCharge, ledger, provider, Silent
<1>5. CASE ~ UNCHANGED ledger
  <2> DEFINE status == IF req[w].result = "succeeded" THEN "captured" ELSE "failed"
  <2>1. /\ request # "denied" /\ pay[c].status = "pending"
        /\ pay' = [pay EXCEPT ![c] = [status |-> status, folio |-> request = "accepted"]]
        /\ Announce(IF status = "captured" THEN "payment.received" ELSE "payment.failed", c)
        /\ UNCHANGED <<request, claim, intent, refund>>
        /\ RecalculateBalance(status = "captured" /\ pay'[c].folio)
    BY <1>1, <1>5 DEF FinishCharge, provider
  <2>2. /\ status \in {"captured", "failed"}
        /\ status = "captured" => "succeeded" \in intent[c]
        /\ status = "failed" => {"payment_failed", "canceled", "requires_action"} \cap intent[c] # {}
    BY <1>2 DEF IntentEvents
  <2> HIDE DEF status
  <2>3. PaymentWritten(c, status, request = "accepted")
    BY <1>2, <2>1, <2>2, PaymentRow, WritePayment
  <2>4. told' = told \cup PaymentNews(c, status)
    BY <2>1, <2>2 DEF Announce, PaymentNews
  <2>5. credit' = IF status = "captured" /\ pay'[c].folio THEN Credit(pay', claim') ELSE credit
    BY <2>1 DEF RecalculateBalance
  <2>6. PaymentMoves(c)
    BY <2>1, <2>2, <2>3, <2>4, <2>5 DEF PaymentMoves, PaymentWritten, Recounted
  <2> QED BY <1>3, <2>6
<1> QED BY <1>4, <1>5

LEMMA CrashMove ==
    ASSUME IInv, NEW w \in Workers, Crash(w)
    PROVE  Silent /\ Advances(w)
BY EndRequest DEF IInv, Crash, ledger, provider, Silent

LEMMA RecordExternalPaymentMove ==
    ASSUME IInv, NEW x \in Externals, RecordExternalPayment(x)
    PROVE  PaymentMoves(x) /\ req' = req
<1>1. Typed /\ x \in Payments /\ x \notin Cards /\ request # "denied" /\ (request = "accepted") \in BOOLEAN
  BY Apart DEF IInv, RecordExternalPayment
<1>2. UNCHANGED <<request, claim, intent, refund, req>>
  BY DEF RecordExternalPayment, provider
<1>3. /\ PaymentWritten(x, "captured", request = "accepted")
      /\ pay[x].status \in {"none", "captured"}
  <2>1. CASE pay[x].status = "none" /\ pay' = [pay EXCEPT ![x] = [status |-> "captured", folio |-> request = "accepted"]]
    BY <1>1, <2>1, PaymentRow, WritePayment
  <2>2. CASE pay[x].status = "captured" /\ pay' = pay
    BY <1>1, <2>2, Linked DEF PaymentWritten, Typed
  <2> QED BY <2>1, <2>2 DEF RecordExternalPayment
<1>4. told' = told \cup PaymentNews(x, "captured")
  BY DEF RecordExternalPayment, Announce, PaymentNews
<1>5. credit' = IF pay'[x].folio THEN Credit(pay', claim') ELSE credit
  BY DEF RecordExternalPayment, RecalculateBalance
<1> QED BY <1>1, <1>2, <1>3, <1>4, <1>5 DEF PaymentMoves, PaymentWritten, Recounted

LEMMA BookMovementMove ==
    ASSUME NEW r \in Claims, BookMovement(r), UNCHANGED <<request, intent, refund>>,
           claim' \in [Claims -> Claim \cup {NoClaim}],
           \A q \in Claims \ {r} : claim'[q] = claim[q],
           claim'[r].status = "completed", claim'[r].type # "retained",
           claim'[r].folio <=> request = "accepted"
    PROVE  ClaimBooked(r)
<1>1. told' = told \cup ClaimNews(r, claim'[r])
  BY DEF BookMovement, Announce, ClaimNews
<1>2. pay' = pay /\ credit' = IF claim'[r].folio THEN Credit(pay', claim') ELSE credit
  BY DEF BookMovement, RecalculateBalance
<1> QED BY <1>1, <1>2 DEF ClaimBooked, Recounted

LEMMA RepairMove ==
    ASSUME IInv, NEW r \in Claims, BookMovement(r), UNCHANGED <<request, claim, intent, refund>>,
           claim[r].status = "completed", claim[r].type # "retained"
    PROVE  ClaimRepeated(r)
<1>1. claim[r].folio <=> request = "accepted"
  BY DEF IInv, RowInv, DecisionInv, FolioCredited
<1>2. claim' \in [Claims -> Claim \cup {NoClaim}]
  BY DEF IInv, Typed
<1> QED BY <1>1, <1>2, BookMovementMove DEF ClaimRepeated

LEMMA RecordExternalReturnMove ==
    ASSUME IInv, NEW r \in Claims, NEW x \in Externals, NEW a \in 1..Amount, RecordExternalReturn(r, x, a)
    PROVE  (ClaimMade(r) \/ ClaimRepeated(r)) /\ req' = req
<1> DEFINE row == [payment |-> x, type |-> "external_return", amount |-> a, status |-> "completed",
                   folio |-> request = "accepted"]
<1>1. Typed /\ x \in Payments /\ request # "denied" /\ pay[x].status = "captured"
  BY Apart DEF IInv, RecordExternalReturn
<1>2. UNCHANGED <<request, intent, refund, req>> /\ BookMovement(r)
  BY DEF RecordExternalReturn, provider
<1>3. /\ row \in Claim
      /\ row.payment = x /\ row.type = "external_return" /\ row.amount = a /\ row.status = "completed"
  BY <1>1 DEF Claim
<1>4. row.folio = (request = "accepted")
  OBVIOUS
<1>5. CASE claim[r] = NoClaim /\ a <= AvailableToResolve(claim, x) /\ claim' = [claim EXCEPT ![r] = row]
  <2> HIDE DEF row
  <2>1. ClaimWritten(r, row)
    BY <1>1, <1>3, <1>5, WriteClaim
  <2>2. ClaimBooked(r)
    BY <1>2, <1>3, <1>4, <2>1, BookMovementMove DEF ClaimWritten
  <2>3. pay' = pay
    BY <1>2 DEF BookMovement
  <2> QED BY <1>1, <1>2, <1>3, <1>5, <2>1, <2>2, <2>3 DEF ClaimMade, ClaimWritten
<1>6. CASE claim[r] \in {row, [row EXCEPT !.folio = TRUE]} /\ UNCHANGED claim
  <2>1. claim[r].status = "completed" /\ claim[r].type # "retained"
    BY <1>6
  <2> QED BY <1>2, <1>6, <2>1, RepairMove
<1> QED BY <1>5, <1>6 DEF RecordExternalReturn

LEMMA RetainForDenialMove ==
    ASSUME IInv, NEW r \in Claims, NEW p \in Payments, NEW a \in 1..Amount, RetainForDenial(r, p, a)
    PROVE  ClaimMade(r) /\ req' = req
<1> DEFINE row == [payment |-> p, type |-> "retained", amount |-> a, status |-> "completed", folio |-> FALSE]
<1>1. /\ Typed /\ request = "pending" /\ pay[p].status = "captured" /\ claim[r] = NoClaim
      /\ a <= AvailableToResolve(claim, p)
      /\ UNCHANGED <<request, pay, credit, told, intent, refund, req>>
  BY DEF IInv, RetainForDenial, provider
<1>2. /\ row \in Claim
      /\ row.payment = p /\ row.type = "retained" /\ row.amount = a /\ row.status = "completed"
  BY DEF Claim
<1>3. ~ row.folio
  OBVIOUS
<1>4. claim' = [claim EXCEPT ![r] = row]
  BY DEF RetainForDenial
<1> HIDE DEF row
<1>5. ClaimWritten(r, row)
  BY <1>1, <1>2, <1>4, WriteClaim
<1>6. ClaimNews(r, claim'[r]) = {}
  BY <1>2, <1>5 DEF ClaimNews, ClaimWritten
<1>7. ClaimBooked(r)
  BY <1>1, <1>2, <1>3, <1>5, <1>6 DEF ClaimBooked, ClaimWritten
<1> QED BY <1>1, <1>2, <1>5, <1>7 DEF ClaimMade, ClaimWritten

LEMMA StartRefundMove ==
    ASSUME IInv, NEW w \in Workers, NEW r \in Claims, NEW c \in Cards, NEW a \in 1..Amount, StartRefund(w, r, c, a)
    PROVE  (ClaimMade(r) \/ Silent) /\ Advances(w)
<1> DEFINE row == [payment |-> c, type |-> "refund", amount |-> a, status |-> "pending", folio |-> FALSE]
<1>1. /\ Typed /\ request # "denied" /\ pay[c].status = "captured" /\ c \in Payments /\ r \notin Cards
      /\ UNCHANGED <<request, pay, credit, told, intent, refund>>
      /\ req' = [req EXCEPT ![w] = [pc |-> "call", on |-> r, result |-> None]]
  BY Apart DEF IInv, StartRefund, provider
<1>2. /\ row \in Claim
      /\ row.payment = c /\ row.type = "refund" /\ row.amount = a /\ row.status = "pending"
  BY <1>1 DEF Claim
<1>3. ~ row.folio
  OBVIOUS
<1>4. CASE claim[r] = NoClaim /\ a <= AvailableToResolve(claim, c) /\ claim' = [claim EXCEPT ![r] = row]
  <2> HIDE DEF row
  <2>1. ClaimWritten(r, row)
    BY <1>1, <1>2, <1>4, WriteClaim
  <2>2. ClaimNews(r, claim'[r]) = {}
    BY <1>2, <2>1 DEF ClaimNews, ClaimWritten
  <2>3. ClaimBooked(r)
    BY <1>1, <1>2, <1>3, <2>1, <2>2 DEF ClaimBooked, ClaimWritten
  <2>4. claim'[r].type = "refund"
    BY <1>2, <2>1 DEF ClaimWritten
  <2>5. ClaimMade(r)
    BY <1>1, <1>2, <1>4, <2>1, <2>3 DEF ClaimMade, ClaimWritten
  <2> QED BY <1>1, <2>4, <2>5, NewRequest
<1>5. CASE claim[r] = row /\ UNCHANGED claim
  <2>1. claim'[r].type = "refund"
    BY <1>2, <1>5
  <2>2. Silent
    BY <1>1, <1>5 DEF Silent
  <2> QED BY <1>1, <2>1, <2>2, NewRequest
<1> QED BY <1>4, <1>5 DEF StartRefund

LEMMA FailRefundMove ==
    ASSUME IInv, NEW r \in Claims, FailRefund(r), UNCHANGED <<intent, refund>>,
           claim[r].status \in {"pending", "failed"}, "failed" \in refund[r]
    PROVE  ClaimSettled(r) \/ ClaimRepeated(r)
<1> DEFINE row == [claim[r] EXCEPT !.status = "failed"]
<1>1. Typed /\ claim[r] \in Claim
  BY ClaimRow DEF IInv
<1>2. /\ row \in Claim /\ row.status = "failed" /\ row.payment = claim[r].payment /\ row.type = claim[r].type
      /\ row.amount = claim[r].amount
  BY <1>1 DEF Claim
<1>3. row.folio = claim[r].folio
  BY <1>1 DEF Claim
<1>4. claim' = [claim EXCEPT ![r] = row] /\ UNCHANGED <<request, pay, credit>>
  BY DEF FailRefund
<1>5. claim[r].status = "failed" => claim' = claim
  <2>1. claim[r].status = "failed" => row = claim[r]
    BY <1>1 DEF Claim
  <2> HIDE DEF row
  <2> QED BY <1>1, <1>4, <2>1 DEF Typed
<1> HIDE DEF row
<1>6. ClaimWritten(r, row)
  BY <1>1, <1>2, <1>4, WriteClaim
<1>7. told' = told \cup ClaimNews(r, claim'[r])
  BY <1>2, <1>6 DEF FailRefund, Announce, ClaimNews, ClaimWritten
<1>8. claim'[r].folio => request = "accepted"
  BY <1>3, <1>6 DEF ClaimWritten, IInv, RowInv, DecisionInv
<1>9. ClaimBooked(r)
  BY <1>2, <1>4, <1>6, <1>7, <1>8 DEF ClaimBooked, ClaimWritten
<1>10. claim[r].status = "pending" => request # "denied"
  BY DEF IInv, RowInv, DecisionInv
<1> QED BY <1>2, <1>5, <1>6, <1>9, <1>10 DEF ClaimWritten, ClaimSettled, ClaimRepeated

LEMMA CompleteRefundMove ==
    ASSUME IInv, NEW r \in Claims, CompleteRefund(r), UNCHANGED <<intent, refund>>,
           claim[r].status = "pending", "succeeded" \in refund[r], request # "denied"
    PROVE  ClaimSettled(r)
<1> DEFINE row == [claim[r] EXCEPT !.status = "completed", !.folio = request = "accepted"]
<1>1. Typed /\ claim[r] \in Claim /\ claim[r].type = "refund"
  <2>1. claim[r] \in Claim
    BY ClaimRow DEF IInv
  <2> QED BY <2>1 DEF IInv, RowInv, ProviderInv
<1>2. /\ row \in Claim /\ row.status = "completed" /\ row.payment = claim[r].payment /\ row.type = "refund"
      /\ row.amount = claim[r].amount
  BY <1>1 DEF Claim
<1>3. row.folio = (request = "accepted")
  BY <1>1 DEF Claim
<1>4. claim' = [claim EXCEPT ![r] = row] /\ request' = request /\ BookMovement(r)
  BY DEF CompleteRefund
<1> HIDE DEF row
<1>5. ClaimWritten(r, row)
  BY <1>1, <1>2, <1>4, WriteClaim
<1>6. ClaimBooked(r)
  BY <1>2, <1>3, <1>4, <1>5, BookMovementMove DEF ClaimWritten
<1> QED BY <1>1, <1>2, <1>5, <1>6 DEF ClaimWritten, ClaimSettled

LEMMA RefundKind ==
    ASSUME IInv, NEW r \in Claims, refund[r] # {}
    PROVE  claim[r].type = "refund"
BY DEF IInv, RowInv, ProviderInv

LEMMA ReplayRefundMove ==
    ASSUME IInv, NEW r \in Claims, ReplayRefund(r)
    PROVE  ClaimRepeated(r) /\ req' = req
BY RepairMove DEF ReplayRefund, RepairRefund, provider

LEMMA FinishRefundMove ==
    ASSUME IInv, NEW w \in Workers, FinishRefund(w)
    PROVE  (Silent \/ \E r \in Claims : ClaimSettled(r) \/ ClaimRepeated(r)) /\ Advances(w)
<1>1. PICK r \in Claims : r = req[w].on
  BY DEF FinishRefund
<1>2. /\ Typed /\ claim[r].type = "refund" /\ req[w].result \in refund[r]
      /\ UNCHANGED <<intent, refund>>
  BY <1>1, Apart DEF IInv, FinishRefund, Serving, provider
<1>3. Advances(w)
  BY <1>2, EndRequest DEF FinishRefund
<1>4. CASE UNCHANGED ledger
  BY <1>2, <1>3, <1>4 DEF ledger, Silent
<1>5. CASE req[w].result = "failed" /\ claim[r].status = "pending" /\ FailRefund(r)
  BY <1>2, <1>3, <1>5, FailRefundMove
<1>6. CASE request # "denied" /\ req[w].result = "succeeded" /\ claim[r].status = "pending" /\ CompleteRefund(r)
  BY <1>2, <1>3, <1>6, CompleteRefundMove
<1>7. CASE claim[r].status = "completed" /\ RepairRefund(r)
  BY <1>2, <1>3, <1>7, RepairMove DEF RepairRefund
<1> QED BY <1>1, <1>4, <1>5, <1>6, <1>7 DEF FinishRefund

LEMMA RefundUpdatedMove ==
    ASSUME IInv, NEW r \in Claims, NEW e \in RefundEvents, RefundUpdated(r, e)
    PROVE  (ClaimSettled(r) \/ ClaimRepeated(r)) /\ req' = req
<1>1. e \in refund[r] /\ claim[r].type = "refund" /\ UNCHANGED <<intent, refund, req>>
  BY RefundKind DEF RefundUpdated, provider
<1>2. CASE e = "failed" /\ claim[r].status \in {"pending", "failed"} /\ FailRefund(r)
  BY <1>1, <1>2, FailRefundMove
<1>3. CASE e = "succeeded" /\ claim[r].status = "pending" /\ request # "denied" /\ CompleteRefund(r)
  BY <1>1, <1>3, CompleteRefundMove
<1>4. CASE claim[r].status = "completed" /\ RepairRefund(r)
  BY <1>1, <1>4, RepairMove DEF RepairRefund
<1> QED BY <1>2, <1>3, <1>4 DEF RefundUpdated

LEMMA ChargeRefundedMove ==
    ASSUME IInv, NEW c \in Cards, ChargeRefunded(c)
    PROVE  Silent /\ req' = req
<1>1. /\ UNCHANGED <<request, pay, claim, told, intent, refund, req>>
      /\ credit' = IF request = "accepted" \/ pay[c].folio THEN Credit(pay', claim') ELSE credit
  BY DEF ChargeRefunded, RecalculateBalance, provider
<1>2. pay[c].folio => request = "accepted"
  BY Apart DEF IInv, RowInv, DecisionInv
<1> QED BY <1>1, <1>2 DEF Silent, Recounted

LEMMA SettleIntentMove ==
    ASSUME IInv, NEW c \in Cards, SettleIntent(c)
    PROVE  (\E e \in IntentEvents : IntentGrows(c, e)) /\ req' = req
<1>1. pay[c].status # "none"
  BY DEF SettleIntent, IInv, RowInv, ProviderInv
<1>2. PICK e \in {"succeeded", "payment_failed", "canceled", "requires_action"} \ intent[c] :
         intent' = [intent EXCEPT ![c] = @ \cup {e}]
  BY DEF SettleIntent
<1>3. IntentGrows(c, e) /\ e \in IntentEvents /\ req' = req
  BY <1>1, <1>2 DEF SettleIntent, IntentGrows, IntentEvents, ledger
<1> QED BY <1>3

LEMMA SettleRefundMove ==
    ASSUME IInv, NEW r \in Claims, SettleRefund(r)
    PROVE  (\E e \in RefundEvents : RefundGrows(r, e)) /\ req' = req
<1>1. claim[r].type = "refund"
  BY RefundKind DEF SettleRefund
<1>2. PICK e \in {"succeeded", "failed"} : refund' = [refund EXCEPT ![r] = @ \cup {e}]
  BY DEF SettleRefund
<1>3. RefundGrows(r, e) /\ e \in RefundEvents /\ req' = req
  BY <1>1, <1>2 DEF SettleRefund, RefundGrows, RefundEvents, ledger
<1> QED BY <1>3

LEMMA PaymentIntentEventMove ==
    ASSUME IInv, NEW c \in Cards, NEW e \in IntentEvents, PaymentIntentEvent(c, e)
    PROVE  PaymentMoves(c) /\ req' = req
<1> DEFINE target == TargetStatus(e)
           linked == request = "accepted" \/ pay[c].folio
           repair == pay[c].status = target
<1>1. /\ Typed /\ c \in Payments /\ e \in intent[c] /\ pay[c] \in Payment
      /\ UNCHANGED <<request, claim, intent, refund, req>>
  BY Apart DEF IInv, Typed, PaymentIntentEvent, provider
<1>2. pay[c].status # "none" /\ (pay[c].folio <=> request = "accepted")
  BY <1>1, Linked DEF IInv, RowInv, ProviderInv
<1>3. /\ target \in {"captured", "failed", "voided", "pending"}
      /\ target = "captured" => "succeeded" \in intent[c]
      /\ target = "failed" => {"payment_failed", "canceled", "requires_action"} \cap intent[c] # {}
      /\ target = "voided" => "canceled" \in intent[c]
      /\ target = "pending" <=> e = "processing"
      /\ target = "captured" <=> e = "succeeded"
  BY <1>1 DEF TargetStatus, IntentEvents
<1>4. linked \in BOOLEAN /\ (linked <=> request = "accepted")
  BY <1>1, <1>2 DEF Payment
<1>5. /\ repair \/ (pay[c].status = "pending" /\ target # "pending")
      /\ ~ (target = "captured" /\ request = "denied" /\ pay[c].status # "captured")
  BY <1>3 DEF PaymentIntentEvent
<1>6. /\ pay' = [pay EXCEPT ![c] = [status |-> target, folio |-> linked]]
      /\ told' = told \cup (IF target = "pending" THEN {}
                            ELSE {<<IF target = "captured" THEN "payment.received"
                                    ELSE "payment.failed", c>>})
      /\ credit' = IF linked /\ (target = "captured" \/ (repair /\ target # "pending"))
                   THEN Credit(pay', claim') ELSE credit
  BY DEF PaymentIntentEvent, RecalculateBalance
<1> HIDE DEF target, linked
<1>7. PaymentWritten(c, target, request = "accepted")
  BY <1>1, <1>3, <1>4, <1>6, PaymentRow, WritePayment DEF PaymentWritten
<1>8. told' = told \cup PaymentNews(c, target)
  BY <1>3, <1>6 DEF PaymentNews
<1>9. request = "denied" => pay' = pay
  <2> SUFFICES ASSUME request = "denied" PROVE pay' = pay
    OBVIOUS
  <2>1. pay[c].status # "pending"
    BY <1>1 DEF IInv, RowInv, DecisionInv
  <2>2. pay'[c].status = pay[c].status /\ ~ pay'[c].folio /\ ~ pay[c].folio
    BY <1>2, <1>5, <1>7, <2>1 DEF PaymentWritten
  <2>3. pay'[c] \in Payment
    BY <1>1, <1>7 DEF PaymentWritten
  <2>4. pay'[c] = pay[c]
    BY <1>1, <2>2, <2>3 DEF Payment
  <2> QED BY <1>1, <1>7, <2>4 DEF PaymentWritten, Typed
<1>10. credit' = credit \/ Recounted
  BY <1>4, <1>6 DEF Recounted
<1>11. request = "accepted" /\ target = "captured" => Recounted
  BY <1>4, <1>6 DEF Recounted
<1> QED BY <1>1, <1>3, <1>5, <1>7, <1>8, <1>9, <1>10, <1>11 DEF PaymentMoves, PaymentWritten

\* Every step is a move, of nobody or of one worker.
LEMMA StepMoves ==
    ASSUME IInv, Next
    PROVE  Move /\ (req' = req \/ \E w \in Workers : Advances(w))
<1> USE DEF Move
<1>1. CASE Staff
  <2>1. CASE Accept \/ Deny
    BY <2>1 DEF Accept, Deny
  <2>2. CASE \E i \in Installments :
              \/ \E a \in 1..Amount : CreateInstallment(i, a) \/ UpdateInstallment(i, a)
              \/ DeleteInstallment(i)
              \/ \E p \in Payments, a \in 1..Amount : AllocatePayment(p, i, a)
    BY <2>2, InstallmentMove
  <2>3. CASE \E x \in Externals : RecordExternalPayment(x)
    BY <2>3, RecordExternalPaymentMove, Apart
  <2>4. CASE \E r \in Claims, x \in Externals, a \in 1..Amount : RecordExternalReturn(r, x, a)
    BY <2>4, RecordExternalReturnMove
  <2>5. CASE \E r \in Claims, p \in Payments, a \in 1..Amount : RetainForDenial(r, p, a)
    BY <2>5, RetainForDenialMove
  <2> QED BY <1>1, <2>1, <2>2, <2>3, <2>4, <2>5 DEF Staff
<1>2. CASE \E w \in Workers : Serve(w)
  <2>1. PICK w \in Workers : Serve(w)
    BY <1>2
  <2>2. CASE \E c \in Cards : StartCharge(w, c)
    BY <2>2, StartChargeMove, Apart
  <2>3. CASE \E r \in Claims, c \in Cards, a \in 1..Amount : StartRefund(w, r, c, a)
    BY <2>3, StartRefundMove
  <2>4. CASE CallCharge(w) \/ CallRefund(w) \/ Crash(w)
    BY <2>4, CallChargeMove, CallRefundMove, CrashMove
  <2>5. CASE FinishCharge(w) \/ FinishRefund(w)
    BY <2>5, FinishChargeMove, FinishRefundMove, Apart
  <2> QED BY <2>1, <2>2, <2>3, <2>4, <2>5 DEF Serve
<1>3. CASE Settle
  BY <1>3, SettleIntentMove, SettleRefundMove DEF Settle
<1>4. CASE Webhook
  BY <1>4, PaymentIntentEventMove, RefundUpdatedMove, ChargeRefundedMove, Apart DEF Webhook
<1>5. CASE Replay
  BY <1>5, ReplayChargeMove, ReplayRefundMove, Apart DEF Replay
<1> QED BY <1>1, <1>2, <1>3, <1>4, <1>5 DEF Next

-----------------------------------------------------------------------------
(* Sums over claims, and over allocation rows *)

\* The sets the model sums over.
Summable == (SUBSET Claims) \cup (SUBSET Rows)
USE DEF Summable

Units(cl, S) == {u \in S \X (1..Amount) : u[2] <= cl[u[1]].amount}

LEMMA FiniteSum ==
    ASSUME NEW cl, NEW S \in Summable
    PROVE  IsFiniteSet(Units(cl, S)) /\ Total(cl, S) = Cardinality(Units(cl, S)) /\ Total(cl, S) \in Nat
<1>1. IsFiniteSet(S) /\ IsFiniteSet(1..Amount)
  <2>1. IsFiniteSet(Claims) /\ IsFiniteSet(Rows)
    BY PaymentAssumption, FS_Product DEF Rows
  <2>2. IsFiniteSet(S)
    BY <2>1, FS_Subset
  <2> QED BY <2>2, PaymentAssumption, FS_Interval
<1>2. IsFiniteSet(S \X (1..Amount))
  BY <1>1, FS_Product
<1>3. IsFiniteSet(Units(cl, S)) /\ Cardinality(Units(cl, S)) \in Nat
  BY <1>2, FS_Subset, FS_CardinalityType DEF Units
<1> QED BY <1>3 DEF Total, Units

\* Only the amounts of the claims counted matter.
LEMMA SameSum ==
    ASSUME NEW cl, NEW dl, NEW S \in Summable, \A r \in S : cl[r].amount = dl[r].amount
    PROVE  Total(cl, S) = Total(dl, S)
<1>1. Units(cl, S) = Units(dl, S)
  BY DEF Units
<1> QED BY <1>1 DEF Total, Units

LEMMA SumOfMore ==
    ASSUME NEW cl, NEW T \in Summable, NEW S \in SUBSET T
    PROVE  Total(cl, S) <= Total(cl, T)
<1>1. Units(cl, S) \subseteq Units(cl, T)
  BY DEF Units
<1> QED BY <1>1, FiniteSum, FS_Subset

LEMMA SumOfTwo ==
    ASSUME NEW cl, NEW S \in Summable, NEW T \in Summable, S \cup T \in Summable, S \cap T = {}
    PROVE  Total(cl, S \cup T) = Total(cl, S) + Total(cl, T)
<1>1. Units(cl, S \cup T) = Units(cl, S) \cup Units(cl, T)
  BY DEF Units
<1>2. Units(cl, S) \cap Units(cl, T) = {}
  BY DEF Units
<1>3. Cardinality(Units(cl, S) \cap Units(cl, T)) = 0
  BY <1>2, FS_EmptySet
<1>4. Cardinality(Units(cl, S) \cup Units(cl, T))
        = Cardinality(Units(cl, S)) + Cardinality(Units(cl, T)) - Cardinality(Units(cl, S) \cap Units(cl, T))
  BY FiniteSum, FS_Union
<1>5. /\ Total(cl, S) = Cardinality(Units(cl, S)) /\ Total(cl, S) \in Nat
      /\ Total(cl, T) = Cardinality(Units(cl, T)) /\ Total(cl, T) \in Nat
      /\ Total(cl, S \cup T) = Cardinality(Units(cl, S \cup T))
  BY FiniteSum
<1>6. Cardinality(Units(cl, S \cup T)) = Cardinality(Units(cl, S) \cup Units(cl, T))
  BY <1>1
<1>7. Cardinality(Units(cl, S)) \in Nat /\ Cardinality(Units(cl, T)) \in Nat
  BY <1>5
<1>8. Cardinality(Units(cl, S \cup T)) = Cardinality(Units(cl, S)) + Cardinality(Units(cl, T))
  BY <1>3, <1>4, <1>6, <1>7
<1> QED BY <1>5, <1>8

LEMMA SumOfNone ==
    ASSUME NEW cl
    PROVE  Total(cl, {}) = 0
<1>1. Units(cl, {}) = {}
  BY DEF Units
<1> QED BY <1>1, FiniteSum, FS_EmptySet

LEMMA UpTo ==
    ASSUME NEW a \in Nat
    PROVE  IsFiniteSet(1..a) /\ Cardinality(1..a) = a
BY FS_Interval

LEMMA SumOfOne ==
    ASSUME NEW cl, NEW r, {r} \in Summable, cl[r].amount \in 0..Amount
    PROVE  Total(cl, {r}) = cl[r].amount
<1> DEFINE a == cl[r].amount
<1> USE PaymentAssumption
<1>1. a \in Nat /\ a <= Amount
  OBVIOUS
<1>2. Units(cl, {r}) = {r} \X (1..a)
  BY <1>1 DEF Units
<1> HIDE DEF a
<1>3. IsFiniteSet(1..a) /\ Cardinality(1..a) = a
  BY <1>1, UpTo
<1>4. IsFiniteSet({r}) /\ Cardinality({r}) = 1
  BY FS_Singleton
<1>5. Cardinality({r} \X (1..a)) = Cardinality({r}) * Cardinality(1..a)
  BY <1>3, <1>4, FS_Product
<1>6. Cardinality(Units(cl, {r})) = a
  <2>1. Cardinality({r} \X (1..a)) = 1 * a
    BY <1>3, <1>4, <1>5
  <2>2. 1 * a = a
    BY <1>1
  <2>3. Cardinality(Units(cl, {r})) = Cardinality({r} \X (1..a))
    BY <1>2
  <2> QED BY <2>1, <2>2, <2>3
<1>7. Total(cl, {r}) = Cardinality(Units(cl, {r}))
  BY FiniteSum
<1> QED BY <1>6, <1>7 DEF a

\* One more claim or row.
LEMMA SumWithOne ==
    ASSUME NEW cl, NEW S \in Summable, NEW r, r \notin S, S \cup {r} \in Summable,
           cl[r].amount \in 0..Amount
    PROVE  Total(cl, S \cup {r}) = Total(cl, S) + cl[r].amount
<1>1. Total(cl, S \cup {r}) = Total(cl, S) + Total(cl, {r})
  <2>1. {r} \in Summable /\ S \cap {r} = {}
    OBVIOUS
  <2> QED BY <2>1, SumOfTwo
<1> QED BY <1>1, SumOfOne

LEMMA LiveSum ==
    ASSUME NEW cl, NEW p
    PROVE  Total(cl, Live(cl, p)) =
             Total(cl, Movements(cl, p)) + Total(cl, Retained(cl, p)) + Total(cl, Resolutions(cl, p, "pending"))
<1> DEFINE M == Movements(cl, p)
           R == Retained(cl, p)
           P == Resolutions(cl, p, "pending")
<1>1. M \in SUBSET Claims /\ R \in SUBSET Claims /\ P \in SUBSET Claims
  BY DEF Movements, Retained, Resolutions
<1>2. M \cap R = {} /\ (M \cup R) \cap P = {} /\ Live(cl, p) = (M \cup R) \cup P
  BY DEF Movements, Retained, Resolutions, Live
<1> HIDE DEF M, R, P
<1>3. Total(cl, M \cup R) = Total(cl, M) + Total(cl, R)
  BY <1>1, <1>2, SumOfTwo
<1>4. Total(cl, (M \cup R) \cup P) = Total(cl, M \cup R) + Total(cl, P)
  BY <1>1, <1>2, SumOfTwo
<1> QED BY <1>2, <1>3, <1>4 DEF M, R, P

\* What is available has not been claimed yet.
LEMMA AvailableIsFree ==
    ASSUME NEW p \in Payments, NEW a \in 1..Amount, a <= AvailableToResolve(claim, p)
    PROVE  Total(claim, Live(claim, p)) + a <= Amount
<1> DEFINE m == Total(claim, Movements(claim, p))
           t == Total(claim, Retained(claim, p))
           w == Total(claim, Resolutions(claim, p, "pending"))
<1> USE PaymentAssumption
<1>1. m \in Nat /\ t \in Nat /\ w \in Nat
  BY FiniteSum DEF Movements, Retained, Resolutions
<1>2. AvailableToResolve(claim, p) = Clip((IF pay[p].status = "captured" THEN Clip(Clip(Amount - m) - t) ELSE 0) - w)
  BY DEF AvailableToResolve, Unresolved, NetCaptured
<1>3. Total(claim, Live(claim, p)) = m + t + w
  BY LiveSum
<1> HIDE DEF m, t, w
<1>4. m + t + w + a <= Amount
  BY <1>1, <1>2 DEF Clip
<1> QED BY <1>1, <1>3, <1>4

-----------------------------------------------------------------------------
(* Every move keeps the invariant *)

\* The balance counts the linked captured payments and the linked movements.
Charged(ps) == {p \in Payments : ps[p].status = "captured" /\ ps[p].folio}
Back(cl) == {r \in Claims : cl[r].status = "completed" /\ cl[r].type # "retained" /\ cl[r].folio}

LEMMA CreditOf ==
    ASSUME NEW ps, NEW cl
    PROVE  Credit(ps, cl) = Amount * Cardinality(Charged(ps)) - Total(cl, Back(cl)) /\ Credit(ps, cl) \in Int
<1>1. Credit(ps, cl) = Amount * Cardinality(Charged(ps)) - Total(cl, Back(cl))
  BY DEF Credit, Charged, Back
<1>2. Total(cl, Back(cl)) \in Nat
  BY FiniteSum DEF Back
<1>3. Cardinality(Charged(ps)) \in Nat
  BY PaymentAssumption, FS_Subset, FS_CardinalityType DEF Charged
<1> QED BY <1>1, <1>2, <1>3, PaymentAssumption

LEMMA SameCredit ==
    ASSUME Charged(pay') = Charged(pay), Back(claim') = Back(claim),
           \A r \in Back(claim) : claim'[r].amount = claim[r].amount
    PROVE  Credit(pay', claim') = Credit(pay, claim)
<1>1. Back(claim) \in SUBSET Claims
  BY DEF Back
<1>2. Total(claim', Back(claim)) = Total(claim, Back(claim))
  BY <1>1, SameSum
<1> QED BY <1>2, CreditOf

LEMMA SilentKeeps ==
    ASSUME IInv, Silent, req' \in [Workers -> Request \cup {Idle}]
    PROVE  Typed' /\ RowInv' /\ FolioCredited' /\ Announced'
<1> USE DEF IInv, Silent
<1>1. Typed'
  BY CreditOf DEF Typed, Recounted
<1>2. RowInv'
  <2>1. ProviderInv' /\ ClaimKinds'
    BY DEF RowInv, ProviderInv, ClaimKinds
  <2>2. LedgerTruth'
    BY DEF RowInv, LedgerTruth, Challenged, Refunded
  <2>3. ClaimsCovered'
    BY DEF RowInv, ClaimsCovered
  <2>4. DecisionInv'
    BY DEF RowInv, DecisionInv, Recounted
  <2> QED BY <2>1, <2>2, <2>3, <2>4 DEF RowInv
<1>3. FolioCredited'
  <2>1. credit' = credit => (request = "accepted" => credit' = Credit(pay', claim'))
    BY DEF FolioCredited
  <2>2. request = "accepted" => credit' = Credit(pay', claim')
    BY <2>1 DEF Recounted
  <2> QED BY <2>2 DEF FolioCredited
<1>4. Announced'
  BY DEF Announced
<1> QED BY <1>1, <1>2, <1>3, <1>4

\* The facts there are to announce, one by one.
News(x) ==
    \/ \E p \in Payments : x \in PaymentNews(p, pay[p].status)
    \/ \E r \in Claims : x \in ClaimNews(r, claim[r])

LEMMA AnnouncedNews == Announced <=> \A x : x \in told <=> News(x)
<1> DEFINE all == {<<"payment.received", p>> : p \in {q \in Payments : pay[q].status = "captured"}}
           \cup {<<"payment.failed", p>> : p \in {q \in Payments : pay[q].status \in {"failed", "voided"}}}
           \cup {<<"payment.failed", r>> : r \in {q \in Claims : claim[q].status = "failed"}}
           \cup {<<"payment.refunded", r>> :
                   r \in {q \in Claims : claim[q].status = "completed" /\ claim[q].type # "retained"}}
<1>1. \A x : x \in all <=> News(x)
  BY DEF News, PaymentNews, ClaimNews
<1>2. Announced <=> told = all
  BY DEF Announced
<1> HIDE DEF all
<1> QED BY <1>1, <1>2

LEMMA PaymentKeeps ==
    ASSUME IInv, NEW p \in Payments, PaymentMoves(p), req' \in [Workers -> Request \cup {Idle}]
    PROVE  Typed' /\ RowInv' /\ FolioCredited' /\ Announced'
<1>1. Typed /\ RowInv /\ FolioCredited /\ Announced /\ Typed
  BY DEF IInv
<1>2. Typed'
  BY <1>1, CreditOf DEF PaymentMoves, Typed, Recounted
<1>3. /\ pay[p].status = "captured" => pay'[p].status = "captured"
      /\ pay[p].status # "none" => pay'[p].status # "none"
  BY DEF PaymentMoves
<1>4. RowInv'
  <2>1. ProviderInv'
    BY <1>1, <1>3, Apart DEF RowInv, ProviderInv, PaymentMoves
  <2>2. ClaimKinds'
    <3>1. ASSUME NEW q \in Payments, pay[q].status = "captured" PROVE pay'[q].status = "captured"
      BY <1>3, <3>1 DEF PaymentMoves
    <3>2. ASSUME NEW r \in Claims, claim[r].status # "none" PROVE claim[r].payment \in Payments
      BY <1>1, <3>2, ClaimRow DEF Claim
    <3> QED BY <1>1, <3>1, <3>2 DEF RowInv, ClaimKinds, PaymentMoves
  <2>3. LedgerTruth'
    <3>1. ASSUME NEW c \in Cards
          PROVE  /\ pay'[c].status = "captured" => "succeeded" \in intent[c]
                 /\ pay'[c].status \in {"failed", "voided"} /\ ~Challenged(c) =>
                      Final(intent[c]) /\ "succeeded" \notin intent[c]
      <4>1. /\ pay[c].status = "captured" => "succeeded" \in intent[c]
            /\ pay[c].status \in {"failed", "voided"} /\ ~Challenged(c) =>
                 Final(intent[c]) /\ "succeeded" \notin intent[c]
        BY <1>1 DEF RowInv, LedgerTruth
      <4>2. CASE pay'[c].status = pay[c].status
        BY <4>1, <4>2
      <4>3. CASE pay'[c].status # pay[c].status
        <5>1. c = p
          BY <4>3, Apart DEF PaymentMoves
        <5>2. \A e, f \in {"succeeded", "payment_failed", "canceled"} :
                 e \in intent[c] /\ f \in intent[c] => e = f
          BY <1>1 DEF RowInv, ProviderInv
        <5> QED BY <4>3, <5>1, <5>2 DEF PaymentMoves, Challenged, Final
      <4> QED BY <4>2, <4>3
    <3> QED BY <1>1, <3>1 DEF RowInv, LedgerTruth, PaymentMoves, Challenged, Refunded
  <2>4. ClaimsCovered'
    BY <1>1 DEF RowInv, ClaimsCovered, PaymentMoves
  <2>5. DecisionInv'
    BY <1>1 DEF RowInv, DecisionInv, PaymentMoves, Recounted
  <2> QED BY <2>1, <2>2, <2>3, <2>4, <2>5 DEF RowInv
<1>5. FolioCredited'
  <2> SUFFICES ASSUME request = "accepted"
               PROVE  /\ \A q \in Payments : pay'[q].status # "none" => pay'[q].folio
                      /\ \A r \in Claims : claim[r].status = "completed" /\ claim[r].type # "retained" => claim[r].folio
                      /\ credit' = Credit(pay', claim')
    BY DEF FolioCredited, PaymentMoves
  <2>1. \A q \in Payments : pay'[q].status # "none" => pay'[q].folio
    BY <1>1 DEF FolioCredited, PaymentMoves
  <2>2. CASE credit' = credit /\ pay'[p].status # "captured"
    <3>1. Charged(pay') = Charged(pay)
      BY <1>3, <2>2 DEF Charged, PaymentMoves
    <3>2. Credit(pay', claim') = Credit(pay, claim)
      BY <3>1, SameCredit DEF PaymentMoves
    <3> QED BY <1>1, <2>1, <2>2, <3>2 DEF FolioCredited
  <2>3. CASE ~ (credit' = credit /\ pay'[p].status # "captured")
    BY <1>1, <2>1, <2>3 DEF FolioCredited, PaymentMoves, Recounted
  <2> QED BY <2>2, <2>3
<1>6. Announced'
  <2>1. ASSUME NEW x PROVE News(x)' <=> News(x) \/ x \in PaymentNews(p, pay'[p].status)
    <3>1. ASSUME NEW q \in Payments, q # p PROVE pay'[q].status = pay[q].status
      BY <3>1 DEF PaymentMoves
    <3>2. x \in PaymentNews(p, pay[p].status) => x \in PaymentNews(p, pay'[p].status)
      BY DEF PaymentMoves, PaymentNews
    <3>3. claim' = claim
      BY DEF PaymentMoves
    <3> QED BY <3>1, <3>2, <3>3 DEF News
  <2>2. told' = told \cup PaymentNews(p, pay'[p].status)
    BY DEF PaymentMoves
  <2>3. \A x : x \in told' <=> News(x)'
    BY <1>1, <2>1, <2>2, AnnouncedNews
  <2>4. (Announced <=> \A x : x \in told <=> News(x))'
    BY AnnouncedNews, PTL
  <2> QED BY <2>3, <2>4
<1> QED BY <1>2, <1>4, <1>5, <1>6

\* What a booked claim keeps whatever became of its row: a row that was
\* settled before is as it was.
LEMMA ClaimBookedKeeps ==
    ASSUME IInv, NEW r \in Claims, ClaimBooked(r), req' \in [Workers -> Request \cup {Idle}],
           claim[r].status \in {"completed", "failed"} => claim'[r] = claim[r]
    PROVE  Typed' /\ FolioCredited' /\ Announced'
<1>1. Typed /\ FolioCredited /\ Announced
  BY DEF IInv
<1>2. Typed'
  BY <1>1, CreditOf DEF ClaimBooked, Typed, Recounted
<1>3. FolioCredited'
  <2> SUFFICES ASSUME request = "accepted"
               PROVE  /\ \A q \in Payments : pay[q].status # "none" => pay[q].folio
                      /\ \A q \in Claims : claim'[q].status = "completed" /\ claim'[q].type # "retained" => claim'[q].folio
                      /\ credit' = Credit(pay', claim')
    BY DEF FolioCredited, ClaimBooked
  <2>1. \A q \in Claims : claim'[q].status = "completed" /\ claim'[q].type # "retained" => claim'[q].folio
    BY <1>1 DEF FolioCredited, ClaimBooked
  <2>2. CASE claim'[r].status = "completed" /\ claim'[r].type # "retained"
    BY <1>1, <2>1, <2>2 DEF FolioCredited, ClaimBooked, Recounted
  <2>3. CASE ~ (claim'[r].status = "completed" /\ claim'[r].type # "retained")
    <3>1. Back(claim') = Back(claim) /\ r \notin Back(claim)
      BY <2>3 DEF Back, ClaimBooked
    <3>2. Charged(pay') = Charged(pay)
      BY DEF ClaimBooked
    <3>3. \A q \in Back(claim) : claim'[q].amount = claim[q].amount
      BY <3>1 DEF Back, ClaimBooked
    <3>4. Credit(pay', claim') = Credit(pay, claim)
      BY <3>1, <3>2, <3>3, SameCredit
    <3> QED BY <1>1, <2>1, <3>4 DEF FolioCredited, ClaimBooked, Recounted
  <2> QED BY <2>2, <2>3
<1>4. Announced'
  <2>1. ASSUME NEW x PROVE News(x)' <=> News(x) \/ x \in ClaimNews(r, claim'[r])
    <3>1. ASSUME NEW q \in Claims, q # r PROVE claim'[q] = claim[q]
      BY <3>1 DEF ClaimBooked
    <3>2. x \in ClaimNews(r, claim[r]) => x \in ClaimNews(r, claim'[r])
      BY DEF ClaimNews
    <3>3. pay' = pay
      BY DEF ClaimBooked
    <3> QED BY <3>1, <3>2, <3>3 DEF News
  <2>2. told' = told \cup ClaimNews(r, claim'[r])
    BY DEF ClaimBooked
  <2>3. \A x : x \in told' <=> News(x)'
    BY <1>1, <2>1, <2>2, AnnouncedNews
  <2>4. (Announced <=> \A x : x \in told <=> News(x))'
    BY AnnouncedNews, PTL
  <2> QED BY <2>3, <2>4
<1> QED BY <1>2, <1>3, <1>4

LEMMA NoClaimRow ==
    /\ NoClaim.status = "none" /\ NoClaim.type = "none" /\ NoClaim.payment = None /\ NoClaim.amount = 0
    /\ None \notin Payments
BY PaymentAssumption DEF NoClaim

LEMMA ClaimMadeKeeps ==
    ASSUME IInv, NEW r \in Claims, ClaimMade(r), req' \in [Workers -> Request \cup {Idle}]
    PROVE  Typed' /\ RowInv' /\ FolioCredited' /\ Announced'
<1>1. Typed /\ RowInv /\ ClaimBooked(r) /\ claim[r].status = "none" /\ claim[r].type = "none" /\ claim[r].payment = None
  BY NoClaimRow DEF IInv, ClaimMade
<1>2. Typed' /\ FolioCredited' /\ Announced'
  BY <1>1, ClaimBookedKeeps
<1>3. ProviderInv'
  BY <1>1 DEF RowInv, ProviderInv, ClaimMade, ClaimBooked
<1>4. LedgerTruth'
  BY <1>1 DEF RowInv, LedgerTruth, ClaimMade, ClaimBooked, Challenged, Refunded
<1>5. ClaimKinds'
  BY <1>1 DEF RowInv, ClaimKinds, ClaimMade, ClaimBooked
<1>6. ClaimsCovered'
  <2> SUFFICES ASSUME NEW p \in Payments PROVE Total(claim', Live(claim', p)) <= Amount
    BY DEF ClaimsCovered
  <2>1. /\ Live(claim, p) \in SUBSET Claims /\ r \notin Live(claim, p)
        /\ \A q \in Live(claim, p) : claim'[q].amount = claim[q].amount
    BY <1>1 DEF Live, ClaimBooked
  <2>2. Total(claim', Live(claim, p)) = Total(claim, Live(claim, p))
    BY <2>1, SameSum
  <2>3. CASE p = claim'[r].payment
    <3>1. Live(claim', p) = Live(claim, p) \cup {r}
      BY <1>1, <2>1, <2>3 DEF Live, ClaimBooked, ClaimMade
    <3>2. PICK a \in 1..Amount : a = claim'[r].amount
      BY DEF ClaimMade
    <3>3. Total(claim, Live(claim, p)) + a <= Amount
      BY <2>3, <3>2, AvailableIsFree DEF ClaimMade
    <3>4. claim'[r].amount \in 0..Amount
      BY <3>2
    <3>5. Total(claim', Live(claim, p) \cup {r}) = Total(claim', Live(claim, p)) + a
      BY <2>1, <3>2, <3>4, SumWithOne
    <3> QED BY <2>2, <3>1, <3>3, <3>5
  <2>4. CASE p # claim'[r].payment
    <3>1. Live(claim', p) = Live(claim, p)
      BY <1>1, <2>1, <2>4 DEF Live, ClaimBooked
    <3> QED BY <1>1, <2>2, <3>1 DEF RowInv, ClaimsCovered
  <2> QED BY <2>3, <2>4
<1>7. DecisionInv'
  BY <1>1 DEF RowInv, DecisionInv, ClaimMade, ClaimBooked, Recounted
<1> QED BY <1>2, <1>3, <1>4, <1>5, <1>6, <1>7 DEF RowInv

LEMMA ClaimSettledKeeps ==
    ASSUME IInv, NEW r \in Claims, ClaimSettled(r), req' \in [Workers -> Request \cup {Idle}]
    PROVE  Typed' /\ RowInv' /\ FolioCredited' /\ Announced'
<1>1. Typed /\ RowInv /\ ClaimBooked(r) /\ claim[r].status = "pending"
  BY DEF IInv, ClaimSettled
<1>2. Typed' /\ FolioCredited' /\ Announced'
  BY <1>1, ClaimBookedKeeps
<1>3. ProviderInv'
  BY <1>1 DEF RowInv, ProviderInv, ClaimSettled, ClaimBooked
<1>4. LedgerTruth'
  BY <1>1 DEF RowInv, LedgerTruth, ClaimSettled, ClaimBooked, Challenged, Refunded
<1>5. ClaimKinds'
  BY <1>1 DEF RowInv, ClaimKinds, ClaimSettled, ClaimBooked
<1>6. ClaimsCovered'
  <2> SUFFICES ASSUME NEW p \in Payments PROVE Total(claim', Live(claim', p)) <= Amount
    BY DEF ClaimsCovered
  <2>1. Live(claim, p) \in SUBSET Claims /\ Live(claim', p) \in SUBSET Live(claim, p)
    BY <1>1 DEF Live, ClaimBooked, ClaimSettled
  <2>2. \A q \in Live(claim', p) : claim'[q].amount = claim[q].amount
    BY DEF Live, ClaimBooked, ClaimSettled
  <2>3. Total(claim', Live(claim', p)) = Total(claim, Live(claim', p))
    BY <2>1, <2>2, SameSum
  <2>4. Total(claim, Live(claim', p)) <= Total(claim, Live(claim, p))
    BY <2>1, SumOfMore
  <2>5. Total(claim, Live(claim', p)) \in Nat /\ Total(claim, Live(claim, p)) \in Nat
    BY <2>1, FiniteSum
  <2> QED BY <1>1, <2>3, <2>4, <2>5, PaymentAssumption DEF RowInv, ClaimsCovered
<1>7. DecisionInv'
  BY <1>1 DEF RowInv, DecisionInv, ClaimSettled, ClaimBooked, Recounted
<1> QED BY <1>2, <1>3, <1>4, <1>5, <1>6, <1>7 DEF RowInv

LEMMA ClaimRepeatedKeeps ==
    ASSUME IInv, NEW r \in Claims, ClaimRepeated(r), req' \in [Workers -> Request \cup {Idle}]
    PROVE  Typed' /\ RowInv' /\ FolioCredited' /\ Announced'
<1>1. Typed /\ RowInv /\ ClaimBooked(r) /\ claim' = claim
  BY DEF IInv, ClaimRepeated
<1>2. Typed' /\ FolioCredited' /\ Announced'
  BY <1>1, ClaimBookedKeeps
<1>3. ProviderInv' /\ ClaimKinds' /\ ClaimsCovered'
  BY <1>1 DEF RowInv, ProviderInv, ClaimKinds, ClaimsCovered, ClaimBooked
<1>4. LedgerTruth'
  BY <1>1 DEF RowInv, LedgerTruth, ClaimBooked, Challenged, Refunded
<1>5. DecisionInv'
  BY <1>1 DEF RowInv, DecisionInv, ClaimBooked, Recounted
<1> QED BY <1>2, <1>3, <1>4, <1>5 DEF RowInv

\* What an event more at Stripe makes of the events there were.
LEMMA IntentAfter ==
    ASSUME Typed, NEW c \in Cards, NEW e \in IntentEvents, IntentGrows(c, e)
    PROVE  /\ intent' \in [Cards -> SUBSET IntentEvents]
           /\ intent'[c] = intent[c] \cup {e}
           /\ \A d \in Cards \ {c} : intent'[d] = intent[d]
BY DEF Typed, IntentGrows

LEMMA RefundAfter ==
    ASSUME Typed, NEW r \in Claims, NEW e \in RefundEvents, RefundGrows(r, e)
    PROVE  /\ refund' \in [Claims -> SUBSET RefundEvents]
           /\ refund'[r] = refund[r] \cup {e}
           /\ \A q \in Claims \ {r} : refund'[q] = refund[q]
BY DEF Typed, RefundGrows

LEMMA IntentKeeps ==
    ASSUME IInv, NEW c \in Cards, NEW e \in IntentEvents, IntentGrows(c, e), req' \in [Workers -> Request \cup {Idle}]
    PROVE  Typed' /\ RowInv' /\ FolioCredited' /\ Announced'
<1>1. Typed /\ RowInv /\ FolioCredited /\ Announced
  BY DEF IInv
<1>2. /\ intent' \in [Cards -> SUBSET IntentEvents]
      /\ intent'[c] = intent[c] \cup {e}
      /\ \A d \in Cards \ {c} : intent'[d] = intent[d]
      /\ pay[c].status # "none" /\ ~Final(intent[c])
      /\ UNCHANGED <<request, pay, claim, credit, told, refund>>
  BY <1>1, IntentAfter DEF IntentGrows
<1> HIDE DEF IntentGrows
<1>3. Typed'
  BY <1>1, <1>2 DEF Typed
<1>4. ProviderInv'
  BY <1>1, <1>2 DEF RowInv, ProviderInv, Final
<1>5. LedgerTruth'
  <2>1. ASSUME NEW d \in Cards
        PROVE  /\ pay[d].status = "captured" => "succeeded" \in intent'[d]
               /\ pay[d].status \in {"failed", "voided"} /\ "requires_action" \notin intent'[d] =>
                    Final(intent'[d]) /\ "succeeded" \notin intent'[d]
    <3>1. /\ pay[d].status = "captured" => "succeeded" \in intent[d]
          /\ pay[d].status \in {"failed", "voided"} /\ "requires_action" \notin intent[d] =>
               Final(intent[d]) /\ "succeeded" \notin intent[d]
      BY <1>1 DEF RowInv, LedgerTruth, Challenged
    <3>2. CASE d # c
      BY <1>2, <3>1, <3>2
    <3>3. CASE d = c
      BY <1>2, <3>1, <3>3
    <3> QED BY <3>2, <3>3
  <2> QED BY <1>1, <1>2, <2>1 DEF RowInv, LedgerTruth, Challenged, Refunded
<1>6. ClaimKinds' /\ ClaimsCovered' /\ DecisionInv' /\ FolioCredited' /\ Announced'
  <2>1. ClaimKinds' /\ ClaimsCovered' /\ DecisionInv'
    BY <1>1, <1>2 DEF RowInv, ClaimKinds, ClaimsCovered, DecisionInv
  <2>2. FolioCredited' /\ Announced'
    BY <1>1, <1>2 DEF FolioCredited, Announced
  <2> QED BY <2>1, <2>2
<1> QED BY <1>3, <1>4, <1>5, <1>6 DEF RowInv

LEMMA RefundKeeps ==
    ASSUME IInv, NEW r \in Claims, NEW e \in RefundEvents, RefundGrows(r, e), req' \in [Workers -> Request \cup {Idle}]
    PROVE  Typed' /\ RowInv' /\ FolioCredited' /\ Announced'
<1>1. Typed /\ RowInv /\ FolioCredited /\ Announced
  BY DEF IInv
<1>2. /\ refund' \in [Claims -> SUBSET RefundEvents]
      /\ refund'[r] = refund[r] \cup {e}
      /\ \A q \in Claims \ {r} : refund'[q] = refund[q]
      /\ claim[r].type = "refund" /\ refund[r] \subseteq {"pending"}
      /\ UNCHANGED <<request, pay, claim, credit, told, intent>>
  BY <1>1, RefundAfter DEF RefundGrows
<1>3. Typed'
  BY <1>1, <1>2 DEF Typed
<1>4. ProviderInv'
  BY <1>1, <1>2 DEF RowInv, ProviderInv
<1>5. LedgerTruth'
  BY <1>1, <1>2 DEF RowInv, LedgerTruth, Challenged, Refunded
<1>6. ClaimKinds' /\ ClaimsCovered' /\ DecisionInv'
  BY <1>1, <1>2 DEF RowInv, ClaimKinds, ClaimsCovered, DecisionInv
<1>7. FolioCredited' /\ Announced'
  BY <1>1, <1>2 DEF FolioCredited, Announced
<1> QED BY <1>3, <1>4, <1>5, <1>6, <1>7 DEF RowInv

LEMMA Unlinked ==
    ASSUME NEW b
    PROVE  [[payment |-> None, type |-> "none", amount |-> 0, status |-> "none", folio |-> b] EXCEPT !.folio = b]
             = [payment |-> None, type |-> "none", amount |-> 0, status |-> "none", folio |-> b]
OBVIOUS

LEMMA NoClaimUnlinked == [NoClaim EXCEPT !.folio = FALSE] = NoClaim
BY Unlinked DEF NoClaim

LEMMA AcceptRows ==
    ASSUME IInv, Accept
    PROVE  /\ pay' \in [Payments -> Payment]
           /\ \A p \in Payments : pay'[p].status = pay[p].status /\ (pay'[p].folio <=> pay[p].status # "none")
           /\ claim' \in [Claims -> Claim \cup {NoClaim}]
           /\ \A r \in Claims :
                /\ claim'[r].status = claim[r].status /\ claim'[r].type = claim[r].type
                /\ claim'[r].payment = claim[r].payment /\ claim'[r].amount = claim[r].amount
                /\ claim'[r].folio <=> claim[r].status = "completed" /\ claim[r].type # "retained"
<1>1. ASSUME NEW p \in Payments
      PROVE  /\ pay'[p] \in Payment /\ pay'[p].status = pay[p].status
             /\ pay'[p].folio <=> pay[p].status # "none"
  <2> DEFINE row == [pay[p] EXCEPT !.folio = pay[p].status # "none"]
  <2>1. pay[p] \in Payment
    BY DEF IInv, Typed
  <2>2. row \in Payment /\ row.status = pay[p].status
    BY <2>1 DEF Payment
  <2>3. row.folio = (pay[p].status # "none")
    BY <2>1 DEF Payment
  <2>4. pay'[p] = row
    BY DEF Accept
  <2> HIDE DEF row
  <2> QED BY <2>2, <2>3, <2>4
<1>2. ASSUME NEW r \in Claims
      PROVE  /\ claim'[r] \in Claim \cup {NoClaim}
             /\ claim'[r].status = claim[r].status /\ claim'[r].type = claim[r].type
             /\ claim'[r].payment = claim[r].payment /\ claim'[r].amount = claim[r].amount
             /\ claim'[r].folio <=> claim[r].status = "completed" /\ claim[r].type # "retained"
  <2> DEFINE b == claim[r].status = "completed" /\ claim[r].type # "retained"
             row == [claim[r] EXCEPT !.folio = b]
  <2>1. claim'[r] = row
    BY DEF Accept
  <2>2. CASE claim[r] = NoClaim
    <3>1. b = FALSE
      BY <2>2, NoClaimRow
    <3> HIDE DEF b
    <3>2. row = [NoClaim EXCEPT !.folio = FALSE]
      BY <2>2, <3>1
    <3> HIDE DEF row
    <3>3. row = NoClaim
      BY <3>2, NoClaimUnlinked
    <3>4. ~ NoClaim.folio
      BY DEF NoClaim
    <3> QED BY <2>1, <2>2, <3>1, <3>3, <3>4 DEF b
  <2>3. CASE claim[r] \in Claim
    <3>1. b \in BOOLEAN
      OBVIOUS
    <3> HIDE DEF b
    <3>2. /\ row \in Claim /\ row.status = claim[r].status /\ row.type = claim[r].type
          /\ row.payment = claim[r].payment /\ row.amount = claim[r].amount
      BY <2>3, <3>1 DEF Claim
    <3>3. row.folio = b
      BY <2>3 DEF Claim
    <3> HIDE DEF row
    <3> QED BY <2>1, <3>2, <3>3 DEF b
  <2> QED BY <2>2, <2>3 DEF IInv, Typed
<1>3. pay' \in [Payments -> Payment]
  BY <1>1 DEF Accept
<1>4. claim' \in [Claims -> Claim \cup {NoClaim}]
  BY <1>2 DEF Accept
<1> QED BY <1>1, <1>2, <1>3, <1>4

LEMMA AcceptKeeps ==
    ASSUME IInv, Accept
    PROVE  Typed' /\ RowInv' /\ FolioCredited' /\ Announced'
<1>1. Typed /\ RowInv /\ Announced /\ request = "pending" /\ request' = "accepted"
      /\ UNCHANGED <<told, intent, refund, req>>
  BY DEF IInv, Accept, provider
<1>2. /\ pay' \in [Payments -> Payment]
      /\ \A p \in Payments : pay'[p].status = pay[p].status /\ (pay'[p].folio <=> pay[p].status # "none")
      /\ claim' \in [Claims -> Claim \cup {NoClaim}]
      /\ \A r \in Claims :
           /\ claim'[r].status = claim[r].status /\ claim'[r].type = claim[r].type
           /\ claim'[r].payment = claim[r].payment /\ claim'[r].amount = claim[r].amount
           /\ claim'[r].folio <=> claim[r].status = "completed" /\ claim[r].type # "retained"
  BY AcceptRows
<1>3. credit' = IF \E p \in Payments : pay[p].status # "none" THEN Credit(pay', claim') ELSE credit
  BY DEF Accept, RecalculateBalance
<1>4. Typed'
  BY <1>1, <1>2, <1>3, CreditOf DEF Typed, Statuses
<1>5. RowInv'
  <2>1. ProviderInv'
    BY <1>1, <1>2, Apart DEF RowInv, ProviderInv
  <2>2. LedgerTruth'
    BY <1>1, <1>2, Apart DEF RowInv, LedgerTruth, Challenged, Refunded
  <2>3. ClaimKinds'
    <3>1. ASSUME NEW r \in Claims, claim[r].status # "none" PROVE claim[r].payment \in Payments
      BY <1>1, <3>1, ClaimRow DEF Claim
    <3> QED BY <1>1, <1>2, <3>1 DEF RowInv, ClaimKinds
  <2>4. ClaimsCovered'
    <3> SUFFICES ASSUME NEW p \in Payments PROVE Total(claim', Live(claim', p)) <= Amount
      BY DEF ClaimsCovered
    <3>1. Live(claim', p) = Live(claim, p) /\ Live(claim, p) \in SUBSET Claims
      BY <1>2 DEF Live
    <3>2. \A q \in Live(claim, p) : claim'[q].amount = claim[q].amount
      BY <1>2 DEF Live
    <3>3. Total(claim', Live(claim, p)) = Total(claim, Live(claim, p))
      BY <3>1, <3>2, SameSum
    <3> QED BY <1>1, <3>1, <3>3 DEF RowInv, ClaimsCovered
  <2>5. DecisionInv'
    BY <1>1 DEF DecisionInv
  <2> QED BY <2>1, <2>2, <2>3, <2>4, <2>5 DEF RowInv
<1>6. credit' = Credit(pay', claim')
  <2>1. CASE \E p \in Payments : pay[p].status # "none"
    BY <1>3, <2>1
  <2>2. CASE \A p \in Payments : pay[p].status = "none"
    <3>1. credit' = 0
      BY <1>1, <1>3, <2>2 DEF RowInv, DecisionInv
    <3>2. Charged(pay') = {}
      BY <1>2, <2>2 DEF Charged
    <3>3. ASSUME NEW r \in Claims PROVE claim[r].status = "none"
      BY <1>1, <2>2, ClaimRow DEF Claim, RowInv, ClaimKinds
    <3>4. Back(claim') = {}
      BY <1>2, <3>3 DEF Back
    <3>5. Cardinality(Charged(pay')) = 0 /\ Total(claim', Back(claim')) = 0
      BY <3>2, <3>4, FS_EmptySet, SumOfNone
    <3> QED BY <3>1, <3>5, CreditOf, PaymentAssumption
  <2> QED BY <2>1, <2>2
<1>7. FolioCredited'
  BY <1>2, <1>6 DEF FolioCredited
<1>8. Announced'
  <2>1. ASSUME NEW x PROVE News(x)' <=> News(x)
    BY <1>2 DEF News, PaymentNews, ClaimNews
  <2>2. \A x : x \in told' <=> News(x)'
    BY <1>1, <2>1, AnnouncedNews
  <2>3. (Announced <=> \A x : x \in told <=> News(x))'
    BY AnnouncedNews, PTL
  <2> QED BY <2>2, <2>3
<1> QED BY <1>4, <1>5, <1>7, <1>8

LEMMA DenyKeeps ==
    ASSUME IInv, Deny
    PROVE  Typed' /\ RowInv' /\ FolioCredited' /\ Announced'
<1>1. Typed /\ RowInv /\ Announced /\ request = "pending" /\ request' = "denied"
      /\ UNCHANGED <<pay, claim, credit, told, intent, refund, req>>
  BY DEF IInv, Deny, provider
<1>2. Typed' /\ FolioCredited' /\ Announced'
  BY <1>1 DEF Typed, Statuses, FolioCredited, Announced
<1>3. ProviderInv' /\ ClaimKinds' /\ ClaimsCovered'
  BY <1>1 DEF RowInv, ProviderInv, ClaimKinds, ClaimsCovered
<1>4. LedgerTruth'
  BY <1>1 DEF RowInv, LedgerTruth, Challenged, Refunded
<1>5. DecisionInv'
  BY <1>1 DEF RowInv, DecisionInv, Deny
<1> QED BY <1>2, <1>3, <1>4, <1>5 DEF RowInv

\* What a worker knows stays true: rows and Stripe's events are never undone.
LEMMA MoveLasts ==
    ASSUME IInv, Move
    PROVE  /\ \A c \in Cards : intent[c] \subseteq intent'[c] /\ (pay[c].status # "none" => pay'[c].status # "none")
           /\ \A r \in Claims : refund[r] \subseteq refund'[r] /\ (claim[r].type = "refund" => claim'[r].type = "refund")
<1>1. CASE Silent \/ Deny
  BY <1>1 DEF Silent, Deny, provider
<1>2. ASSUME NEW p \in Payments, PaymentMoves(p)
      PROVE  /\ UNCHANGED <<claim, intent, refund>>
             /\ \A c \in Cards : pay[c].status # "none" => pay'[c].status # "none"
  BY <1>2, Apart DEF PaymentMoves
<1>3. ASSUME NEW r \in Claims, ClaimMade(r) \/ ClaimSettled(r) \/ ClaimRepeated(r)
      PROVE  /\ UNCHANGED <<pay, intent, refund>>
             /\ \A q \in Claims : claim[q].type = "refund" => claim'[q].type = "refund"
  BY <1>3, NoClaimRow DEF ClaimMade, ClaimSettled, ClaimRepeated, ClaimBooked
<1>4. ASSUME NEW c \in Cards, NEW e \in IntentEvents, IntentGrows(c, e)
      PROVE  /\ UNCHANGED <<pay, claim, refund>>
             /\ \A d \in Cards : intent[d] \subseteq intent'[d]
  <2>1. Typed
    BY DEF IInv
  <2>2. \A d \in Cards : intent[d] \subseteq intent'[d]
    BY <1>4, <2>1, IntentAfter
  <2> QED BY <1>4, <2>2 DEF IntentGrows
<1>5. ASSUME NEW r \in Claims, NEW e \in RefundEvents, RefundGrows(r, e)
      PROVE  /\ UNCHANGED <<pay, claim, intent>>
             /\ \A q \in Claims : refund[q] \subseteq refund'[q]
  <2>1. Typed
    BY DEF IInv
  <2>2. \A q \in Claims : refund[q] \subseteq refund'[q]
    BY <1>5, <2>1, RefundAfter
  <2> QED BY <1>5, <2>2 DEF RefundGrows
<1>6. CASE Accept
  BY <1>6, AcceptRows, Apart DEF Accept, provider
<1> QED BY <1>1, <1>2, <1>3, <1>4, <1>5, <1>6 DEF Move

LEMMA ServingLasts ==
    ASSUME IInv, Move, NEW v \in Workers, req'[v] = req[v]
    PROVE  Serving(v)'
<1>1. Serving(v)
  BY DEF IInv
<1> QED BY <1>1, MoveLasts DEF Serving

LEMMA MoveKeeps ==
    ASSUME IInv, Move, req' \in [Workers -> Request \cup {Idle}]
    PROVE  Typed' /\ RowInv' /\ FolioCredited' /\ Announced'
BY SilentKeeps, PaymentKeeps, ClaimMadeKeeps, ClaimSettledKeeps, ClaimRepeatedKeeps, IntentKeeps, RefundKeeps,
   AcceptKeeps, DenyKeeps DEF Move

LEMMA InitInv ==
    ASSUME Init
    PROVE  IInv
<1> USE DEF Init
<1>1. \A r \in Claims : claim[r] = NoClaim
  OBVIOUS
<1>2. \A p \in Payments : pay[p].status = "none" /\ ~ pay[p].folio
  BY DEF NoPayment
<1>3. ~ NoClaim.folio
  BY DEF NoClaim
<1>4. Typed
  <2>1. NoPayment \in Payment
    BY DEF NoPayment, Payment
  <2>2. pay \in [Payments -> Payment]
    BY <2>1
  <2>3. claim \in [Claims -> Claim \cup {NoClaim}]
    OBVIOUS
  <2>4. req \in [Workers -> Request \cup {Idle}]
    OBVIOUS
  <2> QED BY <2>2, <2>3, <2>4 DEF Typed, Statuses
<1>5. ProviderInv /\ ClaimKinds /\ DecisionInv
  BY <1>1, <1>2, <1>3, NoClaimRow DEF ProviderInv, ClaimKinds, DecisionInv
<1>6. LedgerTruth
  BY <1>1, <1>2, NoClaimRow, Apart DEF LedgerTruth
<1>7. ClaimsCovered
  <2>1. \A p \in Payments : Live(claim, p) = {}
    BY <1>1, NoClaimRow DEF Live
  <2>2. Total(claim, {}) = 0
    BY SumOfNone
  <2>3. ASSUME NEW p \in Payments PROVE Total(claim, Live(claim, p)) = 0
    BY <2>1, <2>2
  <2> QED BY <2>3, PaymentAssumption DEF ClaimsCovered
<1>8. FolioCredited
  BY DEF FolioCredited
<1>9. Announced
  BY <1>1, <1>2, NoClaimRow DEF Announced
<1>10. \A w \in Workers : Serving(w)
  BY DEF Serving, Idle
<1> QED BY <1>4, <1>5, <1>6, <1>7, <1>8, <1>9, <1>10 DEF IInv, RowInv

LEMMA NextInv ==
    ASSUME IInv, [Next]_vars
    PROVE  IInv'
<1>1. CASE Next
  <2>1. Move /\ (req' = req \/ \E w \in Workers : Advances(w))
    BY <1>1, StepMoves
  <2>2. req' \in [Workers -> Request \cup {Idle}]
    BY <2>1 DEF Advances, IInv, Typed
  <2>3. Typed' /\ RowInv' /\ FolioCredited' /\ Announced'
    BY <2>1, <2>2, MoveKeeps
  <2>4. ASSUME NEW v \in Workers PROVE Serving(v)'
    BY <2>1, ServingLasts DEF Advances
  <2> QED BY <2>3, <2>4 DEF IInv
<1>2. CASE UNCHANGED vars
  <2>1. Silent /\ req' = req
    BY <1>2 DEF vars, ledger, provider, Silent
  <2>2. req' \in [Workers -> Request \cup {Idle}]
    BY <2>1 DEF IInv, Typed
  <2>3. Typed' /\ RowInv' /\ FolioCredited' /\ Announced'
    BY <2>1, <2>2, SilentKeeps
  <2>4. ASSUME NEW v \in Workers PROVE Serving(v)'
    BY <2>1, ServingLasts DEF Move
  <2> QED BY <2>3, <2>4 DEF IInv
<1> QED BY <1>1, <1>2

\* The inductive invariant holds throughout.
THEOREM Invariant == Spec => []IInv
<1>1. Init => IInv
  BY InitInv
<1>2. IInv /\ [Next]_vars => IInv'
  BY NextInv
<1> QED BY <1>1, <1>2, PTL DEF Spec

\* The ledger never says more, and never less, than Stripe reported: captured,
\* failed and refunded are what the provider made of it.
THEOREM LedgerTrue == Spec => []LedgerTruth
<1>1. IInv => LedgerTruth
  BY DEF IInv, RowInv
<1> QED BY <1>1, Invariant, PTL

\* Every fact about money is announced with the matching event, and nothing else.
THEOREM MoneyAnnounced == Spec => []Announced
<1>1. IInv => Announced
  BY DEF IInv
<1> QED BY <1>1, Invariant, PTL

\* Once the request is accepted, its money is on the folio and in its balance.
THEOREM MoneyOnFolio == Spec => []FolioCredited
<1>1. IInv => FolioCredited
  BY DEF IInv
<1> QED BY <1>1, Invariant, PTL

-----------------------------------------------------------------------------
(* After a denial *)

LEMMA DeniedSettled ==
    ASSUME IInv, request = "denied"
    PROVE  /\ \A c \in Cards : intent[c] # {} => Final(intent[c]) \/ Challenged(c)
           /\ \A c \in Cards : pay[c].status # "none" => intent[c] # {}
           /\ \A r \in Claims : claim[r].type = "refund" => ~ (refund[r] \subseteq {"pending"})
<1>1. ASSUME NEW c \in Cards
      PROVE  /\ intent[c] # {} => Final(intent[c]) \/ Challenged(c)
             /\ pay[c].status # "none" => intent[c] # {}
  <2>1. pay[c].status \in {"none", "captured", "failed", "voided"}
    BY Apart DEF IInv, Typed, Payment, RowInv, DecisionInv
  <2>2. /\ pay[c].status = "none" => intent[c] = {}
        /\ pay[c].status = "captured" => "succeeded" \in intent[c]
        /\ pay[c].status \in {"failed", "voided"} /\ ~Challenged(c) => Final(intent[c])
    BY DEF IInv, RowInv, ProviderInv, LedgerTruth
  <2> QED BY <2>1, <2>2 DEF Final, Challenged
<1>2. ASSUME NEW r \in Claims, claim[r].type = "refund" PROVE ~ (refund[r] \subseteq {"pending"})
  <2>1. claim[r].status \in {"completed", "failed"}
    <3>1. claim[r] \in Claim
      BY <1>2, ClaimRow, NoClaimRow DEF IInv
    <3> QED BY <3>1 DEF Claim, IInv, RowInv, DecisionInv
  <2>2. "succeeded" \in refund[r] \/ "failed" \in refund[r]
    BY <1>2, <2>1 DEF IInv, RowInv, LedgerTruth, Refunded
  <2> QED BY <2>2
<1> QED BY <1>1, <1>2

LEMMA DeniedMove ==
    ASSUME IInv, Move, request = "denied"
    PROVE  /\ UNCHANGED <<request, pay, claim>>
           /\ \A c \in Cards : "succeeded" \in intent'[c] => "succeeded" \in intent[c] \/ Challenged(c)
           /\ \A r \in Claims : Refunded(r)' => Refunded(r)
<1>1. CASE Silent
  BY <1>1 DEF Silent, Refunded
<1>2. ASSUME NEW p \in Payments, PaymentMoves(p) PROVE UNCHANGED <<request, pay, claim, intent, refund>>
  BY <1>2 DEF PaymentMoves
<1>3. ASSUME NEW r \in Claims, ClaimMade(r) \/ ClaimSettled(r) \/ ClaimRepeated(r)
      PROVE  UNCHANGED <<request, pay, claim, intent, refund>>
  BY <1>3 DEF ClaimMade, ClaimSettled, ClaimRepeated, ClaimBooked
<1>4. ASSUME NEW c \in Cards, NEW e \in IntentEvents, IntentGrows(c, e)
      PROVE  /\ UNCHANGED <<request, pay, claim, refund>>
             /\ \A d \in Cards : "succeeded" \in intent'[d] => "succeeded" \in intent[d] \/ Challenged(d)
  <2>1. Challenged(c)
    BY <1>4, DeniedSettled DEF IntentGrows
  <2>2. \A d \in Cards \ {c} : intent'[d] = intent[d]
    BY <1>4, IntentAfter DEF IInv
  <2> QED BY <1>4, <2>1, <2>2 DEF IntentGrows
<1>5. ASSUME NEW r \in Claims, NEW e \in RefundEvents PROVE ~ RefundGrows(r, e)
  BY DeniedSettled DEF RefundGrows
<1>6. ~ Accept /\ ~ Deny
  BY DEF Accept, Deny
<1> QED BY <1>1, <1>2, <1>3, <1>4, <1>5, <1>6 DEF Move, Refunded

\* No step of anyone moves money of a denied request.
THEOREM DenialFinal == Spec => NoMoneyAfterDenial
<1>1. IInv /\ [Next]_vars =>
        [request = "denied" =>
           /\ UNCHANGED <<request, pay, claim>>
           /\ \A c \in Cards : "succeeded" \in intent'[c] => "succeeded" \in intent[c] \/ Challenged(c)
           /\ \A r \in Claims : Refunded(r)' => Refunded(r)]_vars
  BY StepMoves, DeniedMove
<1> QED BY <1>1, Invariant, PTL DEF Spec, NoMoneyAfterDenial

-----------------------------------------------------------------------------
(* The contract with the guest *)

\* The refunds of payment p that Stripe has carried out.
PaidBack(p) == {r \in Claims : claim[r].payment = p /\ Refunded(r)}

\* They, and what is retained, are claims that hold, and apart.
LEMMA HoldsApart ==
    ASSUME IInv, NEW p \in Payments
    PROVE  /\ PaidBack(p) \subseteq Live(claim, p) /\ Retained(claim, p) \subseteq Live(claim, p)
           /\ Movements(claim, p) \subseteq Live(claim, p) /\ Live(claim, p) \subseteq Claims
           /\ PaidBack(p) \cap Retained(claim, p) = {} /\ Movements(claim, p) \cap Retained(claim, p) = {}
<1>1. ASSUME NEW r \in Claims, Refunded(r)
      PROVE  claim[r].type = "refund" /\ claim[r].status \in {"pending", "completed"}
  <2>1. claim[r].type = "refund"
    BY <1>1, RefundKind DEF Refunded
  <2>2. claim[r] \in Claim
    BY <2>1, ClaimRow, NoClaimRow DEF IInv
  <2>3. claim[r].status # "failed"
    BY <1>1, <2>1 DEF IInv, RowInv, LedgerTruth, ProviderInv, Refunded
  <2> QED BY <2>1, <2>2, <2>3 DEF Claim
<1>2. PaidBack(p) \subseteq Live(claim, p) /\ PaidBack(p) \cap Retained(claim, p) = {}
  BY <1>1 DEF PaidBack, Live, Retained
<1> QED BY <1>2 DEF Live, Retained, Movements, Resolutions

LEMMA Within ==
    ASSUME IInv, NEW p \in Payments
    PROVE  /\ Total(claim, PaidBack(p)) \in Nat /\ Total(claim, Retained(claim, p)) \in Nat
           /\ Total(claim, Movements(claim, p)) \in Nat
           /\ Total(claim, PaidBack(p)) + Total(claim, Retained(claim, p)) <= Amount
           /\ Total(claim, Movements(claim, p)) + Total(claim, Retained(claim, p)) <= Amount
<1> DEFINE B == PaidBack(p)
           R == Retained(claim, p)
           M == Movements(claim, p)
           L == Live(claim, p)
<1>1. /\ L \in SUBSET Claims /\ B \cup R \in SUBSET L /\ M \cup R \in SUBSET L /\ B \cap R = {} /\ M \cap R = {}
      /\ B \in SUBSET Claims /\ R \in SUBSET Claims /\ M \in SUBSET Claims
  BY HoldsApart
<1>2. Total(claim, L) <= Amount
  BY DEF IInv, RowInv, ClaimsCovered
<1> HIDE DEF B, R, M, L
<1>3. Total(claim, B \cup R) <= Total(claim, L) /\ Total(claim, M \cup R) <= Total(claim, L)
  BY <1>1, SumOfMore
<1>4. Total(claim, B \cup R) = Total(claim, B) + Total(claim, R) /\ Total(claim, M \cup R) = Total(claim, M) + Total(claim, R)
  BY <1>1, SumOfTwo
<1>5. Total(claim, B) \in Nat /\ Total(claim, R) \in Nat /\ Total(claim, M) \in Nat /\ Total(claim, L) \in Nat
  BY <1>1, FiniteSum
<1>6. Total(claim, B) + Total(claim, R) <= Amount /\ Total(claim, M) + Total(claim, R) <= Amount
  BY <1>2, <1>3, <1>4, <1>5, PaymentAssumption
<1> QED BY <1>5, <1>6 DEF B, R, M

\* Without a capture there is no claim.
LEMMA NoClaims ==
    ASSUME IInv, NEW p \in Payments, pay[p].status # "captured"
    PROVE  /\ \A r \in Claims : claim[r].payment # p
           /\ Total(claim, PaidBack(p)) = 0 /\ Total(claim, Retained(claim, p)) = 0
           /\ Total(claim, Movements(claim, p)) = 0
<1>1. ASSUME NEW r \in Claims PROVE claim[r].payment # p
  BY ClaimRow, NoClaimRow DEF IInv, RowInv, ClaimKinds
<1>2. PaidBack(p) = {} /\ Retained(claim, p) = {} /\ Movements(claim, p) = {}
  BY <1>1 DEF PaidBack, Retained, Movements, Resolutions
<1> QED BY <1>1, <1>2, SumOfNone

LEMMA HeldOf ==
    ASSUME IInv, NEW p \in Payments
    PROVE  /\ p \in Externals =>
                Held(p) = IF pay[p].status = "captured" THEN Amount - Total(claim, Movements(claim, p)) ELSE 0
           /\ p \in Cards =>
                Held(p) = IF "succeeded" \notin intent[p] \/ Challenged(p) THEN 0
                          ELSE Amount - Total(claim, PaidBack(p))
           /\ KeptOf(p) = IF p \in Cards /\ Challenged(p) THEN 0 ELSE Total(claim, Retained(claim, p))
           /\ Held(p) \in Nat /\ KeptOf(p) \in Nat /\ KeptOf(p) <= Held(p)
<1>1. NetCaptured(claim, p) = Amount - Total(claim, Movements(claim, p))
  BY Within, PaymentAssumption DEF NetCaptured, Clip
<1>2. p \in Externals =>
        Held(p) = IF pay[p].status = "captured" THEN Amount - Total(claim, Movements(claim, p)) ELSE 0
  BY <1>1 DEF Held
<1>3. p \in Cards =>
        Held(p) = IF "succeeded" \notin intent[p] \/ Challenged(p) THEN 0 ELSE Amount - Total(claim, PaidBack(p))
  BY Apart DEF Held, PaidBack
<1>4. KeptOf(p) = IF p \in Cards /\ Challenged(p) THEN 0 ELSE Total(claim, Retained(claim, p))
  BY DEF KeptOf
<1>5. p \in Cards /\ "succeeded" \notin intent[p] => pay[p].status # "captured"
  BY DEF IInv, RowInv, LedgerTruth
<1>6. Held(p) \in Nat /\ KeptOf(p) \in Nat /\ KeptOf(p) <= Held(p)
  <2>1. p \in Cards \/ p \in Externals
    BY DEF Payments
  <2>2. CASE pay[p].status # "captured"
    BY <1>2, <1>3, <1>4, <2>1, <2>2, NoClaims, PaymentAssumption
  <2>3. CASE pay[p].status = "captured"
    BY <1>2, <1>3, <1>4, <1>5, <2>1, <2>3, Within, PaymentAssumption
  <2> QED BY <2>2, <2>3
<1> QED BY <1>2, <1>3, <1>4, <1>6

HeldFormula ==
    \A p \in Payments :
        /\ p \in Externals =>
             Held(p) = IF pay[p].status = "captured" THEN Amount - Total(claim, Movements(claim, p)) ELSE 0
        /\ p \in Cards =>
             Held(p) = IF "succeeded" \notin intent[p] \/ Challenged(p) THEN 0
                       ELSE Amount - Total(claim, PaidBack(p))
        /\ KeptOf(p) = IF p \in Cards /\ Challenged(p) THEN 0 ELSE Total(claim, Retained(claim, p))
        /\ Held(p) \in Nat /\ KeptOf(p) \in Nat /\ KeptOf(p) <= Held(p)

LEMMA HeldBefore == IInv => HeldFormula
BY HeldOf DEF HeldFormula

LEMMA HeldAfter == IInv' => HeldFormula'
BY HeldBefore, PTL

\* Steps of the contract, one payment at a time.
KeptLasts == \A q \in Payments : KeptOf(q)' = KeptOf(q)
HeldLasts == \A q \in Payments : Held(q)' = Held(q)

LEMMA ContractStutters ==
    ASSUME request' = request, HeldLasts, KeptLasts
    PROVE  UNCHANGED Contract!vars
BY DEF Contract!vars, HeldLasts, KeptLasts

LEMMA ContractTakes ==
    ASSUME NEW p \in Payments, request # "denied", request' = request, Held(p)' > Held(p),
           \A q \in Payments \ {p} : Held(q)' = Held(q), KeptLasts
    PROVE  Contract!Next
<1>1. Contract!Take(p)
  BY DEF Contract!Take, Contract!Elsewhere, KeptLasts
<1> QED BY <1>1 DEF Contract!Next

LEMMA ContractGivesBack ==
    ASSUME NEW p \in Payments, request # "denied", request' = request, KeptOf(p) <= Held(p)', Held(p)' < Held(p),
           \A q \in Payments \ {p} : Held(q)' = Held(q), KeptLasts
    PROVE  Contract!Next
<1>1. Contract!GiveBack(p)
  BY DEF Contract!GiveBack, Contract!Elsewhere, KeptLasts
<1> QED BY <1>1 DEF Contract!Next

LEMMA ContractKeeps ==
    ASSUME NEW p \in Payments, request = "pending", request' = request, KeptOf(p) < KeptOf(p)', KeptOf(p)' <= Held(p),
           \A q \in Payments \ {p} : KeptOf(q)' = KeptOf(q), HeldLasts
    PROVE  Contract!Next
<1>1. Contract!Keep(p)
  BY DEF Contract!Keep, Contract!Elsewhere, HeldLasts
<1> QED BY <1>1 DEF Contract!Next

\* What is held and kept of p depends on its own claims only.
LEMMA SameRows ==
    ASSUME NEW p \in Payments, UNCHANGED <<intent, refund>>,
           p \in Externals => pay'[p].status = pay[p].status,
           \A r \in Claims :
              /\ (claim'[r].payment = p) <=> (claim[r].payment = p)
              /\ claim[r].payment = p => claim'[r].amount = claim[r].amount
              /\ claim[r].payment = p =>
                   (claim'[r].status = "completed" /\ claim'[r].type = "retained")
                     <=> (claim[r].status = "completed" /\ claim[r].type = "retained"),
           p \in Externals => \A r \in Claims : claim[r].payment = p =>
              claim'[r].status = claim[r].status /\ claim'[r].type = claim[r].type
    PROVE  Held(p)' = Held(p) /\ KeptOf(p)' = KeptOf(p)
<1> DEFINE back == {r \in Claims : claim[r].payment = p /\ Refunded(r)}
<1>1. Retained(claim', p) = Retained(claim, p) /\ Retained(claim, p) \in SUBSET Claims
  BY DEF Retained, Resolutions
<1>2. Total(claim', Retained(claim, p)) = Total(claim, Retained(claim, p))
  <2>1. \A r \in Retained(claim, p) : claim'[r].amount = claim[r].amount
    BY DEF Retained, Resolutions
  <2> QED BY <1>1, <2>1, SameSum
<1>3. KeptOf(p)' = KeptOf(p)
  BY <1>1, <1>2 DEF KeptOf, Challenged
<1>4. CASE p \in Externals
  <2>1. Movements(claim', p) = Movements(claim, p) /\ Movements(claim, p) \in SUBSET Claims
    BY <1>4 DEF Movements, Retained, Resolutions
  <2>2. \A r \in Movements(claim, p) : claim'[r].amount = claim[r].amount
    BY DEF Movements, Resolutions
  <2>3. Total(claim', Movements(claim, p)) = Total(claim, Movements(claim, p))
    BY <2>1, <2>2, SameSum
  <2> QED BY <1>3, <1>4, <2>1, <2>3 DEF Held, NetCaptured
<1>5. CASE p \notin Externals
  <2>1. back' = back /\ back \in SUBSET Claims
    BY DEF Refunded
  <2>2. \A r \in back : claim'[r].amount = claim[r].amount
    OBVIOUS
  <2> HIDE DEF back
  <2>3. Total(claim', back) = Total(claim, back)
    BY <2>1, <2>2, SameSum
  <2>4. Held(p) = IF "succeeded" \notin intent[p] \/ Challenged(p) THEN 0 ELSE Amount - Total(claim, back)
    BY <1>5 DEF Held, back
  <2>5. Held(p)' = IF "succeeded" \notin intent[p] \/ Challenged(p) THEN 0 ELSE Amount - Total(claim', back')
    BY <1>5 DEF Held, back, Challenged
  <2> QED BY <1>3, <2>1, <2>3, <2>4, <2>5
<1> QED BY <1>4, <1>5

LEMMA QuietContract ==
    ASSUME UNCHANGED <<request, pay, claim, intent, refund>>
    PROVE  UNCHANGED Contract!vars
<1>1. ASSUME NEW p \in Payments PROVE Held(p)' = Held(p) /\ KeptOf(p)' = KeptOf(p)
  BY SameRows
<1> QED BY <1>1, ContractStutters DEF HeldLasts, KeptLasts

LEMMA PaymentContract ==
    ASSUME IInv, IInv', NEW p \in Payments, PaymentMoves(p)
    PROVE  Contract!Next \/ UNCHANGED Contract!vars
<1>1. UNCHANGED <<request, claim, intent, refund>>
  BY DEF PaymentMoves
<1>2. ASSUME NEW q \in Payments, q # p \/ q \notin Externals \/ pay'[q].status = pay[q].status
      PROVE  Held(q)' = Held(q) /\ KeptOf(q)' = KeptOf(q)
  BY <1>1, <1>2, SameRows DEF PaymentMoves
<1>3. KeptLasts
  BY <1>1 DEF KeptLasts, KeptOf, Challenged
<1>4. CASE p \notin Externals \/ pay'[p].status = pay[p].status
  BY <1>1, <1>2, <1>3, <1>4, ContractStutters DEF HeldLasts
<1>5. CASE p \in Externals /\ pay'[p].status # pay[p].status
  <2>1. pay[p].status = "none" /\ pay'[p].status = "captured" /\ request # "denied"
    BY <1>5, Apart DEF PaymentMoves
  <2>2. Held(p) = 0
    BY <1>5, <2>1, HeldOf
  <2>3. Held(p)' = Amount
    <3>1. Total(claim, Movements(claim, p)) = 0
      BY <2>1, NoClaims
    <3>2. NetCaptured(claim, p) = Amount
      BY <3>1, PaymentAssumption DEF NetCaptured, Clip
    <3> QED BY <1>1, <1>5, <2>1, <3>2 DEF Held
  <2>4. Held(p)' > Held(p)
    BY <2>2, <2>3, PaymentAssumption
  <2> QED BY <1>1, <1>2, <1>3, <2>1, <2>4, ContractTakes
<1> QED BY <1>4, <1>5

LEMMA ClaimSettledContract ==
    ASSUME IInv, NEW r \in Claims, ClaimSettled(r)
    PROVE  UNCHANGED Contract!vars
<1>1. UNCHANGED <<request, pay, intent, refund>> /\ \A q \in Claims \ {r} : claim'[q] = claim[q]
  BY DEF ClaimSettled, ClaimBooked
<1>2. /\ claim'[r].payment = claim[r].payment /\ claim'[r].type = claim[r].type
      /\ claim'[r].amount = claim[r].amount /\ claim[r].status = "pending"
  BY DEF ClaimSettled
<1>3. claim[r].type = "refund" /\ claim[r].payment \in Cards
  <2>1. claim[r] \in Claim
    BY <1>2, ClaimRow DEF IInv
  <2>2. claim[r].type = "refund"
    BY <1>2, <2>1 DEF Claim, IInv, RowInv, ClaimKinds
  <2> QED BY <2>2 DEF IInv, RowInv, ClaimKinds
<1>4. ASSUME NEW p \in Payments PROVE Held(p)' = Held(p) /\ KeptOf(p)' = KeptOf(p)
  BY <1>1, <1>2, <1>3, SameRows, Apart
<1> QED BY <1>1, <1>4, ContractStutters DEF HeldLasts, KeptLasts

LEMMA AcceptContract ==
    ASSUME IInv, Accept
    PROVE  Contract!Next
<1>1. ASSUME NEW p \in Payments PROVE Held(p)' = Held(p) /\ KeptOf(p)' = KeptOf(p)
  <2>1. UNCHANGED <<intent, refund>>
    BY DEF Accept, provider
  <2>2. pay'[p].status = pay[p].status
    BY AcceptRows
  <2>3. \A r \in Claims :
          /\ claim'[r].status = claim[r].status /\ claim'[r].type = claim[r].type
          /\ claim'[r].payment = claim[r].payment /\ claim'[r].amount = claim[r].amount
    BY AcceptRows
  <2> QED BY <2>1, <2>2, <2>3, SameRows
<1>2. Contract!Accept
  BY <1>1 DEF Contract!Accept, Accept
<1> QED BY <1>2 DEF Contract!Next

LEMMA DenyContract ==
    ASSUME IInv, Deny
    PROVE  Contract!Next
<1>1. ASSUME NEW p \in Payments PROVE Held(p)' = Held(p) /\ KeptOf(p)' = KeptOf(p)
  BY SameRows DEF Deny, provider
<1>2. ASSUME NEW p \in Payments PROVE Held(p) = KeptOf(p)
  <2>1. /\ Unresolved(claim, p) = 0 /\ pay[p].status # "pending"
        /\ \A r \in Claims : claim[r].status # "pending"
    BY DEF Deny
  <2>2. CASE pay[p].status # "captured"
    <3>1. p \in Externals => Held(p) = 0
      BY <2>2, HeldOf
    <3>2. p \in Cards => Held(p) = 0
      <4> SUFFICES ASSUME p \in Cards PROVE "succeeded" \notin intent[p] \/ Challenged(p)
        BY HeldOf
      <4>1. pay[p].status \in {"none", "failed", "voided"}
        BY <2>1, <2>2 DEF IInv, Typed, Payment
      <4> QED BY <4>1 DEF IInv, RowInv, ProviderInv, LedgerTruth
    <3>3. KeptOf(p) = 0
      BY <2>2, HeldOf, NoClaims
    <3> QED BY <3>1, <3>2, <3>3 DEF Payments
  <2>3. CASE pay[p].status = "captured"
    <3>1. Amount - Total(claim, Movements(claim, p)) - Total(claim, Retained(claim, p)) <= 0
      BY <2>1, <2>3, Within, PaymentAssumption DEF Unresolved, NetCaptured, Clip
    <3>2. Amount - Total(claim, Movements(claim, p)) = Total(claim, Retained(claim, p))
      BY <3>1, Within, PaymentAssumption
    <3>3. CASE p \in Externals
      BY <2>3, <3>2, <3>3, HeldOf, Apart
    <3>4. CASE p \in Cards
      <4>1. PaidBack(p) = Movements(claim, p)
        <5>1. ASSUME NEW r \in Claims, claim[r].payment = p
              PROVE  Refunded(r) <=> claim[r].status = "completed" /\ claim[r].type # "retained"
          <6>1. claim[r] \in Claim
            BY <5>1, ClaimRow, NoClaimRow DEF IInv
          <6>2. Refunded(r) => claim[r].type = "refund" /\ claim[r].status # "failed"
            BY RefundKind DEF Refunded, IInv, RowInv, LedgerTruth, ProviderInv
          <6>3. claim[r].status = "completed" /\ claim[r].type # "retained" => claim[r].type = "refund"
            BY <3>4, <5>1, <6>1, Apart DEF Claim, IInv, RowInv, ClaimKinds
          <6> QED BY <2>1, <6>1, <6>2, <6>3 DEF Claim, IInv, RowInv, LedgerTruth
        <5> QED BY <5>1 DEF PaidBack, Movements, Retained, Resolutions
      <4>2. "succeeded" \in intent[p]
        BY <2>3, <3>4 DEF IInv, RowInv, LedgerTruth
      <4> QED BY <3>2, <3>4, <4>1, <4>2, HeldOf
    <3> QED BY <3>3, <3>4 DEF Payments
  <2> QED BY <2>2, <2>3
<1>3. Contract!Deny
  BY <1>1, <1>2 DEF Contract!Deny, Deny
<1> QED BY <1>3 DEF Contract!Next

LEMMA ClaimMadeContract ==
    ASSUME IInv, IInv', NEW r \in Claims, ClaimMade(r)
    PROVE  Contract!Next \/ UNCHANGED Contract!vars
<1>1. /\ UNCHANGED <<request, pay, intent, refund>> /\ \A q \in Claims \ {r} : claim'[q] = claim[q]
      /\ request # "denied" /\ claim[r].status = "none" /\ claim[r].type = "none" /\ claim[r].payment = None
  BY NoClaimRow DEF ClaimMade, ClaimBooked
<1>2. PICK p \in Payments : p = claim'[r].payment
  BY DEF ClaimMade
<1>3. PICK a \in 1..Amount : a = claim'[r].amount
  BY DEF ClaimMade
<1>4. refund[r] = {}
  BY <1>1 DEF IInv, RowInv, ProviderInv
<1>5. ASSUME NEW q \in Payments, q # p PROVE Held(q)' = Held(q) /\ KeptOf(q)' = KeptOf(q)
  BY <1>1, <1>2, <1>5, SameRows, NoClaimRow
<1>6. /\ PaidBack(p)' = PaidBack(p) /\ PaidBack(p) \in SUBSET Claims /\ r \notin PaidBack(p)
      /\ Movements(claim, p) \in SUBSET Claims /\ r \notin Movements(claim, p)
      /\ Retained(claim, p) \in SUBSET Claims /\ r \notin Retained(claim, p)
  BY <1>1, <1>4, NoClaimRow DEF PaidBack, Refunded, Movements, Retained, Resolutions
<1>7. ASSUME NEW S \in SUBSET Claims, r \notin S PROVE Total(claim', S) = Total(claim, S)
  <2>1. \A q \in S : claim'[q].amount = claim[q].amount
    BY <1>1, <1>7
  <2> QED BY <2>1, SameSum
<1>8. ASSUME NEW S \in SUBSET Claims, r \notin S PROVE Total(claim', S \cup {r}) = Total(claim, S) + a
  <2>1. claim'[r].amount \in 0..Amount
    BY <1>3
  <2>2. Total(claim', S \cup {r}) = Total(claim', S) + a
    BY <1>3, <1>8, <2>1, SumWithOne
  <2> QED BY <1>7, <1>8, <2>2
<1>9. HeldFormula /\ HeldFormula'
  BY HeldBefore, HeldAfter
<1>10. pay[p].status = "captured" /\ (p \in Cards \/ p \in Externals) /\ Challenged(p)' = Challenged(p)
  BY <1>1, <1>2 DEF ClaimMade, Payments, Challenged
<1>11. p \in Cards => Held(p)' = Held(p)
  BY <1>1, <1>6, <1>7, <1>9, <1>10 DEF HeldFormula
<1>12. claim'[r].type # "retained" => KeptOf(p)' = KeptOf(p)
  <2> SUFFICES ASSUME claim'[r].type # "retained" PROVE KeptOf(p)' = KeptOf(p)
    OBVIOUS
  <2>1. Retained(claim', p) = Retained(claim, p)
    BY <1>1, <1>6 DEF Retained, Resolutions
  <2> QED BY <1>6, <1>7, <1>9, <1>10, <2>1 DEF HeldFormula
<1>13. CASE claim'[r].type = "refund" /\ claim'[r].payment \in Cards
  BY <1>1, <1>2, <1>5, <1>11, <1>12, <1>13, ContractStutters DEF HeldLasts, KeptLasts
<1>14. CASE claim'[r].type = "external_return" /\ claim'[r].payment \in Externals /\ claim'[r].status = "completed"
  <2>1. Movements(claim', p) = Movements(claim, p) \cup {r}
    BY <1>1, <1>2, <1>6, <1>14 DEF Movements, Retained, Resolutions
  <2>2. Total(claim', Movements(claim', p)) = Total(claim, Movements(claim, p)) + a
    BY <1>6, <1>8, <2>1
  <2>3. /\ Held(p) = Amount - Total(claim, Movements(claim, p))
        /\ Held(p)' = Amount - Total(claim', Movements(claim', p))
    BY <1>1, <1>2, <1>9, <1>10, <1>14 DEF HeldFormula
  <2>4. Held(p)' < Held(p)
    <3>1. Total(claim, Movements(claim, p)) \in Nat
      BY <1>6, FiniteSum
    <3> QED BY <2>2, <2>3, <3>1, PaymentAssumption
  <2>5. KeptLasts
    BY <1>5, <1>12, <1>14 DEF KeptLasts
  <2>6. KeptOf(p)' <= Held(p)'
    BY <1>9 DEF HeldFormula
  <2>7. KeptOf(p) <= Held(p)'
    BY <2>5, <2>6 DEF KeptLasts
  <2> QED BY <1>1, <1>5, <2>4, <2>5, <2>7, ContractGivesBack
<1>15. CASE claim'[r].type = "retained" /\ request = "pending" /\ claim'[r].status = "completed"
  <2>1. Retained(claim', p) = Retained(claim, p) \cup {r} /\ Movements(claim', p) = Movements(claim, p)
    BY <1>1, <1>2, <1>6, <1>15, NoClaimRow DEF Movements, Retained, Resolutions
  <2>2. Total(claim', Retained(claim', p)) = Total(claim, Retained(claim, p)) + a
    BY <1>6, <1>8, <2>1
  <2>3. p \in Externals => Held(p)' = Held(p)
    BY <1>1, <1>6, <1>7, <1>9, <1>10, <2>1 DEF HeldFormula
  <2>4. HeldLasts
    BY <1>5, <1>10, <1>11, <2>3 DEF HeldLasts
  <2>5. CASE p \in Cards /\ Challenged(p)
    <3>1. KeptOf(p)' = KeptOf(p)
      BY <1>9, <1>10, <2>5 DEF HeldFormula
    <3> QED BY <1>1, <1>5, <2>4, <3>1, ContractStutters DEF KeptLasts
  <2>6. CASE ~ (p \in Cards /\ Challenged(p))
    <3>1. KeptOf(p) = Total(claim, Retained(claim, p)) /\ KeptOf(p)' = Total(claim', Retained(claim', p))
      BY <1>9, <1>10, <2>6 DEF HeldFormula
    <3>2. KeptOf(p) \in Nat
      BY <1>9 DEF HeldFormula
    <3>3. KeptOf(p) < KeptOf(p)'
      BY <2>2, <3>1, <3>2, PaymentAssumption
    <3>4. KeptOf(p)' <= Held(p)'
      BY <1>9 DEF HeldFormula
    <3>5. KeptOf(p)' <= Held(p)
      BY <2>4, <3>4 DEF HeldLasts
    <3> QED BY <1>1, <1>5, <1>15, <2>4, <3>3, <3>5, ContractKeeps
  <2> QED BY <2>5, <2>6
<1> QED BY <1>13, <1>14, <1>15 DEF ClaimMade

LEMMA IntentContract ==
    ASSUME IInv, IInv', NEW c \in Cards, NEW e \in IntentEvents, IntentGrows(c, e)
    PROVE  Contract!Next \/ UNCHANGED Contract!vars
<1>1. /\ Typed /\ c \in Payments /\ pay[c].status # "none" /\ ~Final(intent[c])
      /\ UNCHANGED <<request, pay, claim, refund>>
  BY Apart DEF IInv, IntentGrows
<1>2. intent'[c] = intent[c] \cup {e} /\ \A d \in Cards \ {c} : intent'[d] = intent[d]
  BY <1>1, IntentAfter
<1>3. "succeeded" \notin intent[c] /\ pay[c].status # "captured"
  BY <1>1 DEF Final, IInv, RowInv, LedgerTruth
<1>4. HeldFormula /\ HeldFormula'
  BY HeldBefore, HeldAfter
<1>5. ASSUME NEW q \in Payments, q # c PROVE Held(q)' = Held(q) /\ KeptOf(q)' = KeptOf(q)
  <2>1. PaidBack(q)' = PaidBack(q) /\ (q \in Cards => Challenged(q)' = Challenged(q))
    BY <1>1, <1>2, <1>5 DEF PaidBack, Refunded, Challenged
  <2>2. q \in Externals => Held(q)' = Held(q)
    BY <1>1, <1>4 DEF HeldFormula
  <2>3. q \in Cards => Held(q)' = Held(q)
    BY <1>1, <1>2, <1>4, <1>5, <2>1 DEF HeldFormula
  <2>4. KeptOf(q)' = KeptOf(q)
    BY <1>1, <1>4, <2>1 DEF HeldFormula
  <2> QED BY <2>2, <2>3, <2>4 DEF Payments
<1>6. Held(c) = 0 /\ KeptOf(c) = 0 /\ KeptOf(c)' = 0
  <2>1. Total(claim, Retained(claim, c)) = 0
    BY <1>1, <1>3, NoClaims
  <2> QED BY <1>1, <1>3, <1>4, <2>1 DEF HeldFormula
<1>7. Held(c)' \in {0, Amount}
  <2>1. Total(claim, PaidBack(c)) = 0
    BY <1>1, <1>3, NoClaims
  <2>2. PaidBack(c)' = PaidBack(c)
    BY <1>1 DEF PaidBack, Refunded
  <2>3. Amount - 0 = Amount
    BY PaymentAssumption
  <2> QED BY <1>1, <1>4, <2>1, <2>2, <2>3 DEF HeldFormula
<1>8. KeptLasts
  BY <1>5, <1>6 DEF KeptLasts
<1>9. CASE Held(c)' = 0
  BY <1>1, <1>5, <1>6, <1>8, <1>9, ContractStutters DEF HeldLasts
<1>10. CASE Held(c)' = Amount /\ Held(c)' # 0
  <2>1. Held(c)' > Held(c)
    BY <1>6, <1>10, PaymentAssumption
  <2>2. request # "denied"
    <3> SUFFICES ASSUME request = "denied" PROVE FALSE
      OBVIOUS
    <3>1. Challenged(c)
      BY <1>1, DeniedSettled
    <3>2. Challenged(c)'
      BY <1>2, <3>1 DEF Challenged
    <3> QED BY <1>1, <1>4, <1>10, <3>2 DEF HeldFormula
  <2> QED BY <1>1, <1>5, <1>8, <2>1, <2>2, ContractTakes
<1> QED BY <1>7, <1>9, <1>10

LEMMA RefundContract ==
    ASSUME IInv, IInv', NEW r \in Claims, NEW e \in RefundEvents, RefundGrows(r, e)
    PROVE  Contract!Next \/ UNCHANGED Contract!vars
<1>1. /\ Typed /\ claim[r].type = "refund" /\ refund[r] \subseteq {"pending"}
      /\ UNCHANGED <<request, pay, claim, intent>>
  BY DEF IInv, RefundGrows
<1>2. refund'[r] = refund[r] \cup {e} /\ \A q \in Claims \ {r} : refund'[q] = refund[q]
  BY <1>1, RefundAfter
<1>3. HeldFormula /\ HeldFormula'
  BY HeldBefore, HeldAfter
<1>4. PICK p \in Cards : p = claim[r].payment
  BY <1>1 DEF IInv, RowInv, ClaimKinds
<1>5. p \in Payments /\ claim[r].amount \in 1..Amount
  <2>1. claim[r] \in Claim
    BY <1>1, ClaimRow, NoClaimRow
  <2> QED BY <2>1, Apart DEF Claim
<1>6. KeptLasts
  BY <1>1, <1>3 DEF KeptLasts, HeldFormula, Challenged
<1>7. ASSUME NEW q \in Payments, q # p \/ e # "succeeded" PROVE Held(q)' = Held(q)
  <2>1. PaidBack(q)' = PaidBack(q)
    BY <1>1, <1>2, <1>4, <1>7 DEF PaidBack, Refunded
  <2>2. Challenged(q)' = Challenged(q)
    BY <1>1 DEF Challenged
  <2> QED BY <1>1, <1>3, <2>1, <2>2 DEF HeldFormula, Payments
<1>8. CASE e # "succeeded" \/ "succeeded" \notin intent[p] \/ Challenged(p)
  <2>1. Held(p)' = Held(p)
    <3>1. CASE e # "succeeded"
      BY <1>5, <1>7, <3>1
    <3>2. CASE "succeeded" \notin intent[p] \/ Challenged(p)
      BY <1>1, <1>3, <1>5, <3>2 DEF HeldFormula, Challenged
    <3> QED BY <1>8, <3>1, <3>2
  <2> QED BY <1>1, <1>6, <1>7, <2>1, ContractStutters DEF HeldLasts
<1>9. CASE e = "succeeded" /\ "succeeded" \in intent[p] /\ ~Challenged(p)
  <2>1. PaidBack(p)' = PaidBack(p) \cup {r} /\ r \notin PaidBack(p) /\ PaidBack(p) \in SUBSET Claims
    BY <1>1, <1>2, <1>4, <1>9 DEF PaidBack, Refunded
  <2>2. Total(claim, PaidBack(p) \cup {r}) = Total(claim, PaidBack(p)) + claim[r].amount
    <3>1. claim[r].amount \in 0..Amount
      BY <1>5
    <3> QED BY <2>1, <3>1, SumWithOne
  <2>3. /\ Held(p) = Amount - Total(claim, PaidBack(p))
        /\ Held(p)' = Amount - Total(claim, PaidBack(p) \cup {r})
    BY <1>1, <1>3, <1>5, <1>9, <2>1 DEF HeldFormula, Challenged
  <2>4. Held(p)' < Held(p)
    <3>1. Total(claim, PaidBack(p)) \in Nat
      BY <2>1, FiniteSum
    <3> QED BY <1>5, <2>2, <2>3, <3>1, PaymentAssumption
  <2>5. KeptOf(p) <= Held(p)'
    <3>1. KeptOf(p)' <= Held(p)'
      BY <1>3, <1>5 DEF HeldFormula
    <3> QED BY <1>5, <1>6, <3>1 DEF KeptLasts
  <2>6. request # "denied"
    BY <1>1, DeniedSettled
  <2> QED BY <1>1, <1>5, <1>6, <1>7, <2>4, <2>5, <2>6, ContractGivesBack
<1> QED BY <1>8, <1>9

LEMMA MoveContract ==
    ASSUME IInv, IInv', Move
    PROVE  Contract!Next \/ UNCHANGED Contract!vars
<1>1. CASE Silent
  BY <1>1, QuietContract DEF Silent
<1>2. ASSUME NEW r \in Claims, ClaimRepeated(r) PROVE UNCHANGED Contract!vars
  BY <1>2, QuietContract DEF ClaimRepeated, ClaimBooked
<1> QED BY <1>1, <1>2, PaymentContract, ClaimMadeContract, ClaimSettledContract, IntentContract, RefundContract,
           AcceptContract, DenyContract DEF Move

LEMMA InitContract ==
    ASSUME Init
    PROVE  Contract!Init
<1>1. IInv
  BY InitInv
<1>2. ASSUME NEW p \in Payments PROVE Held(p) = 0 /\ KeptOf(p) = 0
  <2>1. pay[p].status = "none" /\ (p \in Cards => intent[p] = {})
    BY DEF Init, NoPayment
  <2>2. KeptOf(p) = 0
    BY <1>1, <2>1, HeldOf, NoClaims
  <2>3. Held(p) = 0
    BY <1>1, <2>1, HeldOf DEF Payments
  <2> QED BY <2>2, <2>3
<1>3. request = "pending"
  BY DEF Init
<1> QED BY <1>2, <1>3 DEF Contract!Init

\* Charges, refunds, returns, retentions and the decision, with every crash,
\* retry and late webhook, implement the contract of GuestMoney.
THEOREM MoneyKept == Spec => GuestMoneyKept
<1>1. Init => Contract!Init
  BY InitContract
<1>2. IInv /\ IInv' /\ [Next]_vars => [Contract!Next]_(Contract!vars)
  <2> SUFFICES ASSUME IInv, IInv', [Next]_vars PROVE [Contract!Next]_(Contract!vars)
    OBVIOUS
  <2>1. CASE Next
    BY <2>1, StepMoves, MoveContract
  <2>2. CASE UNCHANGED vars
    BY <2>2, QuietContract DEF vars, ledger, provider
  <2> QED BY <2>1, <2>2
<1> QED BY <1>1, <1>2, Invariant, PTL DEF Spec, GuestMoneyKept, Contract!Spec

=============================================================================
