# Formal models of HAIP

HAIP is a hotel property-management system: a NestJS API over one PostgreSQL
database (READ COMMITTED, row locks), with Redis, payment gateways, OTA
channels and a Stripe webhook as its environment. This directory holds TLA+
models of the parts where concurrent requests, background jobs and external
callbacks meet in the same rows, the TLC runs that check them on small
instances, and TLAPS proofs of the results that matter most.

## The system's parts

| Part | State | Operations | What is hard |
|---|---|---|---|
| Room-type inventory | `reservations` rows, `ical_blocks`, row locks on `room_types`, `reservations`, `properties` | create, accept a booking request, channel and Connect bookings, modify, amend, split, releases, feed imports | check-then-write across transactions, stale reads, lock order |
| Reservation lifecycle | `reservations.status`, `room_id`, `checked_in_at`; `rooms.status` | confirm, assign, check in, check out, cancel, no-show, move room; night audit, channel and payment writers | eight writers of one column, some conditional and some not; room status written after the claim commits |
| Night audit | `audit_runs`, `charges`, business date | runAudit and its steps, per-reservation errors, crash | idempotence, partial failure, never-finished runs |
| Folio | `folios`, `charges`, `payments`, balance | post, reverse, transfer, split, route, settle, close | balance recalculation, lock order between two folios |
| Payments | `payments`, gateway, Stripe webhook, hosted sessions | authorize, capture, void, refund, webhook, expiry | duplicate and late webhooks, gateway success then a local failure |
| Booking requests | `booking_requests`, consequences outbox, payment operations | submit, accept, deny, withdraw, amend, consequences | leases, retries, decisions racing payments |
| Webhook delivery | `webhook_deliveries` | enqueue, deliver, retry, give up | at-least-once, back-off, restart |
| Housekeeping | `housekeeping_tasks`, `rooms.status` | generate, assign, start, complete, inspect | room status against task status |
| Groups | allotments, pickups, rooming list | allot, pick up, release | counters against availability |
| Channels (ARI, inbound) | connections, mappings, sync log | push, pull, acknowledge | ordering and duplication of inbound messages |
| Accounting, deposits, cashier, house accounts | A/R ledgers, deposits, cash drawers | post, settle, apply, open and close drawers | sums that must agree with folios |
| Guest check-in, door locks, loyalty, waitlist, ancillary, fiscal | their own tables | see PROJECT.json | mostly single-row claims |
| Reports, dashboards, booking UI, agents' analytics, auth, media, i18n | read-only or outside the data path | | not modelled |

`PROJECT.json` lists every part under `components`, with what is modelled of it
or why nothing is, and under `hazards` what in the code is hard to test, each
at its line, with the properties that would catch it.

## Plan

Done, each model-checked and with proofs of its safety properties: `Inventory`,
`ReservationLifecycle` and `Stay`, `NightAudit`, `Folio`, `BookingRequestPayment`
(against `GuestMoney`), `EventPipeline` (`ConsequenceOutbox` and
`WebhookDelivery`) and `GatewayPayment`. Next, in this order:

1. `Allotment`, `Deposits`, `Housekeeping`: counters and statuses with one
   invariant each.
2. Hosted Connect sessions and Redsys beside the Worldline path of
   `GatewayPayment`.

## What the modules model

| Module | Models | Code |
|---|---|---|
| `Inventory` | room-type availability and every path that changes it | `reservation/availability.service.ts`, `reservation.service.ts`, `channel/inbound-reservation.service.ts`, `connect/connect-booking.service.ts`, `ical/ical.service.ts`, `booking-requests/src/domain` |
| `ReservationLifecycle` | abstract specification: the statuses and `VALID_TRANSITIONS` | `reservation/reservation-state-machine.ts` |
| `Stay` | every writer of `reservations.status` and `room_id`, and of `rooms.status` | `reservation.service.ts`, `reservation-party.service.ts`, `room/room-status.service.ts`, `night-audit.service.ts`, `guest-check-in.service.ts`, `inbound-reservation.service.ts`, the payment callbacks |
| `Folio` | charges, payments recorded, stored balances, charge locks | `folio/folio.service.ts`, `folio/folio-routing.service.ts`, `payment.service.ts` (`recordPayment`), `night-audit.service.ts` (`lockChargesForDate`) |
| `NightAudit` | the audit run of a date, its steps, and the desk beside it | `night-audit/night-audit.service.ts`, `ancillary.service.ts` (`postPerNightForProperty`), check-in, check-out, `settle` |
| `GuestMoney` | abstract specification: what a booking request promises about the guest's money | |
| `BookingRequestPayment` | the payments of a booking request against Stripe | `booking-requests/src/domain` (payment service, ledger, reconciler, Stripe handler, accept, deny), `stripe-saved-payment-method.gateway.ts` |
| `ConsequenceOutbox` | consequences, their leases and dispatchers | `booking-request.service.ts`, `booking-request-consequence-worker.service.ts` |
| `WebhookDelivery` | delivery rows, queue jobs and attempts | `webhook/webhook-delivery.service.ts` |
| `EventPipeline` | the two composed through the listener of all events | `connect/connect-events.service.ts`, `webhook/webhook.service.ts` |
| `GatewayPayment` | a card payment against Stripe or Worldline, and the deposit of an online booking | `payment/payment.service.ts`, `hosted-authorization-finalizer.ts`, the webhook controllers, `worldline-challenge.queue.ts`, the two gateways, `booking-engine.service.ts`, `deposit.service.ts` |
| `MC...` | values and symmetry for TLC | |
| `InventoryProofs`, `StayProofs`, `FolioProofs`, `NightAuditProofs`, `BookingRequestPaymentProofs`, `BookingRequestAllocationProofs`, `EventPipelineProofs`, `GatewayPaymentProofs` | theorems and proofs | |

`Inventory`, `Stay` and `Folio` have the same shape. A *worker* serves one HTTP
request, job or callback; `req[w]` holds what the handler keeps in local
variables (`seen` is the row as the handler read it) and `pc` names the next SQL
statement. One action is one statement, or the statements between two lock
acquisitions when nothing another request does can fall between them. Two
things separate code that works from code that does not, and both are explicit:
what a handler *read earlier* and what the row holds *now* are different
variables, and a conditional `UPDATE ... WHERE status IN (...)` is an atomic
test and write while an `UPDATE ... WHERE id` is not. `Abort` (every module)
ends a request at any statement: a refusal, an error, a lost connection or a
crash. Data is reduced to what the properties tell apart: a date is a day
number, a charge has the amount 1, all rooms of `Stay` have one type.

### Inventory

`res[r]` is a reservation row (held or released, room type, arrival, departure,
the denormalised `nights`, the stay its accepted price covers), `busy[f]` the
nights an iCal feed blocks, and `inv`, `row`, `prop` the row locks on
`room_types` (the inventory mutex of `lockInventory`), `reservations` and
`properties`; `propKeys` and `typeKeys` are the key shares that foreign-key
checks take on the last two, kept like every lock until COMMIT. `Begin...` actions are the entry points with everything they read
before the first lock or check: `BeginInsert` (create, accept, channel and
Connect booking), `BeginModify`, `BeginChannelModify`, `BeginConnectModify`,
`BeginAmend`, `BeginUpgrade`, `BeginSplit`, `BeginPost`. `LockRow`,
`LockProperty`, `LockInventory`, `CheckPasses`/`CheckFails`, `Insert`, `Update`
and `PostCharge` are the statements that follow. An INSERT first shares its parent
rows (`ShareProperty`, `ShareType`, in either order) and a split then waits, with
these shares, for its source row; an UPDATE first locks its row (`LockUpdated`)
and then waits for the share of a new room type. `Holders` says whom each request
waits for. `Release` stands for
every single statement that takes a row out of availability.
`Available` is `searchAvailability` with its clamp at zero, `GiveBack` the unit a
modification returns to itself.

### ReservationLifecycle and Stay

`ReservationLifecycle` has one variable, the status of every reservation, and
says what an insert may write and which edges a status may follow. `Stay` maps
onto it with `status <- [r \in Res |-> res[r].status]`.

In `Stay` a request reads the row (`Begin...`), possibly reads the target room
(`ReadRoom`), writes the row (`Claim`, with the condition `From` and the result
`Written`), runs its side effects (`Effects`: the folio of a check-in, the
settlement of a cancellation or audited no-show), frees the room of a no-show (`Clear`) and
performs its room transitions, each a `TransitionRead` and a `TransitionWrite`.
`folios` and `settled` count side effects. The night audit's stayovers and
due-outs and the payment callbacks are single conditional statements.

### Folio

`charge[c]` is a charge row with its parent, the row it reverses, its source
key, its lock and, until its transaction commits, the worker that wrote it.
`lock` holds row locks in three PostgreSQL modes, `Needs` says which ones the
next statement takes, and a statement runs when `Granted`. `postCharge` and
`recordPayment` commit statement by statement; accepted-price posting, reversal
and transfer are transactions whose rows vanish on `Abort`. `Sum` and `Write` are
the two halves of `recalculateBalance`.

### NightAudit

`run[d]` is the `audit_runs` row of a date with the stays the audit read in house
(`seen`, a history variable), `stay[r]`, `folio[r]` and `charge[l, r, d]` what it works on, and
`at[a]` the step of audit `a`: which loop it is in, what is left of it, and the
stay whose charge it has looked for. `PostAccepted` is one transaction with a
source key, the live-rate path is `LookUpCharge` and `PostLiveRate`, with
anything in between. `FailAuditRun` is a throw outside the per-stay loops,
`Crash` everything that leaves the row in `running`. The desk checks guests in
and out and settles folios at any time; that guests come on their arrival date
or later is an assumption on the input. A second charge of the same night
through the desk's own postings is not the audit's doing and left out.

### BookingRequestPayment and GuestMoney

Every transaction of this code locks the request row first, so each is one
action. A charge and a refund are three: a transaction that claims, a call of
Stripe without a lock (`CallCharge`, `CallRefund`), a transaction that books the
answer. `intent[c]` and `refund[r]` are the events Stripe has reported or will
report; the webhook actions read any of them at any time, any number of times.
`ReconcileAllocations` and `Announce` are part of each action that moves money,
as in the code. `allocs` is the table of allocation rows, one per payment and
installment; the order of creation, which the reconciler goes by, is kept as the
set of `older` rows of the same payment, and `Kept` is what its loop from the
oldest row on leaves of a row. `GuestMoney` knows the decision, the money the hotel really has
of each payment and the part retained; `BookingRequestPayment` maps onto it with
Stripe's side of the books, not the ledger's, so the refinement says that the
ledger's checks bind real money.

### ConsequenceOutbox, WebhookDelivery and EventPipeline

An event is committed as a consequence row; a dispatcher (the request itself or
the scan of any process) claims it under a lease, reads the active
subscriptions, and for each inserts a delivery row and adds a job in Redis - two
systems, two steps. A queue worker attempts the job: reads the row, POSTs,
writes the row by its id. `EventPipeline` composes the two and adds what goes
wrong: a listener that throws, an event a dispatcher of another release does not
know, processes that die at any step, a lease that runs out under a slow
dispatcher, statements of an attempt that fail, a subscription that is
deactivated. An error of the listener does not reach the dispatcher: the event
emitter logs it and `emitAsync` resolves, so the consequence is completed
(`ListenerThrows`). `skipped` is the history of the deliveries that were left out
that way.

### GatewayPayment

One payment and up to three requests or jobs. `Claim`, `Call` and `Finish` are
the three steps of capture and void; a refund is a checked transaction, a call
under the key of the total it reaches, and a booking transaction. `Guest`,
`Expire`, `CaptureInDashboard` and `RefundInDashboard` are the provider without
the hotel. For
Worldline, `WorldlineEvent`, `Read`/`Apply` and `Reread`/`CancelChallenge`/`Drop`
are the webhook, the status read and the expiry, which compete in `Finalize`. `RecordDeposit`
and `ConfirmBooking` are the rest of a checkout that was authorized at once.
A late webhook of Worldline is any terminal status the payment ever had
(`past`). Stripe's events find the row by the id it carries (`linked`): a row
failed by an error has none, one failed because the intent waited for the guest
has. `payment_intent.succeeded` and `.canceled` come when the intent says so;
`payment_intent.payment_failed` is about one attempt and may be handled at any
time, over any status (`refused` records that it was).

## What the runs check

| Run | Instance | Result |
|---|---|---|
| `inventory_canonical` | 2 requests, 3 reservations, 1 type with 1 room and 100 % overbooking, 2 nights, 1 feed; create, accept, amend, night posting, release, import | no night is oversold |
| `inventory_locks` | 3 requests of different kinds (`OneOfEach`), 2 reservations (one to create or split off while the other is posted to, amended or modified), 2 types, 1 night; every path that waits for a lock | a poster that holds an accepted stay's pricing lock is in no deadlock |
| `inventory_modify_race` | 2 requests, create and modify | **violation**: generic modify oversells |
| `stay_lifecycle` | 2 requests, 1 reservation, 2 rooms; every claiming operation, callbacks, audit, staff | the handlers refine the state machine; guests in house have a room; one folio or one settlement per stay |
| `stay_rooms` | 2 requests, 2 reservations, 2 rooms, one check-in each (`OneCheckIn`); confirm, assign, move, check in and out, split, channel cancellation, upgrade | a guest in house keeps a room, whoever else writes the row |
| `folio_ledger` | 2 requests, 2 folios, 5 charge rows, one group (`OneGroup`); post, accepted post, reverse, transfer, day close, failures | no double reversal; nothing locked is reversed; accepted pairs stay whole |
| `folio_sequential` | 1 request at a time, every operation, no failure half-way | the stored balance is what charges and payments add up to |
| `booking_request_money` | 2 workers, 1 saved-card charge and 1 external payment of 2 units, 2 claims; 1 installment, or 2 while one payment and one worker are in use (`InstallmentBound`) | the ledger follows Stripe, allocations stay backed by money and are released from the newest on, every fact is announced, an accepted folio is credited, nothing moves after a denial, and the whole implements `GuestMoney` |
| `event_pipeline` | 1 consequence, 2 dispatchers, 2 subscriptions, 2 queue workers, 2 attempts, up to 2 faults of any kind | a completed consequence has left out only what an error of the listener left out, completed and delivered are final, everything settles |
| `event_handover` | 1 of each, an error of the listener | **violation**: a consequence is completed with a subscription not enqueued |
| `night_audit` | 2 requests, 2 dates, an accepted stay with an extra and a live-rate stay, 1 fault | no night charged twice, nobody forgotten, a closed night is locked, no present guest becomes a no-show |
| `gateway_payment` | 3 workers (2 once more than one unit is refunded: `WorkBound`), 1 payment of 3 units, Stripe, tokenized and hosted Worldline | refunds agree with the provider, captured and voided are true, one deposit per payment, nothing stranded on a card |

Bounds. Every race in these modules is between a request that has read or
checked something and another one that changes it, so two concurrent requests
suffice to show it, and one room, or one allowance, makes every conflict a
conflict for the last unit. Two nights give stays that overlap partly; three
reservations leave one that can take the unit the other two fight over. The
shortest lock cycles have two or three waiting requests, and two of one kind
add none: `OneOfEach` has one insertion or split, one modification or upgrade,
one amendment and one posting at most. Five charge rows are a base row, its tax,
a reversal of each and the second reversal of the tax that must not exist;
`OneGroup` leaves them all to one group. An upgrade can send a guest back to
check-in for ever; `OneCheckIn` stops after the first folio. Two units are the
least a partial refund and a retention can share, three the least two partial
refunds and a dashboard refund can. Two installments of one payment are the
least with an order of allocation rows; `InstallmentBound`, a constraint of the
run, has the second one only beside one payment and one worker. A third worker is the one that writes
between the claim and the answer of the other two. Two attempts and two faults
let the queue's count and the row's count drift apart; two dates let an audit
post and lock while another one does. `IdLeft` (Inventory), `MaxPosts`, `MaxPaid` and the number of ids (Folio), and
`MaxFaults` (EventPipeline, NightAudit) are the only bounds in guards; a payment, a
claim or a delivery happens once per id of its constant set. Deadlock checking is
on for `Inventory` and `Stay`, where some request can always come, and off where
the instance really stops: all charges posted, all events delivered, all
nights audited, all refunds made.

Fairness (`event_pipeline`). Weak fairness of `Dispatch` for each dispatcher: every
process scans the outbox every 30 seconds and at start. Weak fairness of `Deliver`
for each queue worker and of `Redeliver` for each job: BullMQ's workers poll, and
its stalled-job check runs periodically. Faults, commits and deactivations have
none.

Assumptions on code outside the repository, each marked external in the map:

* Stripe answers a repeated idempotency key with the first response (keys are
  kept for 24 hours; a retry after that is not modelled), never refunds more
  than the charge, and may capture a payment that asked for authentication long
  after the call. A refund that succeeded stays so, although a bank may return
  it; a repeated refund call is not refused for credentials that were revoked
  since the first one, which `stripe-gateway.ts:222-241` would report as a failed
  refund; and amounts and currencies pass the gateway's own validation
  (`SavedPaymentMethodValidationError`), which would fail the payment without a
  call.
* A terminal status at Worldline is final, except that a hold can be captured,
  cancelled or expire, and a capture it accepts is carried out:
  `worldline-gateway.ts:231-260` reports success when the capture may only have
  been requested.
* BullMQ keeps one job per id, renews the lock of a live worker, and hands a
  stalled job out again once. `OutcomeIsFinal` rests on it: an attempt
  writes its row by id without looking.
* `@nestjs/event-emitter` 3.0.1 catches and logs the errors of `@OnEvent`
  listeners unless they set `suppressErrors: false`; the listener of all events
  (`connect-events.service.ts:176`) does not.
* PostgreSQL checks the foreign keys of an INSERT in an order that follows from
  trigger names; the schema is pushed without migrations, and the model allows
  every order.

## What is proved

TLAPS checks these for every value of the constants that satisfies the modules'
assumptions, so for any number of requests, reservations, rooms, folios, payments
and dates. No theorem assumes fairness; where one restricts the operations in
use, the restriction is an `ASSUME` of the theorem, and the operations it leaves
out are the ones that break the property (next section).

* Type correctness of `Inventory`, `Stay`, `NightAudit`, `Folio`,
  `BookingRequestPayment`, `EventPipeline` and `GatewayPayment` (`TypeCorrect`,
  `StayTypeCorrect`).
* `InventoryProofs!MutexPreventsOverselling`: when only paths that take the
  inventory mutex are in use (`Paths` within create, accept, amend, posting,
  release and imports), `NoOversell` holds. `NoOversell` is not inductive: the insert
  happens a statement after the check. `MutexInv` adds `HoldsMutex` (from its
  check on, a request holds the mutex of its room type), `CheckStillHolds` (the
  nights it checked still have room, its own row not counted, when it writes)
  and `PathShape` (which step belongs to which path; an amendment keeps the room
  type of its row).
* `InventoryProofs!CheckedPathsFit`: with one request at a time (`Alone`) `NoOversell`
  holds for every entry point that asks `searchAvailability`, with or without the
  mutex, beside releases and imports. What is proved is the arithmetic: the clamp
  at zero, the unit a modification gives back, the row an amendment leaves out.
  `AloneInv` says that a request still knows the dates and the type of the row
  it modifies (`FreshIn`, which a release may not disturb) and that from its check
  on the rows other than its own leave a unit free on every night it wants
  (`FittingIn`, `Gap`); a night a modification keeps has that unit because its own
  row is one of those sold.
* `InventoryProofs!PostersOutsideCycles`: for every set of entry points and any
  number of requests `PostingOutsideCycles` holds. `LockInv` says which locks and
  key shares a request may hold at each of its steps. A poster waits only for
  whoever has locked the property row; while it is locked nobody shares it, so a
  split, which must have shared it before it waits for a reservation row, is not
  among those who wait for the poster, and those who are hold nothing: nobody
  waits for them and no cycle closes.
* `InventoryProofs!NightsAgree` (without `modify`, or with one request at a time)
  and `SnapshotExact` (without `modify`, `connectModify` and `upgrade`):
  `NightsMatchDates` and `SnapshotCoversStay`. `DateInv` says that a request writes
  both dates of a proper stay or neither, or, a lone modification, that the date it
  does not write is the one it counted with; `SnapshotInv` that an amendment past its row lock still knows
  the row's room type and that a channel modification concerns an unpriced row.
* `StayProofs!HandlersImplementLifecycle` and `ClaimsRunEffectsOnce`: under the assumption `Claiming` (neither the channel
  cancellation nor the guest upgrade in `Ops`) the concurrent handlers implement
  `ReservationLifecycle`, and folio and settlement happen at most once and never both. The inductive invariant `SafeInv` adds
  `Winners`: a request between its claim and its side effects is the only one
  for that reservation, no effect has been recorded yet, and the row still has
  a status the claim led to.
* `StayProofs!GuestsHaveRooms`: `InHouseHasRoom` for every set of operations in
  which the guest upgrade and the audit's no-shows are not both in use, and for
  every set with one request at a time (`NoReturn`). `RoomInv` adds that the
  reservation whose room an audit is about to free is a no-show or
  cancelled (`Careful`); only an upgrade, which writes back the status it read,
  leads out of these two.
* `FolioProofs!NoDoubleReversal`, `GroupsWhole` and `LockedFinal`: `ReversedOnce`
  and `AcceptedGroupWhole` for every set of operations, `LockedNotReversed` when
  nobody locks a single folio (`lockFolio` not in `Ops`). The strengthening is the
  ownership of row locks: `Reversing` (a request that reverses holds the base row
  FOR UPDATE from its look-up to its commit), `Exclusive` (update locks exclude
  each other), `Owned` (an uncommitted row belongs to the request that inserted
  it) and `LockedUp` (the day close locks no component before its base). A step is
  shown once to leave the other requests alone (`Apart`, `StepKeeps`); each action
  then only has its own part to show.
* `FolioProofs!BalanceRight`: with one request at a time and no death between a
  commit and its sum (`Alone`, `crash` not in `Ops`), `BalanceAtRest`. In between
  only the folio a posting or a payment has just written may be off (`Balancing`),
  and the sum taken is the one of the rows that will be committed.
* `NightAuditProofs!NoNightTwice`, `NobodyForgotten`, `ClosedStaysLocked` and
  `PresentIsNoNoShow`: the properties of the `night_audit` run
  for any number of audits, stays, dates and failures. The inductive invariant
  `IInv` adds `OneAuditPerDate` (the unique row of a date keeps two audits at work
  apart) and `RunOfAudit` (that row is running until the audit has completed it),
  from which `LookedUp` follows: a charge that was missing at the look-up is
  missing at the post. `LoopAccounts` says that whatever the tariff loop has
  behind it is charged, an error or excused, and `SeenCame` that an excuse lasts:
  a stay read in house never becomes an arrival again. The ten steps between
  start and completion are shown to be a `WorkStep`, which leaves other audits
  and dates alone, and the invariant is proved once for all of them.
* `BookingRequestPaymentProofs!LedgerTrue`, `MoneyAnnounced`, `MoneyOnFolio`,
  `DenialFinal` and the refinement `MoneyKept` (of `GuestMoney`). Every action is
  one of a few moves (a payment moves, a claim is made, settled or repeated, an
  intent or refund grows at Stripe, a decision, or nothing of this), and each
  move keeps `IInv` and is a step of the contract. `IInv` adds what Stripe's
  reports exclude (`ProviderInv`), that the live claims on a payment stay
  within its amount (`ClaimsCovered`), what a decision requires (`DecisionInv`), and that an answer a
  worker carries is one Stripe gave (`Serving`).
* `BookingRequestAllocationProofs!InstallmentsBacked` and `OldestKept`:
  `AllocationsBacked` and `NewestReleasedFirst` for any amount, payments, claims
  and installments. `AInv` adds to the allocations that the rows of a payment are
  in a total order of creation (`Ordered`). The reconciler's loop is proved without
  induction over data: a unit kept in a row has a rank, the units of older rows
  plus its place in its own; ranks differ and none exceeds the net amount, so the
  units kept are at most that many. That a row is cut only when all newer ones are
  gone follows from the oldest row that is cut.
* `EventPipelineProofs!HandoverAccounted`, `HandoverWithoutErrors`,
  `CompletionFinal` and `OutcomeFinal`: `HandedOverUnlessSkipped`,
  `CompletedIsFinal` and `OutcomeIsFinal` for any number of faults, and `HandedOver`,
  which the listener's errors break, when `"listener"` is not among `Faults`. A
  worker at an attempt holds its job, so the row it read is still as it read it
  (`AttemptCurrent`); a delivery once served stays served (`Kept`); the
  subscriptions a dispatcher has behind it are served or skipped
  (`ListedServed`), whoever did it.
* `GatewayPaymentProofs!Reconciled`, `RowsTrue`, `DepositsBacked` and
  `NoneStranded`: `RefundsReconciled`, `PaymentTruth`, `DepositBacked` and
  `NothingStranded` for any amount and number of requests. `CardInv`: captured,
  canceled and failed are final at the provider, so what a request or an event
  knows is still so when the row is written; the row of a claim or a deposit is
  `Backed`, authorized and failed since by `payment_intent.payment_failed` at most.
  `LedgerInv`: a provider that has
  refunded under a key has reached the total the key names, and a refund is
  booked up to its key at most.

Only model-checked is liveness (`EverythingSettles`), which needs
fairness and `ENABLED`. Every invariant and every action property of a passing
run is stated by a theorem; where the theorem restricts the operations, the run
keeps within the restriction.

## Where code and documentation disagree

Two runs are spent on disagreements; `PROJECT.json` quotes the lines.

* `inventory_modify_race`: a `ReservationService.modify` that repeats the dates it
  read before its transaction takes them for unchanged, skips mutex and check and
  writes them all the same. Another modify has moved the row meanwhile, a create has taken the freed unit, and the
  night is oversold - against the comment that a modify "cannot race another
  create/modify for the final unit".
* `event_handover`: an error of the listener of all events does not reject
  `emitAsync`, so `dispatchPersisted` reports success for an event that was
  enqueued for some or no subscriptions, and the consequence is completed.

The models show more, each with the constants that reproduce it:

* `GuestCheckInService.acceptUpsell` writes back the status it read: with `Ops =
  {"confirm", "assign", "cancel", "upgrade"}` and two workers, `Lifecycle` of
  `Stay` fails - a cancelled reservation comes back to life. With `Ops = {"assign",
  "checkIn", "auditNoShow", "upgrade"}` `InHouseHasRoom` fails: the upgrade revives a
  no-show, the guest checks in, and the audit then frees the room.
* `InboundReservationService.handleCancellation` has no status condition: with
  `Ops = {"assign", "checkIn", "channelCancel"}` `Lifecycle` fails - a guest in house is
  cancelled, against the table of `reservation-state-machine.ts`.
* `recalculateBalance` after `postCharge` and `recordPayment` is not serialised
  with transfers: with two workers and `Ops = {"post", "transfer"}`
  `BalanceAtRest` of `Folio` fails and the balance stays wrong.
* Channel and Connect bookings check and insert without the mutex: with two
  workers and `Paths` including `"channelNew"` or `"connectBook"` `NoOversell` fails,
  by as many units as there are requests in flight, less one.
* Splitting a party and the guest's upgrade do not ask for availability: with one
  worker and `Paths = {"create", "split"}` or `{"create", "upgrade"}` `NoOversell`
  fails.
* With `"modify"` added to `InventoryCanonical.cfg`, `SnapshotCoversStay` and
  `NightsMatchDates` of `InventoryProofs` fail (a generic modify repeats dates an amendment has
  replaced; two modifies write one date each). With `"connectModify"` or
  `"upgrade"` and a second room type, `SnapshotCoversStay` fails with a single
  request: neither path looks at the accepted price.
* `transitionStatus` checks a room's transition and writes it in two statements:
  of two that are checked at once, the second is written whatever the first one
  made of the room. `checkOut` marks dirty the room it read
  before the claim, the old one after a concurrent move.
* With `"lockFolio"` in `FolioLedger.cfg`, `LockedNotReversed` fails (a reversal
  cascades to a locked component on another folio); a transfer may move a
  charge that the day close locks meanwhile; a live-tax posting that dies
  leaves its base row without tax.
* A delivery whose job the queue gives up first (`Abandoned` in `EventPipeline`,
  `Faults = {"database"}`) stays pending and nobody is told, though
  `webhook-delivery.service.ts:334-335` says subscribers must not fail silently;
  so does one whose worker dies between the last write and the alert.
* An audit that failed or died is answered `alreadyRun` for ever
  (`night-audit.service.ts:68`): its night is never finished. `audit.started`
  is emitted outside the `try`, with the same effect.
* `capturePayment` and `voidPayment` put a row back by its id when the call
  fails, also over a `captured` the webhook has written since. A webhook whose
  processing fails is answered 200 and not repeated.
* `payment_intent.payment_failed` fails a row by its id whatever it says: a late one
  denies money that is held or captured, also under a recorded deposit
  (`DepositBacked` names the case).
* The expiry of a Worldline payment cancels a payment it knows of; a checkout
  page without one when it was last read is given up as it is, and a guest who
  pays right then leaves a hold on the card. A late `pending_capture` between the
  cancellation and the drop promotes a hold that is gone. The job that gives
  up after its attempts, or was never scheduled, leaves the row pending.
* A saved-card payment that asked for authentication is failed for good; if the
  guest authenticates later Stripe captures money the ledger calls failed
  (`Challenged` in `BookingRequestPayment`).

## What is not modelled

Amounts, currencies, tax rules, rates and cancellation policies (decimal
arithmetic over configuration); ooo/oos room inventory and group allotments; the
reconciliation of charges after an accepted stay is amended; the bookkeeping of
parties; authentication; everything that only formats, renders or reads.
`recalculateBalance` reads charges and payments in two statements, here one.
The row locks of `booking_requests` and `folios` that some paths of `Inventory`
take besides the modelled ones are left out of its lock graph; `charge.refunded`
divides minor units by 100 for every currency (`stripe-webhook.controller.ts:334`)
where the refund call knows the exponent, and a unit stands for an amount with
two decimals.
The day-close `UPDATE` is one step here: PostgreSQL may hold some of its rows
while it waits for others, and a deadlock that follows rolls it back.

Of payments: hosted Connect sessions (their effect on the reservation is in
`Stay`), Redsys (the same finalizer without cancelling the reservation),
`correctPayment` (a repeated adjustment books the amount back twice), the
`idempotencyKey` option of `refundPayment`, which no caller passes, and the
gateways that are not Stripe or Worldline. Of booking requests: submission,
offers, re-pricing, withdrawal, mail, and the order of installments. Of
webhooks: the counters of a subscription, and `emit`, which is not retried. Of
the night audit: housekeeping tasks, fees of no-shows and the revenue summary.

Most of the repository's lines are outside these models for good: user
interfaces, seeds and schema scripts, adapters that translate formats,
read-only reports, single-row forms. What remains worth a module is
`not_modelled` in `PROJECT.json` with the plan's module.
