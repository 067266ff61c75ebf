---------------------------- MODULE EventPipeline ---------------------------
(***************************************************************************)
(* From a committed fact to its subscribers: the consequence outbox hands  *)
(* each event to the delivery service, which keeps one delivery per event  *)
(* and subscription.  Dispatchers and queue workers run concurrently, die  *)
(* and are retried; staff deactivate subscriptions meanwhile.              *)
(***************************************************************************)
EXTENDS Naturals, FiniteSets

CONSTANTS
    Consequences, Dispatchers, Subs, QueueWorkers,
    MaxAttempts,    \* MAX_ATTEMPTS of a delivery
    Faults,         \* what may go wrong: a subset of AllFaults
    MaxFaults,      \* bound of the model: how many of them happen
    None

AllFaults == {"listener", "unknown", "crash", "lease", "database", "deactivate"}
Deliveries == Consequences \X Subs

ASSUME PipelineAssumption ==
    /\ MaxAttempts \in Nat \ {0} /\ MaxFaults \in Nat
    /\ Faults \subseteq AllFaults
    /\ None \notin Dispatchers \cup QueueWorkers

VARIABLES cons, disp, row, job, att, alerted,
    active,     \* active subscriptions
    entered,    \* entered[w]: the subscription whose row dispatcher w has inserted
    skipped,    \* deliveries an error of the listener left out
    faults      \* faults so far

outbox == <<cons, disp>>
delivery == <<row, job, att, alerted>>
vars == <<outbox, delivery, active, entered, skipped, faults>>

Outbox == INSTANCE ConsequenceOutbox
Delivery == INSTANCE WebhookDelivery

TypeOK ==
    /\ Outbox!TypeOK
    /\ Delivery!TypeOK
    /\ active \subseteq Subs
    /\ entered \in [Dispatchers -> Subs \cup {None}]
    /\ skipped \subseteq Deliveries
    /\ faults \in 0..MaxFaults

Init ==
    /\ Outbox!Init
    /\ Delivery!Init
    /\ active = Subs
    /\ entered = [w \in Dispatchers |-> None]
    /\ skipped = {}
    /\ faults = 0

-----------------------------------------------------------------------------
(* Steps *)

Commit(e) ==
    /\ Outbox!InsertConsequence(e)
    /\ UNCHANGED <<delivery, active, entered, skipped, faults>>

Claim(w, e) ==
    /\ Outbox!ClaimConsequence(w, e, FALSE)
    /\ UNCHANGED <<delivery, active, entered, skipped, faults>>

HandleEvent(w) ==
    /\ Outbox!ReadSubscriptions(w, active)
    /\ UNCHANGED <<delivery, active, entered, skipped, faults>>

\* enqueue: two steps, of the database and of the queue.
InsertDelivery(w, s) ==
    /\ disp[w].pc = "listing" /\ s \in disp[w].todo
    /\ entered[w] = None
    /\ Delivery!InsertDelivery(<<disp[w].on, s>>)
    /\ entered' = [entered EXCEPT ![w] = s]
    /\ UNCHANGED <<outbox, active, skipped, faults>>

AddJob(w, s) ==
    /\ entered[w] = s
    /\ Outbox!Enqueued(w, s)
    /\ Delivery!AddJob(<<disp[w].on, s>>)
    /\ entered' = [entered EXCEPT ![w] = None]
    /\ skipped' = skipped \ {<<disp[w].on, s>>}
    /\ UNCHANGED <<active, faults>>

Finish(w) ==
    /\ Outbox!Complete(w)
    /\ UNCHANGED <<delivery, active, entered, skipped, faults>>

Fault(kind) == kind \in Faults /\ faults < MaxFaults /\ faults' = faults + 1

\* The dispatcher takes longer than its lease.
ClaimOverdue(w, e) ==
    /\ Fault("lease")
    /\ Outbox!ClaimConsequence(w, e, TRUE)
    /\ UNCHANGED <<delivery, active, entered, skipped>>

\* Redis or the database refuses while the listener reads the subscriptions or
\* enqueues a delivery.
FailListener(w) ==
    /\ Fault("listener")
    /\ Outbox!ListenerThrows(w)
    /\ LET left == IF disp[w].pc = "claimed" THEN active ELSE disp[w].todo
       IN  skipped' = skipped \cup {<<disp[w].on, s>> : s \in left}
    /\ entered' = [entered EXCEPT ![w] = None]
    /\ UNCHANGED <<delivery, active>>

\* A dispatcher of another release does not know the event.
FailUnknown(w) ==
    /\ Fault("unknown")
    /\ Outbox!RecordFailure(w)
    /\ UNCHANGED <<delivery, active, entered, skipped>>

DieDispatching(w) ==
    /\ Fault("crash")
    /\ Outbox!Die(w)
    /\ entered' = [entered EXCEPT ![w] = None]
    /\ UNCHANGED <<delivery, active, skipped>>

\* deleteSubscription
Deactivate(s) ==
    /\ Fault("deactivate") /\ s \in active
    /\ active' = active \ {s}
    /\ UNCHANGED <<outbox, delivery, entered, skipped>>

Begin(v, d) == Delivery!Begin(v, d, d[2] \in active) /\ UNCHANGED <<outbox, active, entered, skipped, faults>>
Post(v) == (\E ok \in BOOLEAN : Delivery!Post(v, ok)) /\ UNCHANGED <<outbox, active, entered, skipped, faults>>
Record(v) == Delivery!Record(v) /\ UNCHANGED <<outbox, active, entered, skipped, faults>>
Tell(v) == Delivery!Tell(v) /\ UNCHANGED <<outbox, active, entered, skipped, faults>>
Redeliver(d) == Delivery!Stall(d) /\ UNCHANGED <<outbox, active, entered, skipped, faults>>

DieDelivering(v) == Fault("crash") /\ Delivery!Die(v) /\ UNCHANGED <<outbox, active, entered, skipped>>
FailStatement(v) == Fault("database") /\ Delivery!DatabaseError(v) /\ UNCHANGED <<outbox, active, entered, skipped>>

Dispatch(w) ==
    \/ \E e \in Consequences : Claim(w, e)
    \/ HandleEvent(w)
    \/ \E s \in Subs : InsertDelivery(w, s) \/ AddJob(w, s)
    \/ Finish(w)

Deliver(v) ==
    \/ \E d \in Deliveries : Begin(v, d)
    \/ Post(v)
    \/ Record(v)
    \/ Tell(v)

Next ==
    \/ \E e \in Consequences : Commit(e)
    \/ \E w \in Dispatchers : Dispatch(w) \/ FailListener(w) \/ FailUnknown(w) \/ DieDispatching(w)
    \/ \E w \in Dispatchers, e \in Consequences : ClaimOverdue(w, e)
    \/ \E s \in Subs : Deactivate(s)
    \/ \E v \in QueueWorkers : Deliver(v) \/ DieDelivering(v) \/ FailStatement(v)
    \/ \E d \in Deliveries : Redeliver(d)

Spec == Init /\ [][Next]_vars

(* Dispatchers scan the outbox every 30 seconds, workers poll the queue, and *)
(* the queue looks for stalled jobs; none of them stops for good.            *)
Fairness ==
    /\ \A w \in Dispatchers : WF_vars(Dispatch(w))
    /\ \A v \in QueueWorkers : WF_vars(Deliver(v))
    /\ \A d \in Deliveries : WF_vars(Redeliver(d))

FairSpec == Spec /\ Fairness

-----------------------------------------------------------------------------
(* Properties *)

\* The subscriber has its delivery row, and a pending row is never without the
\* job that would deliver it.
Served(d) ==
    /\ row[d].status # "none"
    /\ row[d].status = "pending" => job[d].state # "none"

\* What dispatchPersisted promises its caller: a consequence is marked completed
\* only when every subscription active throughout is served.
HandedOver ==
    \A e \in Consequences : cons[e].status = "completed" =>
        \A s \in active : Served(<<e, s>>)

\* What the code keeps: a completed consequence has left out nobody but those an
\* error of the listener left out and no dispatcher has served since - though
\* row and job are written in two systems, a dispatcher may die or be refused
\* between the two, and a second one may redo its work.
HandedOverUnlessSkipped ==
    \A e \in Consequences : cons[e].status = "completed" =>
        \A s \in active : Served(<<e, s>>) \/ <<e, s>> \in skipped

\* A dispatcher whose lease ran out cannot undo what its successor completed.
CompletedIsFinal ==
    [][\A e \in Consequences :
         cons[e].status = "completed" => cons'[e].status = "completed"]_vars

\* The outcome of a delivery is final: a later attempt, which writes the row by
\* its id, never overwrites delivered or failed - as long as the queue does
\* not take a job from a worker that is still at it.
OutcomeIsFinal ==
    [][\A d \in Deliveries :
         row[d].status \in {"delivered", "failed"} => row'[d] = row[d]]_vars

\* The queue gave up before the row did: workers died on the job twice, or
\* attempts failed that the row does not count.
Abandoned(d) == job[d].state = "failed" /\ (job[d].stalled \/ job[d].tries > row[d].attempts)

\* Every committed consequence is completed, and every delivery reaches an
\* outcome unless the queue abandoned its job, the listener left it without one
\* or the subscription is gone.
EverythingSettles ==
    /\ \A e \in Consequences : cons[e].status # "none" ~> cons[e].status = "completed"
    /\ \A d \in Deliveries : row[d].status = "pending" ~>
         \/ row[d].status \in {"delivered", "failed"}
         \/ Abandoned(d) \/ d \in skipped \/ d[2] \notin active

=============================================================================
