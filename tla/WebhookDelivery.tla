--------------------------- MODULE WebhookDelivery --------------------------
(***************************************************************************)
(* Delivery of events to webhook subscriptions: one webhook_deliveries row *)
(* per event and subscription, and one BullMQ job per row, whose attempts  *)
(* are counted twice - by the queue and in the row.  An attempt reads the  *)
(* row, POSTs, and writes the row by its id, in steps of its own.          *)
(***************************************************************************)
EXTENDS Naturals

CONSTANTS
    Deliveries,      \* one for each event and subscription
    QueueWorkers,    \* worker processes of the queue
    MaxAttempts,     \* MAX_ATTEMPTS
    None

VARIABLES
    row,        \* row[d]: the webhook_deliveries row d
    job,        \* job[d]: the job with id d
    att,        \* att[v]: the attempt queue worker v is making
    alerted     \* deliveries whose failure was reported to staff

vars == <<row, job, att, alerted>>

NoRow == [status |-> "none", attempts |-> 0]
NoJob == [state |-> "none", tries |-> 0, stalled |-> FALSE, by |-> None]
Idle == [pc |-> "idle"]

\* ok: the subscriber answered 2xx; tell: the last attempt failed, staff to be told.
Attempt == [pc : {"post", "write", "tell"}, on : Deliveries, number : 1..MaxAttempts, ok : BOOLEAN]

TypeOK ==
    /\ row \in [Deliveries -> [status : {"none", "pending", "delivered", "failed"},
                               attempts : 0..MaxAttempts]]
    /\ job \in [Deliveries -> [state : {"none", "waiting", "active", "failed"},
                               tries : 0..MaxAttempts, stalled : BOOLEAN,
                               by : QueueWorkers \cup {None}]]
    /\ att \in [QueueWorkers -> Attempt \cup {Idle}]
    /\ alerted \subseteq Deliveries

Init ==
    /\ row = [d \in Deliveries |-> NoRow]
    /\ job = [d \in Deliveries |-> NoJob]
    /\ att = [v \in QueueWorkers |-> Idle]
    /\ alerted = {}

\* enqueue: the row is inserted unless it exists ...
InsertDelivery(d) ==
    /\ row' = [row EXCEPT ![d] = IF @ = NoRow THEN [@ EXCEPT !.status = "pending"] ELSE @]
    /\ UNCHANGED <<job, att, alerted>>

\* Mutant: the job gets an id of its own, and does not find the one at work.
AddSecondJob(d) ==
    /\ row[d] # NoRow
    /\ job' = [job EXCEPT ![d] = [NoJob EXCEPT !.state = "waiting"]]
    /\ UNCHANGED <<row, att, alerted>>

\* ... and its job added, unless the queue still knows a job with that id.
AddJob(d) ==
    /\ row[d] # NoRow
    /\ job' = [job EXCEPT ![d] = IF @ = NoJob THEN [@ EXCEPT !.state = "waiting"] ELSE @]
    /\ UNCHANGED <<row, att, alerted>>

-----------------------------------------------------------------------------
(* The queue *)

Holds(v, d) == job[d].state = "active" /\ job[d].by = v

\* A job that returns is removed; one that throws is tried again, until the
\* queue has tried it MaxAttempts times and keeps it as failed.
Returned(v, d) == IF Holds(v, d) THEN [job EXCEPT ![d] = NoJob] ELSE job
Threw(v, d) ==
    IF ~Holds(v, d) THEN job
    ELSE [job EXCEPT ![d].tries = @ + 1, ![d].by = None,
                     ![d].state = IF job[d].tries + 1 < MaxAttempts THEN "waiting" ELSE "failed"]

AtWork(v, d) == att[v] # Idle /\ att[v].on = d

\* The worker of an active job is gone and its lock runs out: once, the queue
\* hands the job out again.
Stall(d) ==
    /\ job[d].state = "active"
    /\ ~AtWork(job[d].by, d)
    /\ job' = [job EXCEPT ![d].by = None, ![d].stalled = TRUE,
                          ![d].state = IF job[d].stalled THEN "failed" ELSE "waiting"]
    /\ UNCHANGED <<row, att, alerted>>

-----------------------------------------------------------------------------
(* attemptDelivery *)

\* Mutant: the status of the row is not looked at.
BeginAnyRow(v, d, active) ==
    /\ att[v] = Idle
    /\ job[d].state = "waiting" /\ active
    /\ att' = [att EXCEPT ![v] = [pc |-> "post", on |-> d, number |-> row[d].attempts + 1, ok |-> FALSE]]
    /\ job' = [job EXCEPT ![d].state = "active", ![d].by = v]
    /\ UNCHANGED <<row, alerted>>

\* Only a pending row of an active subscription is attempted.
Begin(v, d, active) ==
    /\ att[v] = Idle
    /\ job[d].state = "waiting"
    /\ \/ /\ row[d].status # "pending"
          /\ job' = [job EXCEPT ![d] = NoJob]
          /\ UNCHANGED <<row, att>>
       \/ /\ row[d].status = "pending" /\ ~active
          /\ row' = [row EXCEPT ![d].status = "failed"]
          /\ job' = [job EXCEPT ![d] = NoJob]
          /\ UNCHANGED att
       \/ /\ row[d].status = "pending" /\ active
          /\ att' = [att EXCEPT ![v] = [pc |-> "post", on |-> d, number |-> row[d].attempts + 1,
                                        ok |-> FALSE]]
          /\ job' = [job EXCEPT ![d].state = "active", ![d].by = v]
          /\ UNCHANGED row
    /\ UNCHANGED alerted

\* The subscriber answers, refuses, or does not answer in time.
Post(v, ok) ==
    /\ att[v].pc = "post"
    /\ att' = [att EXCEPT ![v].pc = "write", ![v].ok = ok]
    /\ UNCHANGED <<row, job, alerted>>

\* Mutant: the last attempt is scheduled for one more.
RecordOneMore(v) ==
    LET d == att[v].on
        n == att[v].number
    IN  /\ att[v].pc = "write"
        /\ row' = [row EXCEPT ![d] = [status |-> IF att[v].ok THEN "delivered" ELSE "pending", attempts |-> n]]
        /\ att' = [att EXCEPT ![v] = Idle]
        /\ job' = IF att[v].ok THEN Returned(v, d) ELSE Threw(v, d)
        /\ UNCHANGED alerted

Record(v) ==
    LET d == att[v].on
        n == att[v].number
    IN  /\ att[v].pc = "write"
        /\ \/ /\ att[v].ok
              /\ row' = [row EXCEPT ![d] = [status |-> "delivered", attempts |-> n]]
              /\ job' = Returned(v, d)
              /\ att' = [att EXCEPT ![v] = Idle]
           \/ /\ ~att[v].ok /\ n >= MaxAttempts
              /\ row' = [row EXCEPT ![d] = [status |-> "failed", attempts |-> n]]
              /\ att' = [att EXCEPT ![v].pc = "tell"]
              /\ UNCHANGED job
           \/ /\ ~att[v].ok /\ n < MaxAttempts
              /\ row' = [row EXCEPT ![d] = [status |-> "pending", attempts |-> n]]
              /\ job' = Threw(v, d)
              /\ att' = [att EXCEPT ![v] = Idle]
        /\ UNCHANGED alerted

Tell(v) ==
    /\ att[v].pc = "tell"
    /\ alerted' = alerted \cup {att[v].on}
    /\ job' = Returned(v, att[v].on)
    /\ att' = [att EXCEPT ![v] = Idle]
    /\ UNCHANGED row

\* A statement fails: the attempt counts for the queue and not for the row.
DatabaseError(v) ==
    /\ att[v] # Idle
    /\ job' = Threw(v, att[v].on)
    /\ att' = [att EXCEPT ![v] = Idle]
    /\ UNCHANGED <<row, alerted>>

Die(v) ==
    /\ att[v] # Idle
    /\ att' = [att EXCEPT ![v] = Idle]
    /\ UNCHANGED <<row, job, alerted>>
=============================================================================
