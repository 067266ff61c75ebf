------------------------- MODULE EventPipelineProofs ------------------------
(***************************************************************************)
(* The safety properties of EventPipeline, for every set of consequences,  *)
(* subscriptions, dispatchers and queue workers and every number of faults.*)
(*                                                                         *)
(* The argument has two halves.  Of the delivery service: a worker at an   *)
(* attempt holds its job, so the row it read is still as it read it        *)
(* (AttemptCurrent), and a delivery once served stays served (Kept).  Of   *)
(* the dispatchers: the subscriptions one has behind it are served, or     *)
(* known to be left out (ListedServed), whoever else inserted the row or   *)
(* added the job.                                                          *)
(***************************************************************************)
EXTENDS EventPipeline, TLAPS

\* A row or a job that does not exist has no other content.
Shapes ==
    \A d \in Deliveries :
        /\ row[d].status = "none" => row[d] = Delivery!NoRow
        /\ job[d].state = "none" => job[d] = Delivery!NoJob

\* What is still to be attempted has attempts left.
AttemptsLeft ==
    \A d \in Deliveries :
        /\ row[d].status = "pending" => row[d].attempts < MaxAttempts
        /\ job[d].state \in {"waiting", "active"} => job[d].tries < MaxAttempts

\* An attempt holds its job, and its row has not changed since it was read.
AttemptCurrent(v) ==
    att[v] # Delivery!Idle =>
        /\ Delivery!Holds(v, att[v].on)
        /\ att[v].pc \in {"post", "write"} =>
             /\ row[att[v].on].status = "pending"
             /\ att[v].number = row[att[v].on].attempts + 1
        /\ att[v].pc = "tell" => row[att[v].on].status = "failed"

DeliveryInv ==
    /\ Delivery!TypeOK
    /\ Shapes
    /\ AttemptsLeft
    /\ \A v \in QueueWorkers : AttemptCurrent(v)

\* What no step of the delivery service takes back.
Kept(d) ==
    /\ Served(d) => Served(d)'
    /\ row[d].status # "none" => row'[d].status # "none"
    /\ row[d].status \in {"delivered", "failed"} => row'[d] = row[d]

DeliveryStep == DeliveryInv' /\ \A d \in Deliveries : Kept(d)

-----------------------------------------------------------------------------
(* The delivery service *)

LEMMA AttemptType ==
    ASSUME Delivery!TypeOK, NEW v \in QueueWorkers
    PROVE  /\ att[v] # Delivery!Idle => att[v] \in Delivery!Attempt
           /\ att[v].pc # "idle" => att[v] # Delivery!Idle
BY DEF Delivery!TypeOK, Delivery!Idle

LEMMA InsertDeliveryKeeps ==
    ASSUME DeliveryInv, NEW d \in Deliveries, Delivery!InsertDelivery(d)
    PROVE  DeliveryStep /\ row'[d].status # "none"
<1> USE PipelineAssumption
<1> row[d] \in [status : {"none", "pending", "delivered", "failed"}, attempts : 0..MaxAttempts]
  BY DEF DeliveryInv, Delivery!TypeOK
<1>1. Delivery!TypeOK'
  BY DEF DeliveryInv, Delivery!TypeOK, Delivery!InsertDelivery, Delivery!NoRow
<1>2. /\ \A x \in Deliveries : row'[x] = row[x] \/ (x = d /\ row[x] = Delivery!NoRow)
      /\ row[d] = Delivery!NoRow => row'[d] = [status |-> "pending", attempts |-> 0]
      /\ row[d] # Delivery!NoRow => row'[d] = row[d]
      /\ job' = job /\ att' = att
  BY DEF DeliveryInv, Delivery!TypeOK, Delivery!InsertDelivery, Delivery!NoRow
<1>3. Shapes'
  BY <1>2 DEF DeliveryInv, Shapes, Delivery!NoRow
<1>4. AttemptsLeft'
  BY <1>2 DEF DeliveryInv, AttemptsLeft, Delivery!NoRow
<1>5. ASSUME NEW v \in QueueWorkers PROVE AttemptCurrent(v)'
  <2>1. att[v] # Delivery!Idle => att[v].on \in Deliveries /\ att[v].pc \in {"post", "write", "tell"}
    BY AttemptType DEF DeliveryInv, Delivery!Attempt
  <2> QED BY <1>2, <2>1 DEF DeliveryInv, AttemptCurrent, Delivery!Holds, Delivery!NoRow
<1>6. \A x \in Deliveries : Kept(x)
  BY <1>2 DEF Kept, Served, Delivery!NoRow
<1>7. row'[d].status # "none"
  BY <1>2 DEF DeliveryInv, Shapes
<1> QED BY <1>1, <1>3, <1>4, <1>5, <1>6, <1>7 DEF DeliveryStep, DeliveryInv

\* The steps below touch the row, the job and the attempt of one delivery:
\* what they have to show of it.
LEMMA OneDelivery ==
    ASSUME DeliveryInv, Delivery!TypeOK', NEW d \in Deliveries,
           \A x \in Deliveries \ {d} : row'[x] = row[x] /\ job'[x] = job[x],
           row'[d].status = "none" => row'[d] = Delivery!NoRow,
           job'[d].state = "none" => job'[d] = Delivery!NoJob,
           row'[d].status = "pending" => row'[d].attempts < MaxAttempts,
           job'[d].state \in {"waiting", "active"} => job'[d].tries < MaxAttempts,
           \A v \in QueueWorkers :
               \/ att[v] # Delivery!Idle /\ att[v].on # d /\ att'[v] = att[v]
               \/ AttemptCurrent(v)',
           Kept(d)
    PROVE  DeliveryStep
<1>1. Shapes'
  BY DEF DeliveryInv, Shapes
<1>2. AttemptsLeft'
  BY DEF DeliveryInv, AttemptsLeft
<1>3. ASSUME NEW v \in QueueWorkers, att[v] # Delivery!Idle, att[v].on # d, att'[v] = att[v]
      PROVE  AttemptCurrent(v)'
  <2>1. att[v].on \in Deliveries \ {d}
    BY <1>3, AttemptType DEF DeliveryInv, Delivery!Attempt
  <2>2. AttemptCurrent(v)
    BY DEF DeliveryInv
  <2> QED BY <1>3, <2>1, <2>2 DEF AttemptCurrent, Delivery!Holds
<1>4. ASSUME NEW x \in Deliveries PROVE Kept(x)
  BY DEF Kept, Served
<1> QED BY <1>1, <1>2, <1>3, <1>4 DEF DeliveryStep, DeliveryInv

\* No other worker is at an attempt of the delivery a worker holds.
LEMMA OthersElsewhere ==
    ASSUME DeliveryInv, NEW v \in QueueWorkers, NEW d \in Deliveries,
           job[d].state = "active" => job[d].by = v,
           NEW u \in QueueWorkers \ {v}
    PROVE  att[u] = Delivery!Idle \/ (att[u] # Delivery!Idle /\ att[u].on # d)
BY DEF DeliveryInv, AttemptCurrent, Delivery!Holds

LEMMA IdleCurrent ==
    ASSUME NEW v \in QueueWorkers, att'[v] = Delivery!Idle
    PROVE  AttemptCurrent(v)'
BY DEF AttemptCurrent, Delivery!Idle

LEMMA AddJobKeeps ==
    ASSUME DeliveryInv, NEW d \in Deliveries, Delivery!AddJob(d)
    PROVE  DeliveryStep /\ Served(d)'
<1> USE PipelineAssumption
<1> DEFINE new == [Delivery!NoJob EXCEPT !.state = "waiting"]
<1>1. Delivery!TypeOK'
  BY DEF DeliveryInv, Delivery!TypeOK, Delivery!AddJob, Delivery!NoJob
<1>2. /\ \A x \in Deliveries \ {d} : job'[x] = job[x]
      /\ job[d] = Delivery!NoJob => job'[d] = new
      /\ job[d] # Delivery!NoJob => job'[d] = job[d]
      /\ row' = row /\ att' = att
  BY DEF DeliveryInv, Delivery!TypeOK, Delivery!AddJob
<1>3. job[d] = Delivery!NoJob => job[d].state = "none"
  BY DEF Delivery!NoJob
<1>4. new.state = "waiting" /\ new.tries = 0
  BY DEF Delivery!NoJob
<1> HIDE DEF new
<1>5. ASSUME NEW v \in QueueWorkers
      PROVE  \/ att[v] # Delivery!Idle /\ att[v].on # d /\ att'[v] = att[v]
             \/ AttemptCurrent(v)'
  <2>1. AttemptCurrent(v)
    BY DEF DeliveryInv
  <2>2. CASE att[v] = Delivery!Idle
    BY <1>2, <2>2, IdleCurrent
  <2>3. CASE att[v] # Delivery!Idle /\ att[v].on = d
    BY <1>2, <1>3, <2>1, <2>3 DEF AttemptCurrent, Delivery!Holds
  <2> QED BY <1>2, <2>2, <2>3
<1>6. row[d].status # "none"
  BY DEF DeliveryInv, Shapes, Delivery!AddJob
<1>7. job'[d].state # "none"
  BY <1>2, <1>4 DEF DeliveryInv, Shapes
<1>8. Kept(d) /\ Served(d)'
  BY <1>2, <1>6, <1>7 DEF Kept, Served
<1>9. job'[d].state \in {"waiting", "active"} => job'[d].tries < MaxAttempts
  BY <1>2, <1>4 DEF DeliveryInv, AttemptsLeft
<1>10. DeliveryStep
  BY <1>1, <1>2, <1>5, <1>7, <1>8, <1>9, OneDelivery DEF DeliveryInv, Shapes, AttemptsLeft
<1> QED BY <1>8, <1>10

LEMMA StallKeeps ==
    ASSUME DeliveryInv, NEW d \in Deliveries, Delivery!Stall(d)
    PROVE  DeliveryStep
<1> USE PipelineAssumption
<1>1. Delivery!TypeOK'
  BY DEF DeliveryInv, Delivery!TypeOK, Delivery!Stall
<1>2. /\ \A x \in Deliveries \ {d} : job'[x] = job[x]
      /\ job'[d].state \in {"waiting", "failed"}
      /\ job'[d].tries = job[d].tries
      /\ row' = row /\ att' = att
  BY DEF DeliveryInv, Delivery!TypeOK, Delivery!Stall
<1>3. ASSUME NEW v \in QueueWorkers
      PROVE  \/ att[v] # Delivery!Idle /\ att[v].on # d /\ att'[v] = att[v]
             \/ AttemptCurrent(v)'
  <2>1. CASE att[v] = Delivery!Idle
    BY <1>2, <2>1, IdleCurrent
  <2>2. att[v] # Delivery!Idle => att[v].on # d
    BY DEF DeliveryInv, AttemptCurrent, Delivery!Holds, Delivery!Stall, Delivery!AtWork
  <2> QED BY <1>2, <2>1, <2>2
<1>4. Kept(d)
  BY <1>2 DEF Kept, Served
<1>5. job'[d].tries < MaxAttempts
  BY <1>2 DEF DeliveryInv, AttemptsLeft, Delivery!Stall
<1> QED BY <1>1, <1>2, <1>3, <1>4, <1>5, OneDelivery DEF DeliveryInv, Shapes, AttemptsLeft

\* The worker takes the job up: by its guard the row is pending, and nobody
\* else is at the delivery while its job waits.
LEMMA BeginKeeps ==
    ASSUME DeliveryInv, NEW v \in QueueWorkers, NEW d \in Deliveries, NEW a \in BOOLEAN,
           Delivery!Begin(v, d, a)
    PROVE  DeliveryStep
<1> USE PipelineAssumption
<1>0. /\ att[v] = Delivery!Idle /\ job[d].state = "waiting"
      /\ row[d] \in [status : {"none", "pending", "delivered", "failed"}, attempts : 0..MaxAttempts]
      /\ Delivery!NoJob.state = "none"
  BY DEF Delivery!Begin, DeliveryInv, Delivery!TypeOK, Delivery!NoJob
<1>1. \A u \in QueueWorkers : att[u] = Delivery!Idle \/ (att[u] # Delivery!Idle /\ att[u].on # d)
  BY <1>0, OthersElsewhere
<1>2. CASE /\ row[d].status # "pending"
           /\ job' = [job EXCEPT ![d] = Delivery!NoJob]
           /\ UNCHANGED <<row, att>>
  <2>1. Delivery!TypeOK'
    BY <1>2 DEF Delivery!Begin, DeliveryInv, Delivery!TypeOK, Delivery!NoJob
  <2>2. job'[d] = Delivery!NoJob /\ \A x \in Deliveries \ {d} : job'[x] = job[x]
    BY <1>2 DEF DeliveryInv, Delivery!TypeOK
  <2>3. Kept(d)
    BY <1>2 DEF Kept, Served
  <2> QED BY <1>0, <1>1, <1>2, <2>1, <2>2, <2>3, IdleCurrent, OneDelivery DEF DeliveryInv, Shapes
<1>3. CASE /\ row[d].status = "pending"
           /\ row' = [row EXCEPT ![d].status = "failed"]
           /\ job' = [job EXCEPT ![d] = Delivery!NoJob]
           /\ UNCHANGED att
  <2>1. Delivery!TypeOK'
    BY <1>3 DEF Delivery!Begin, DeliveryInv, Delivery!TypeOK, Delivery!NoJob
  <2>2. /\ job'[d] = Delivery!NoJob /\ row'[d].status = "failed"
        /\ \A x \in Deliveries \ {d} : job'[x] = job[x] /\ row'[x] = row[x]
    BY <1>3 DEF DeliveryInv, Delivery!TypeOK
  <2>3. Kept(d)
    BY <1>3, <2>2 DEF Kept, Served
  <2> QED BY <1>0, <1>1, <1>3, <2>1, <2>2, <2>3, IdleCurrent, OneDelivery
<1>4. CASE /\ row[d].status = "pending"
           /\ att' = [att EXCEPT ![v] = [pc |-> "post", on |-> d,
                                         number |-> row[d].attempts + 1, ok |-> FALSE]]
           /\ job' = [job EXCEPT ![d].state = "active", ![d].by = v]
           /\ UNCHANGED row
  <2>1. row[d].attempts < MaxAttempts /\ job[d].tries < MaxAttempts
    BY <1>0, <1>4 DEF DeliveryInv, AttemptsLeft
  <2> DEFINE new == [pc |-> "post", on |-> d, number |-> row[d].attempts + 1, ok |-> FALSE]
  <2>2. new \in Delivery!Attempt
    BY <1>0, <2>1 DEF Delivery!Attempt
  <2>3. new # Delivery!Idle
    <3>1. new.pc = "post" /\ Delivery!Idle.pc = "idle"
      BY DEF Delivery!Idle
    <3> QED BY <3>1
  <2>4. Delivery!TypeOK'
    BY <1>4, <2>2 DEF Delivery!Begin, DeliveryInv, Delivery!TypeOK
  <2>5. /\ job'[d].state = "active" /\ job'[d].by = v /\ job'[d].tries = job[d].tries
        /\ \A x \in Deliveries \ {d} : job'[x] = job[x]
        /\ att'[v] = new /\ \A u \in QueueWorkers \ {v} : att'[u] = att[u]
    BY <1>4 DEF DeliveryInv, Delivery!TypeOK
  <2>6. AttemptCurrent(v)'
    <3>1. new.pc = "post" /\ new.on = d /\ new.number = row[d].attempts + 1
      OBVIOUS
    <3> HIDE DEF new
    <3> QED BY <1>4, <2>3, <2>5, <3>1 DEF AttemptCurrent, Delivery!Holds
  <2>7. Kept(d)
    BY <1>4, <2>5 DEF Kept, Served
  <2> HIDE DEF new
  <2>8. \A u \in QueueWorkers :
          \/ att[u] # Delivery!Idle /\ att[u].on # d /\ att'[u] = att[u]
          \/ AttemptCurrent(u)'
    BY <1>1, <2>5, <2>6, IdleCurrent
  <2> QED BY <1>4, <2>1, <2>4, <2>5, <2>7, <2>8, OneDelivery DEF DeliveryInv, Shapes
<1> QED BY <1>2, <1>3, <1>4 DEF Delivery!Begin

LEMMA PostKeeps ==
    ASSUME DeliveryInv, NEW v \in QueueWorkers, NEW ok \in BOOLEAN, Delivery!Post(v, ok)
    PROVE  DeliveryStep
<1>1. att[v] \in Delivery!Attempt /\ att[v] # Delivery!Idle
  BY AttemptType DEF DeliveryInv, Delivery!Post
<1>2. PICK d \in Deliveries : d = att[v].on
  BY <1>1 DEF Delivery!Attempt
<1> DEFINE new == [att[v] EXCEPT !.pc = "write", !.ok = ok]
<1>3. new \in Delivery!Attempt /\ new.on = d /\ new.number = att[v].number /\ new.pc = "write"
  BY <1>1, <1>2 DEF Delivery!Attempt
<1>4. att' = [att EXCEPT ![v] = new] /\ UNCHANGED <<row, job, alerted>>
  BY DEF Delivery!Post, DeliveryInv, Delivery!TypeOK
<1> HIDE DEF new
<1>5. Delivery!TypeOK'
  BY <1>3, <1>4 DEF DeliveryInv, Delivery!TypeOK
<1>6. att'[v] = new /\ \A u \in QueueWorkers \ {v} : att'[u] = att[u]
  BY <1>4 DEF DeliveryInv, Delivery!TypeOK
<1>7. AttemptCurrent(v) /\ att[v].pc = "post"
  BY DEF DeliveryInv, Delivery!Post
<1>8. AttemptCurrent(v)'
  BY <1>1, <1>2, <1>3, <1>4, <1>6, <1>7 DEF AttemptCurrent, Delivery!Holds
<1>9. \A u \in QueueWorkers :
          \/ att[u] # Delivery!Idle /\ att[u].on # d /\ att'[u] = att[u]
          \/ AttemptCurrent(u)'
  BY <1>1, <1>2, <1>6, <1>7, <1>8, OthersElsewhere, IdleCurrent DEF AttemptCurrent, Delivery!Holds
<1>10. Kept(d)
  BY <1>4 DEF Kept, Served
<1> QED BY <1>4, <1>5, <1>9, <1>10, OneDelivery DEF DeliveryInv, Shapes, AttemptsLeft

\* What the queue does with the job of an attempt that ended.
LEMMA ReturnedJob ==
    ASSUME DeliveryInv, NEW v \in QueueWorkers, NEW d \in Deliveries, Delivery!Holds(v, d),
           job' = Delivery!Returned(v, d)
    PROVE  /\ job' \in [Deliveries -> [state : {"none", "waiting", "active", "failed"},
                                       tries : 0..MaxAttempts, stalled : BOOLEAN,
                                       by : QueueWorkers \cup {None}]]
           /\ \A x \in Deliveries \ {d} : job'[x] = job[x]
           /\ job'[d] = Delivery!NoJob /\ Delivery!NoJob.state = "none"
<1> Delivery!NoJob \in [state : {"none", "waiting", "active", "failed"}, tries : 0..MaxAttempts,
                        stalled : BOOLEAN, by : QueueWorkers \cup {None}]
  BY PipelineAssumption DEF Delivery!NoJob
<1> Delivery!NoJob.state = "none"
  BY DEF Delivery!NoJob
<1> job' = [job EXCEPT ![d] = Delivery!NoJob]
  BY DEF Delivery!Returned
<1> QED BY DEF DeliveryInv, Delivery!TypeOK

LEMMA ThrewJob ==
    ASSUME DeliveryInv, NEW v \in QueueWorkers, NEW d \in Deliveries, Delivery!Holds(v, d),
           job' = Delivery!Threw(v, d)
    PROVE  /\ job' \in [Deliveries -> [state : {"none", "waiting", "active", "failed"},
                                       tries : 0..MaxAttempts, stalled : BOOLEAN,
                                       by : QueueWorkers \cup {None}]]
           /\ \A x \in Deliveries \ {d} : job'[x] = job[x]
           /\ job'[d].state \in {"waiting", "failed"}
           /\ job'[d].state = "waiting" => job'[d].tries < MaxAttempts
<1> USE PipelineAssumption
<1> DEFINE JobRow == [state : {"none", "waiting", "active", "failed"}, tries : 0..MaxAttempts,
                      stalled : BOOLEAN, by : QueueWorkers \cup {None}]
           next == IF job[d].tries + 1 < MaxAttempts THEN "waiting" ELSE "failed"
           new == [job[d] EXCEPT !.tries = @ + 1, !.by = None, !.state = next]
<1>1. job[d] \in JobRow /\ job[d].tries < MaxAttempts
  BY DEF DeliveryInv, Delivery!TypeOK, AttemptsLeft, Delivery!Holds
<1>2. new \in JobRow
  <2>1. next \in {"none", "waiting", "active", "failed"} /\ job[d].tries + 1 \in 0..MaxAttempts
    BY <1>1
  <2> HIDE DEF next
  <2> QED BY <1>1, <2>1
<1>3. /\ new.state \in {"waiting", "failed"}
      /\ new.state = "waiting" => new.tries < MaxAttempts
  BY <1>1
<1>4. job' = [job EXCEPT ![d] = new]
  BY DEF DeliveryInv, Delivery!TypeOK, Delivery!Threw
<1> HIDE DEF new
<1> QED BY <1>2, <1>3, <1>4 DEF DeliveryInv, Delivery!TypeOK

\* The end of an attempt: the worker is idle, its job returned or thrown back,
\* and the row left as it is or written by the one attempt that may write it.
LEMMA EndOfAttempt ==
    ASSUME DeliveryInv, NEW v \in QueueWorkers, att[v] # Delivery!Idle,
           NEW d \in Deliveries, d = att[v].on,
           att' = [att EXCEPT ![v] = Delivery!Idle],
           alerted' \subseteq Deliveries,
           row' \in [Deliveries -> [status : {"none", "pending", "delivered", "failed"},
                                    attempts : 0..MaxAttempts]],
           \A x \in Deliveries \ {d} : row'[x] = row[x],
           row'[d].status # row[d].status => row[d].status = "pending" /\ row'[d].status # "none",
           row'[d] # row[d] => row[d].status = "pending",
           row'[d].status = "pending" => row'[d].attempts < MaxAttempts,
           \/ job' = Delivery!Threw(v, d)
           \/ job' = Delivery!Returned(v, d) /\ row'[d].status # "pending"
    PROVE  DeliveryStep
<1>1. Delivery!Holds(v, d) /\ att'[v] = Delivery!Idle /\ \A u \in QueueWorkers \ {v} : att'[u] = att[u]
  BY DEF DeliveryInv, AttemptCurrent, Delivery!TypeOK
<1>2. \A u \in QueueWorkers :
          \/ att[u] # Delivery!Idle /\ att[u].on # d /\ att'[u] = att[u]
          \/ AttemptCurrent(u)'
  BY <1>1, OthersElsewhere, IdleCurrent DEF Delivery!Holds
<1>3. row'[d].status = "none" => row'[d] = Delivery!NoRow
  BY DEF DeliveryInv, Shapes
<1>4. att' \in [QueueWorkers -> Delivery!Attempt \cup {Delivery!Idle}]
  BY DEF DeliveryInv, Delivery!TypeOK
<1>5. CASE job' = Delivery!Threw(v, d)
  <2>1. Delivery!TypeOK'
    BY <1>1, <1>4, <1>5, ThrewJob DEF Delivery!TypeOK
  <2>2. Kept(d)
    BY <1>1, <1>5, ThrewJob DEF Kept, Served
  <2> QED BY <1>1, <1>2, <1>3, <1>5, <2>1, <2>2, ThrewJob, OneDelivery
<1>6. CASE job' = Delivery!Returned(v, d) /\ row'[d].status # "pending"
  <2>1. Delivery!TypeOK'
    BY <1>1, <1>4, <1>6, ReturnedJob DEF Delivery!TypeOK
  <2>2. Kept(d)
    BY <1>1, <1>6, ReturnedJob DEF Kept, Served
  <2> QED BY <1>1, <1>2, <1>3, <1>6, <2>1, <2>2, ReturnedJob, OneDelivery
<1> QED BY <1>5, <1>6

LEMMA AttemptOn ==
    ASSUME DeliveryInv, NEW v \in QueueWorkers, att[v] # Delivery!Idle
    PROVE  /\ att[v] \in Delivery!Attempt /\ att[v].on \in Deliveries
           /\ row[att[v].on].status = "pending" => row[att[v].on].attempts < MaxAttempts
BY AttemptType DEF DeliveryInv, AttemptsLeft, Delivery!Attempt

LEMMA TellKeeps ==
    ASSUME DeliveryInv, NEW v \in QueueWorkers, Delivery!Tell(v)
    PROVE  DeliveryStep
<1>1. att[v] # Delivery!Idle
  BY AttemptType DEF DeliveryInv, Delivery!Tell
<1>2. PICK d \in Deliveries : d = att[v].on
  BY <1>1, AttemptOn
<1>3. row[d].status = "failed"
  BY <1>1, <1>2 DEF DeliveryInv, AttemptCurrent, Delivery!Tell
<1> QED BY <1>1, <1>2, <1>3, EndOfAttempt DEF DeliveryInv, Delivery!TypeOK, Delivery!Tell

LEMMA DatabaseErrorKeeps ==
    ASSUME DeliveryInv, NEW v \in QueueWorkers, Delivery!DatabaseError(v)
    PROVE  DeliveryStep
<1>1. att[v] # Delivery!Idle
  BY DEF Delivery!DatabaseError
<1>2. PICK d \in Deliveries : d = att[v].on
  BY <1>1, AttemptOn
<1> QED BY <1>1, <1>2, AttemptOn, EndOfAttempt DEF DeliveryInv, Delivery!TypeOK, Delivery!DatabaseError

LEMMA DieKeeps ==
    ASSUME DeliveryInv, NEW v \in QueueWorkers, Delivery!Die(v)
    PROVE  DeliveryStep
<1>1. Delivery!TypeOK'
  BY DEF DeliveryInv, Delivery!TypeOK, Delivery!Die
<1>2. att'[v] = Delivery!Idle /\ \A u \in QueueWorkers \ {v} : att'[u] = att[u]
  BY DEF DeliveryInv, Delivery!TypeOK, Delivery!Die
<1>3. ASSUME NEW u \in QueueWorkers PROVE AttemptCurrent(u)'
  BY <1>2, IdleCurrent DEF DeliveryInv, AttemptCurrent, Delivery!Holds, Delivery!Die
<1>4. Shapes' /\ AttemptsLeft' /\ \A d \in Deliveries : Kept(d)
  BY DEF DeliveryInv, Shapes, AttemptsLeft, Kept, Served, Delivery!Die
<1> QED BY <1>1, <1>3, <1>4 DEF DeliveryStep, DeliveryInv

LEMMA RecordKeeps ==
    ASSUME DeliveryInv, NEW v \in QueueWorkers, Delivery!Record(v)
    PROVE  DeliveryStep
<1> USE PipelineAssumption
<1>1. att[v] # Delivery!Idle /\ att[v].pc = "write" /\ att[v].number \in 1..MaxAttempts
  BY AttemptType DEF DeliveryInv, Delivery!Record, Delivery!Attempt
<1>2. PICK d \in Deliveries : d = att[v].on
  BY <1>1, AttemptOn
<1>3. row[d].status = "pending" /\ Delivery!Holds(v, d)
  BY <1>1, <1>2 DEF DeliveryInv, AttemptCurrent
<1> DEFINE n == att[v].number
           wrote(s) == [row EXCEPT ![d] = [status |-> s, attempts |-> n]]
<1>4. ASSUME NEW s \in {"pending", "delivered", "failed"}, row' = wrote(s)
      PROVE  /\ row' \in [Deliveries -> [status : {"none", "pending", "delivered", "failed"},
                                         attempts : 0..MaxAttempts]]
             /\ \A x \in Deliveries \ {d} : row'[x] = row[x]
             /\ row'[d].status = s /\ row'[d].attempts = n
  BY <1>1, <1>4 DEF DeliveryInv, Delivery!TypeOK
<1>5. CASE /\ row' = wrote("delivered")
           /\ job' = Delivery!Returned(v, d)
           /\ att' = [att EXCEPT ![v] = Delivery!Idle]
           /\ UNCHANGED alerted
  BY <1>1, <1>2, <1>3, <1>4, <1>5, EndOfAttempt DEF DeliveryInv, Delivery!TypeOK
<1>6. CASE /\ n < MaxAttempts
           /\ row' = wrote("pending")
           /\ job' = Delivery!Threw(v, d)
           /\ att' = [att EXCEPT ![v] = Delivery!Idle]
           /\ UNCHANGED alerted
  BY <1>1, <1>2, <1>3, <1>4, <1>6, EndOfAttempt DEF DeliveryInv, Delivery!TypeOK
<1>7. CASE /\ row' = wrote("failed")
           /\ att' = [att EXCEPT ![v].pc = "tell"]
           /\ UNCHANGED <<job, alerted>>
  <2> DEFINE new == [att[v] EXCEPT !.pc = "tell"]
  <2>1. new \in Delivery!Attempt /\ new.on = d /\ new.pc = "tell"
    BY <1>1, <1>2, AttemptOn DEF Delivery!Attempt
  <2>2. att' = [att EXCEPT ![v] = new]
    BY <1>7
  <2> HIDE DEF new
  <2>3. att'[v] = new /\ \A u \in QueueWorkers \ {v} : att'[u] = att[u]
    BY <2>2 DEF DeliveryInv, Delivery!TypeOK
  <2>4. Delivery!TypeOK'
    BY <1>4, <1>7, <2>1, <2>2 DEF DeliveryInv, Delivery!TypeOK
  <2>5. AttemptCurrent(v)'
    BY <1>3, <1>4, <1>7, <2>1, <2>3 DEF AttemptCurrent, Delivery!Holds
  <2>6. \A u \in QueueWorkers :
          \/ att[u] # Delivery!Idle /\ att[u].on # d /\ att'[u] = att[u]
          \/ AttemptCurrent(u)'
    BY <1>3, <2>3, <2>5, OthersElsewhere, IdleCurrent DEF Delivery!Holds
  <2>7. Kept(d)
    BY <1>3, <1>4, <1>7 DEF Kept, Served
  <2> QED BY <1>4, <1>7, <2>4, <2>6, <2>7, OneDelivery DEF DeliveryInv, Shapes, AttemptsLeft
<1> QED BY <1>2, <1>5, <1>6, <1>7 DEF Delivery!Record

-----------------------------------------------------------------------------
(* The dispatchers *)

\* Served, or left out by an error of the listener.
Accounted(d) == Served(d) \/ d \in skipped

\* The subscriptions a dispatcher has behind it are accounted for.
ListedServed(w) ==
    disp[w].pc = "listing" =>
        \A s \in active \ disp[w].todo : Accounted(<<disp[w].on, s>>)

\* Only an error of the listener leaves a delivery out.
SkippedByErrors == "listener" \notin Faults => skipped = {}

IInv ==
    /\ TypeOK
    /\ DeliveryInv
    /\ \A w \in Dispatchers : ListedServed(w)
    /\ HandedOverUnlessSkipped
    /\ SkippedByErrors

LEMMA DispatchType ==
    ASSUME TypeOK, NEW w \in Dispatchers
    PROVE  /\ disp[w] # Outbox!Idle => disp[w] \in Outbox!Dispatch /\ disp[w].on \in Consequences
           /\ disp[w].pc # "idle" => disp[w] # Outbox!Idle
           /\ Outbox!Idle.pc = "idle"
BY DEF TypeOK, Outbox!TypeOK, Outbox!Idle, Outbox!Dispatch

\* The hand-over survives a step in which deliveries are kept, no subscription
\* is added, and a dispatcher at most serves what it takes off its list.
LEMMA HandoverKept ==
    ASSUME IInv, TypeOK', DeliveryStep, active' \subseteq active,
           \A w \in Dispatchers : disp'[w] = disp[w] \/ ListedServed(w)',
           \A e \in Consequences : cons'[e].status = "completed" =>
               \/ cons[e].status = "completed"
               \/ \A s \in active : Accounted(<<e, s>>),
           \A d \in skipped : d \in skipped' \/ Served(d)',
           "listener" \in Faults \/ skipped' \subseteq skipped
    PROVE  IInv'
<1>1. ASSUME NEW e \in Consequences, NEW s \in active, Accounted(<<e, s>>)
      PROVE  Accounted(<<e, s>>)'
  <2>1. <<e, s>> \in Deliveries
    BY DEF IInv, TypeOK, Deliveries
  <2>2. CASE Served(<<e, s>>)
    <3>1. Served(<<e, s>>)'
      BY <2>1, <2>2 DEF DeliveryStep, Kept
    <3> QED BY <3>1 DEF Accounted
  <2>3. CASE <<e, s>> \in skipped
    <3>1. <<e, s>> \in skipped' \/ Served(<<e, s>>)'
      BY <2>3
    <3> QED BY <3>1 DEF Accounted
  <2> QED BY <1>1, <2>2, <2>3 DEF Accounted
<1>2. ASSUME NEW w \in Dispatchers PROVE ListedServed(w)'
  <2>1. CASE disp'[w] = disp[w] /\ disp[w].pc = "listing"
    <3>1. PICK e \in Consequences : e = disp[w].on
      BY <2>1, DispatchType DEF IInv
    <3>2. \A s \in active \ disp[w].todo : Accounted(<<e, s>>)
      BY <2>1, <3>1 DEF IInv, ListedServed
    <3> QED BY <1>1, <2>1, <3>1, <3>2 DEF ListedServed
  <2> QED BY <2>1 DEF ListedServed
<1>3. HandedOverUnlessSkipped'
  <2> SUFFICES ASSUME NEW e \in Consequences, cons'[e].status = "completed", NEW s \in active'
               PROVE  Accounted(<<e, s>>)'
    BY DEF HandedOverUnlessSkipped, Accounted, Served
  <2>1. Accounted(<<e, s>>)
    BY DEF IInv, HandedOverUnlessSkipped, Accounted
  <2> QED BY <1>1, <2>1
<1>4. SkippedByErrors'
  BY DEF IInv, SkippedByErrors
<1> QED BY <1>2, <1>3, <1>4 DEF IInv, DeliveryStep

LEMMA DeliveryUnchanged ==
    ASSUME DeliveryInv, UNCHANGED delivery
    PROVE  DeliveryStep
<1>1. Delivery!TypeOK' /\ Shapes' /\ AttemptsLeft'
  BY DEF delivery, DeliveryInv, Delivery!TypeOK, Shapes, AttemptsLeft
<1>2. \A v \in QueueWorkers : AttemptCurrent(v)'
  BY DEF delivery, DeliveryInv, AttemptCurrent, Delivery!Holds
<1>3. \A d \in Deliveries : Kept(d)
  BY DEF delivery, Kept, Served
<1> QED BY <1>1, <1>2, <1>3 DEF DeliveryStep, DeliveryInv

\* A step of the delivery service alone.
LEMMA DeliveryAlone ==
    ASSUME IInv, DeliveryStep, UNCHANGED <<outbox, active, entered, skipped>>, faults' \in 0..MaxFaults
    PROVE  IInv'
<1>1. TypeOK'
  BY DEF IInv, TypeOK, outbox, Outbox!TypeOK, DeliveryStep, DeliveryInv
<1> QED BY <1>1, HandoverKept DEF outbox

LEMMA FaultCount ==
    ASSUME TypeOK, NEW kind, Fault(kind)
    PROVE  faults' \in 0..MaxFaults
BY PipelineAssumption DEF TypeOK, Fault

\* A step of a dispatcher that leaves the deliveries alone.
LEMMA OutboxAlone ==
    ASSUME IInv, NEW w \in Dispatchers, UNCHANGED delivery, Outbox!TypeOK', active' = active,
           entered' = entered \/ entered' = [entered EXCEPT ![w] = None],
           faults' \in 0..MaxFaults,
           \A u \in Dispatchers \ {w} : disp'[u] = disp[u],
           disp'[w].pc = "listing" => disp'[w].todo = active,
           \A e \in Consequences : cons'[e].status = "completed" =>
               \/ cons[e].status = "completed"
               \/ \A s \in active : Accounted(<<e, s>>),
           skipped' = skipped
    PROVE  IInv'
<1>1. DeliveryStep
  BY DeliveryUnchanged DEF IInv
<1>2. TypeOK'
  BY <1>1 DEF IInv, TypeOK, DeliveryStep, DeliveryInv
<1>3. ListedServed(w)'
  BY DEF ListedServed
<1> QED BY <1>1, <1>2, <1>3, HandoverKept

\* The row of a consequence is only written with a status and a dispatcher.
LEMMA ConsWritten ==
    ASSUME TypeOK, NEW e \in Consequences,
           NEW s \in {"none", "pending", "processing", "completed"},
           NEW by \in Dispatchers \cup {None},
           cons' = [cons EXCEPT ![e] = [status |-> s, by |-> by]]
    PROVE  /\ cons' \in [Consequences -> [status : {"none", "pending", "processing", "completed"},
                                          by : Dispatchers \cup {None}]]
           /\ cons'[e].status = s
           /\ \A x \in Consequences \ {e} : cons'[x] = cons[x]
BY DEF TypeOK, Outbox!TypeOK

LEMMA CommitKeeps ==
    ASSUME IInv, NEW e \in Consequences, Commit(e)
    PROVE  IInv'
<1>1. Outbox!TypeOK' /\ \A x \in Consequences : cons'[x].status = "completed" => cons[x].status = "completed"
  BY DEF IInv, TypeOK, Outbox!TypeOK, Commit, Outbox!InsertConsequence
<1>2. DeliveryStep
  BY DeliveryUnchanged DEF IInv, Commit
<1>3. TypeOK'
  BY <1>1, <1>2 DEF IInv, TypeOK, DeliveryStep, DeliveryInv, Commit
<1> QED BY <1>1, <1>2, <1>3, HandoverKept DEF Commit, Outbox!InsertConsequence

LEMMA ClaimKeeps ==
    ASSUME IInv, NEW w \in Dispatchers, NEW e \in Consequences, NEW overdue \in BOOLEAN,
           Outbox!ClaimConsequence(w, e, overdue),
           UNCHANGED <<delivery, active, entered, skipped>>, faults' \in 0..MaxFaults
    PROVE  IInv'
<1> DEFINE new == [pc |-> "claimed", on |-> e, todo |-> {}]
<1>1. new \in Outbox!Dispatch /\ new.pc = "claimed"
  BY DEF Outbox!Dispatch
<1>2. disp' = [disp EXCEPT ![w] = new]
  BY DEF Outbox!ClaimConsequence
<1> HIDE DEF new
<1>3. cons' \in [Consequences -> [status : {"none", "pending", "processing", "completed"},
                                  by : Dispatchers \cup {None}]]
      /\ \A x \in Consequences : cons'[x].status = "completed" => cons[x].status = "completed"
  BY ConsWritten DEF IInv, Outbox!ClaimConsequence
<1>4. Outbox!TypeOK' /\ disp'[w] = new /\ \A u \in Dispatchers \ {w} : disp'[u] = disp[u]
  BY <1>1, <1>2, <1>3 DEF IInv, TypeOK, Outbox!TypeOK
<1> QED BY <1>1, <1>3, <1>4, OutboxAlone

LEMMA HandleEventKeeps ==
    ASSUME IInv, NEW w \in Dispatchers, HandleEvent(w)
    PROVE  IInv'
<1>1. disp[w] \in Outbox!Dispatch
  BY DispatchType DEF IInv, HandleEvent, Outbox!ReadSubscriptions
<1> DEFINE new == [disp[w] EXCEPT !.pc = "listing", !.todo = active]
<1>2. new \in Outbox!Dispatch /\ new.todo = active
  BY <1>1 DEF IInv, TypeOK, Outbox!Dispatch
<1>3. disp' = [disp EXCEPT ![w] = new] /\ cons' = cons
  BY DEF IInv, TypeOK, Outbox!TypeOK, HandleEvent, Outbox!ReadSubscriptions
<1> HIDE DEF new
<1>4. Outbox!TypeOK' /\ disp'[w] = new /\ \A u \in Dispatchers \ {w} : disp'[u] = disp[u]
  BY <1>2, <1>3 DEF IInv, TypeOK, Outbox!TypeOK
<1> QED BY <1>2, <1>3, <1>4, OutboxAlone DEF IInv, TypeOK, HandleEvent

LEMMA InsertKeeps ==
    ASSUME IInv, NEW w \in Dispatchers, NEW s \in Subs, InsertDelivery(w, s)
    PROVE  IInv'
<1>1. PICK e \in Consequences : e = disp[w].on
  BY DispatchType DEF IInv, InsertDelivery
<1>2. <<e, s>> \in Deliveries
  BY DEF Deliveries
<1>3. DeliveryStep
  BY <1>1, <1>2, InsertDeliveryKeeps DEF IInv, InsertDelivery
<1>4. TypeOK'
  BY <1>3 DEF IInv, TypeOK, outbox, Outbox!TypeOK, DeliveryStep, DeliveryInv, InsertDelivery
<1> QED BY <1>3, <1>4, HandoverKept DEF InsertDelivery, outbox

LEMMA EnqueueKeeps ==
    ASSUME IInv, NEW w \in Dispatchers, NEW s \in Subs, AddJob(w, s)
    PROVE  IInv'
<1>1. disp[w] \in Outbox!Dispatch /\ disp[w].pc = "listing"
  BY DispatchType DEF IInv, AddJob, Outbox!Enqueued
<1>2. PICK e \in Consequences : e = disp[w].on
  BY <1>1 DEF Outbox!Dispatch
<1>3. <<e, s>> \in Deliveries
  BY DEF Deliveries
<1>4. DeliveryStep /\ Served(<<e, s>>)'
  BY <1>2, <1>3, AddJobKeeps DEF IInv, AddJob
<1> DEFINE new == [disp[w] EXCEPT !.todo = @ \ {s}]
<1>5. new \in Outbox!Dispatch /\ new.on = e /\ new.todo = disp[w].todo \ {s}
  BY <1>1, <1>2 DEF Outbox!Dispatch
<1>6. disp' = [disp EXCEPT ![w] = new] /\ cons' = cons /\ active' = active
  BY DEF AddJob, Outbox!Enqueued
<1> HIDE DEF new
<1>7. Outbox!TypeOK' /\ disp'[w] = new /\ \A u \in Dispatchers \ {w} : disp'[u] = disp[u]
  BY <1>5, <1>6 DEF IInv, TypeOK, Outbox!TypeOK
<1>8. TypeOK'
  BY <1>4, <1>7 DEF IInv, TypeOK, DeliveryStep, DeliveryInv, AddJob
<1>9. /\ skipped' \subseteq skipped
      /\ \A d \in skipped : d \in skipped' \/ Served(d)'
  BY <1>2, <1>4 DEF AddJob
<1>10. ASSUME NEW x \in active, x \notin new.todo PROVE Accounted(<<e, x>>)'
  <2>1. CASE x = s
    BY <1>4, <2>1 DEF Accounted
  <2>2. CASE x # s
    <3>1. Accounted(<<e, x>>) /\ <<e, x>> \in Deliveries
      BY <1>1, <1>2, <1>5, <1>10, <2>2 DEF IInv, TypeOK, ListedServed, Deliveries
    <3>2. Served(<<e, x>>) => Served(<<e, x>>)'
      BY <1>4, <3>1 DEF DeliveryStep, Kept
    <3>3. <<e, x>> \in skipped' \/ Served(<<e, x>>)'
      BY <1>9, <3>1, <3>2 DEF Accounted
    <3> QED BY <3>3 DEF Accounted
  <2> QED BY <2>1, <2>2
<1>11. ListedServed(w)'
  BY <1>5, <1>6, <1>7, <1>10 DEF ListedServed
<1> QED BY <1>4, <1>6, <1>7, <1>8, <1>9, <1>11, HandoverKept

\* An error of the listener: what it leaves is known to be left out.
LEMMA FailListenerKeeps ==
    ASSUME IInv, NEW w \in Dispatchers, FailListener(w)
    PROVE  IInv'
<1>1. disp[w] \in Outbox!Dispatch /\ disp[w].pc \in {"claimed", "listing"}
  BY DispatchType DEF IInv, FailListener, Outbox!ListenerThrows
<1>2. PICK e \in Consequences : e = disp[w].on
  BY <1>1 DEF Outbox!Dispatch
<1> DEFINE new == [disp[w] EXCEPT !.pc = "listing", !.todo = {}]
           left == IF disp[w].pc = "claimed" THEN active ELSE disp[w].todo
<1>3. new \in Outbox!Dispatch /\ new.on = e /\ new.todo = {}
  BY <1>1, <1>2 DEF Outbox!Dispatch
<1>4. disp' = [disp EXCEPT ![w] = new] /\ cons' = cons /\ active' = active /\ UNCHANGED delivery
  BY DEF IInv, TypeOK, Outbox!TypeOK, FailListener, Outbox!ListenerThrows
<1> HIDE DEF new
<1>5. Outbox!TypeOK' /\ disp'[w] = new /\ \A u \in Dispatchers \ {w} : disp'[u] = disp[u]
  BY <1>3, <1>4 DEF IInv, TypeOK, Outbox!TypeOK
<1>6. left \subseteq Subs
  BY <1>1 DEF IInv, TypeOK, Outbox!Dispatch
<1>7. skipped' = skipped \cup {<<e, s>> : s \in left}
  BY <1>2 DEF FailListener
<1>8. skipped' \subseteq Deliveries
  BY <1>6, <1>7 DEF IInv, TypeOK, Deliveries
<1>9. DeliveryStep
  BY <1>4, DeliveryUnchanged DEF IInv
<1>10. TypeOK'
  <2>1. faults' \in 0..MaxFaults
    BY FaultCount DEF IInv, FailListener
  <2> QED BY <1>4, <1>5, <1>8, <1>9, <2>1 DEF IInv, TypeOK, DeliveryStep, DeliveryInv, FailListener
<1>11. ASSUME NEW x \in active PROVE Accounted(<<e, x>>)'
  <2>1. CASE x \in left
    BY <1>7, <2>1 DEF Accounted
  <2>2. CASE x \notin left
    <3>1. Accounted(<<e, x>>) /\ <<e, x>> \in Deliveries
      BY <1>1, <1>2, <2>2 DEF IInv, TypeOK, ListedServed, Deliveries
    <3>2. Served(<<e, x>>) => Served(<<e, x>>)'
      BY <1>9, <3>1 DEF DeliveryStep, Kept
    <3>3. <<e, x>> \in skipped' \/ Served(<<e, x>>)'
      BY <1>7, <3>1, <3>2 DEF Accounted
    <3> QED BY <3>3 DEF Accounted
  <2> QED BY <2>1, <2>2
<1>12. ListedServed(w)'
  BY <1>3, <1>4, <1>5, <1>11 DEF ListedServed
<1>13. "listener" \in Faults
  BY DEF FailListener, Fault
<1> QED BY <1>4, <1>5, <1>7, <1>9, <1>10, <1>12, <1>13, HandoverKept

\* A dispatcher is done with its consequence; `s' is what it may write to the
\* row, and only while the claim is its own.
LEMMA DispatcherEnds ==
    ASSUME IInv, NEW w \in Dispatchers, disp[w] # Outbox!Idle,
           NEW s \in {"pending", "completed"},
           s = "completed" => disp[w].pc = "listing" /\ disp[w].todo = {},
           \/ cons' = cons
           \/ cons' = [cons EXCEPT ![disp[w].on] = [status |-> s, by |-> None]],
           disp' = [disp EXCEPT ![w] = Outbox!Idle],
           entered' = entered \/ entered' = [entered EXCEPT ![w] = None],
           UNCHANGED <<delivery, active, skipped>>, faults' \in 0..MaxFaults
    PROVE  IInv'
<1>1. PICK e \in Consequences : e = disp[w].on
  BY DispatchType DEF IInv
<1>2. /\ cons' \in [Consequences -> [status : {"none", "pending", "processing", "completed"},
                                     by : Dispatchers \cup {None}]]
      /\ \A x \in Consequences : cons'[x].status = "completed" =>
             cons[x].status = "completed" \/ (x = e /\ s = "completed")
  BY <1>1, ConsWritten DEF IInv, TypeOK, Outbox!TypeOK
<1>3. Outbox!TypeOK' /\ disp'[w] = Outbox!Idle /\ \A u \in Dispatchers \ {w} : disp'[u] = disp[u]
  BY <1>2 DEF IInv, TypeOK, Outbox!TypeOK
<1>4. s = "completed" => \A x \in active : Accounted(<<e, x>>)
  BY <1>1 DEF IInv, ListedServed
<1>5. disp'[w].pc = "idle"
  BY <1>3, DispatchType DEF IInv
<1> QED BY <1>2, <1>3, <1>4, <1>5, OutboxAlone

LEMMA DispatchKeeps ==
    ASSUME IInv, NEW w \in Dispatchers, Dispatch(w) \/ FailListener(w) \/ FailUnknown(w) \/ DieDispatching(w)
    PROVE  IInv'
<1> USE PipelineAssumption
<1>0. faults \in 0..MaxFaults
  BY DEF IInv, TypeOK
<1>1. ASSUME NEW e \in Consequences, Claim(w, e) PROVE IInv'
  BY <1>0, <1>1, ClaimKeeps DEF Claim
<1>2. CASE HandleEvent(w)
  BY <1>2, HandleEventKeeps
<1>3. ASSUME NEW s \in Subs, InsertDelivery(w, s) \/ AddJob(w, s) PROVE IInv'
  BY <1>3, InsertKeeps, EnqueueKeeps
<1>4. CASE Finish(w)
  <2>1. disp[w] # Outbox!Idle
    BY <1>4, DispatchType DEF IInv, Finish, Outbox!Complete
  <2> QED BY <1>0, <1>4, <2>1, DispatcherEnds DEF Finish, Outbox!Complete
<1>5. CASE FailUnknown(w)
  <2>1. faults' \in 0..MaxFaults
    BY <1>5, FaultCount DEF IInv, FailUnknown
  <2>2. disp[w] # Outbox!Idle
    BY <1>5, DispatchType DEF IInv, FailUnknown, Outbox!RecordFailure
  <2> QED BY <1>5, <2>1, <2>2, DispatcherEnds DEF FailUnknown, Outbox!RecordFailure
<1>6. CASE DieDispatching(w)
  <2>1. faults' \in 0..MaxFaults
    BY <1>6, FaultCount DEF IInv, DieDispatching
  <2> QED BY <1>6, <2>1, DispatcherEnds DEF DieDispatching, Outbox!Die
<1> QED BY <1>1, <1>2, <1>3, <1>4, <1>5, <1>6, FailListenerKeeps DEF Dispatch

LEMMA DeactivateKeeps ==
    ASSUME IInv, NEW s \in Subs, Deactivate(s)
    PROVE  IInv'
<1>1. faults' \in 0..MaxFaults
  BY FaultCount DEF IInv, Deactivate
<1>2. DeliveryStep
  BY DeliveryUnchanged DEF IInv, Deactivate
<1>3. TypeOK'
  BY <1>1, <1>2 DEF IInv, TypeOK, outbox, Outbox!TypeOK, DeliveryStep, DeliveryInv, Deactivate
<1> QED BY <1>2, <1>3, HandoverKept DEF Deactivate, outbox

\* Every step of a queue worker, and of the queue itself.
LEMMA WorkerSteps ==
    ASSUME DeliveryInv,
           \/ \E v \in QueueWorkers : Deliver(v) \/ DieDelivering(v) \/ FailStatement(v)
           \/ \E d \in Deliveries : Redeliver(d)
    PROVE  DeliveryStep /\ UNCHANGED <<outbox, active, entered, skipped>>
<1>1. ASSUME NEW v \in QueueWorkers, NEW d \in Deliveries, Begin(v, d) PROVE DeliveryStep
  <2>1. (d[2] \in active) \in BOOLEAN
    OBVIOUS
  <2> QED BY <1>1, <2>1, BeginKeeps DEF Begin
<1>2. ASSUME NEW v \in QueueWorkers, Post(v) PROVE DeliveryStep
  BY <1>2, PostKeeps DEF Post
<1>3. ASSUME NEW v \in QueueWorkers, Record(v) \/ Tell(v) PROVE DeliveryStep
  BY <1>3, RecordKeeps, TellKeeps DEF Record, Tell
<1>4. ASSUME NEW v \in QueueWorkers, DieDelivering(v) \/ FailStatement(v) PROVE DeliveryStep
  BY <1>4, DieKeeps, DatabaseErrorKeeps DEF DieDelivering, FailStatement
<1>5. ASSUME NEW d \in Deliveries, Redeliver(d) PROVE DeliveryStep
  BY <1>5, StallKeeps DEF Redeliver
<1>6. UNCHANGED <<outbox, active, entered, skipped>>
  BY DEF Deliver, Begin, Post, Record, Tell, DieDelivering, FailStatement, Redeliver
<1> QED BY <1>1, <1>2, <1>3, <1>4, <1>5, <1>6 DEF Deliver

-----------------------------------------------------------------------------
(* The theorems *)

LEMMA InitHolds == Init => IInv
<1> SUFFICES ASSUME Init PROVE IInv
  OBVIOUS
<1> USE PipelineAssumption
<1>1. Outbox!TypeOK
  BY DEF Init, Outbox!Init, Outbox!TypeOK, Outbox!Idle
<1>2. Delivery!TypeOK
  BY DEF Init, Delivery!Init, Delivery!TypeOK, Delivery!NoRow, Delivery!NoJob
<1>3. TypeOK
  BY <1>1, <1>2 DEF Init, TypeOK
<1>4. /\ \A d \in Deliveries : row[d] = Delivery!NoRow /\ job[d] = Delivery!NoJob
      /\ \A v \in QueueWorkers : att[v] = Delivery!Idle
  BY DEF Init, Delivery!Init
<1>5. Delivery!NoRow.status = "none" /\ Delivery!NoJob.state = "none"
  BY DEF Delivery!NoRow, Delivery!NoJob
<1>6. DeliveryInv
  BY <1>2, <1>4, <1>5 DEF DeliveryInv, Shapes, AttemptsLeft, AttemptCurrent
<1>7. HandedOverUnlessSkipped /\ SkippedByErrors /\ \A w \in Dispatchers : ListedServed(w)
  BY DEF Init, Outbox!Init, Outbox!Idle, HandedOverUnlessSkipped, SkippedByErrors, ListedServed
<1> QED BY <1>3, <1>6, <1>7 DEF IInv

LEMMA NextKeeps == IInv /\ [Next]_vars => IInv'
<1> SUFFICES ASSUME IInv, [Next]_vars PROVE IInv'
  OBVIOUS
<1>1. ASSUME NEW e \in Consequences, Commit(e) PROVE IInv'
  BY <1>1, CommitKeeps
<1>2. ASSUME NEW w \in Dispatchers, Dispatch(w) \/ FailListener(w) \/ FailUnknown(w) \/ DieDispatching(w) PROVE IInv'
  BY <1>2, DispatchKeeps
<1>3. ASSUME NEW w \in Dispatchers, NEW e \in Consequences, ClaimOverdue(w, e) PROVE IInv'
  BY <1>3, FaultCount, ClaimKeeps DEF IInv, ClaimOverdue
<1>4. ASSUME NEW s \in Subs, Deactivate(s) PROVE IInv'
  BY <1>4, DeactivateKeeps
<1>5. CASE \/ \E v \in QueueWorkers : Deliver(v) \/ DieDelivering(v) \/ FailStatement(v)
           \/ \E d \in Deliveries : Redeliver(d)
  <2>1. faults' = faults \/ \E kind \in AllFaults : Fault(kind)
    BY <1>5 DEF Deliver, Begin, Post, Record, Tell, DieDelivering, FailStatement, Redeliver, AllFaults
  <2>2. faults' \in 0..MaxFaults
    BY <2>1, FaultCount DEF IInv, TypeOK
  <2> QED BY <1>5, <2>2, WorkerSteps, DeliveryAlone DEF IInv
<1>6. CASE UNCHANGED vars
  <2>1. DeliveryStep
    BY <1>6, DeliveryUnchanged DEF IInv, vars
  <2> QED BY <1>6, <2>1, DeliveryAlone DEF IInv, TypeOK, vars
<1> QED BY <1>1, <1>2, <1>3, <1>4, <1>5, <1>6 DEF Next

LEMMA Invariant == Spec => []IInv
BY InitHolds, NextKeeps, PTL DEF Spec

\* Every row, job, attempt and claim keeps its shape: in particular the attempts
\* the row counts and the tries the queue counts never pass MAX_ATTEMPTS.
THEOREM TypeCorrect == Spec => []TypeOK
<1>1. IInv => TypeOK
  BY DEF IInv
<1> QED BY <1>1, Invariant, PTL

\* A completed consequence has left out nobody but those an error of the
\* listener left out and no dispatcher has served since: every other subscription
\* still active has its delivery row, and no pending row is without its job -
\* whichever dispatchers failed, died or were overtaken on the way.
THEOREM HandoverAccounted == Spec => []HandedOverUnlessSkipped
<1>1. IInv => HandedOverUnlessSkipped
  BY DEF IInv
<1> QED BY <1>1, Invariant, PTL

\* What the caller of dispatchPersisted is promised holds as long as no listener
\* throws: crashes, lost leases and refused statements of the dispatchers do not
\* leave a subscriber out.
THEOREM HandoverWithoutErrors ==
  ASSUME "listener" \notin Faults
  PROVE  Spec => []HandedOver
<1>1. IInv => HandedOver
  BY DEF IInv, SkippedByErrors, HandedOverUnlessSkipped, HandedOver
<1> QED BY <1>1, Invariant, PTL

\* No dispatcher, overdue or failing, takes a completed consequence back.
THEOREM CompletionFinal == Spec => CompletedIsFinal
<1> DEFINE P == \A e \in Consequences :
                   cons[e].status = "completed" => cons'[e].status = "completed"
<1>1. IInv /\ [Next]_vars => [P]_vars
  <2> SUFFICES ASSUME IInv, Next, NEW x \in Consequences, cons[x].status = "completed"
               PROVE  cons'[x].status = "completed"
    OBVIOUS
  <2>1. ASSUME NEW e \in Consequences, Commit(e) PROVE cons'[x] = cons[x]
    BY <2>1 DEF Commit, Outbox!InsertConsequence, IInv, TypeOK, Outbox!TypeOK
  <2>2. ASSUME NEW w \in Dispatchers, NEW e \in Consequences, NEW o \in BOOLEAN,
               Outbox!ClaimConsequence(w, e, o)
        PROVE  cons'[x] = cons[x]
    BY <2>2 DEF Outbox!ClaimConsequence, IInv, TypeOK, Outbox!TypeOK
  <2>3. ASSUME NEW w \in Dispatchers, Outbox!Complete(w) PROVE cons'[x] = cons[x]
    BY <2>3 DEF Outbox!Complete, Outbox!Owns, IInv, TypeOK, Outbox!TypeOK
  <2>4. ASSUME NEW w \in Dispatchers, Outbox!RecordFailure(w) PROVE cons'[x] = cons[x]
    BY <2>4 DEF Outbox!RecordFailure, Outbox!Owns, IInv, TypeOK, Outbox!TypeOK
  <2>5. ASSUME NEW w \in Dispatchers,
               Dispatch(w) \/ FailListener(w) \/ FailUnknown(w) \/ DieDispatching(w) \/ (\E e \in Consequences : ClaimOverdue(w, e))
        PROVE  cons'[x] = cons[x]
    BY <2>2, <2>3, <2>4, <2>5 DEF Dispatch, Claim, HandleEvent, InsertDelivery, AddJob, Finish,
        FailListener, FailUnknown, DieDispatching, ClaimOverdue, outbox, Outbox!ReadSubscriptions,
        Outbox!Enqueued, Outbox!ListenerThrows, Outbox!Die
  <2>6. CASE \/ \E s \in Subs : Deactivate(s)
             \/ \E v \in QueueWorkers : Deliver(v) \/ DieDelivering(v) \/ FailStatement(v)
             \/ \E d \in Deliveries : Redeliver(d)
    BY <2>6, WorkerSteps DEF IInv, outbox, Deactivate
  <2> QED BY <2>1, <2>5, <2>6 DEF Next
<1> QED BY <1>1, Invariant, PTL DEF Spec, CompletedIsFinal

\* No attempt overwrites the outcome of a delivery, although it writes the row
\* by its id alone: it holds the job, and the row is as it read it.
THEOREM OutcomeFinal == Spec => OutcomeIsFinal
<1> DEFINE P == \A d \in Deliveries :
                   row[d].status \in {"delivered", "failed"} => row'[d] = row[d]
<1>1. IInv /\ [Next]_vars => [P]_vars
  <2> SUFFICES ASSUME IInv, Next, NEW d \in Deliveries, row[d].status \in {"delivered", "failed"}
               PROVE  row'[d] = row[d]
    OBVIOUS
  <2>1. DeliveryStep => row'[d] = row[d]
    BY DEF DeliveryStep, Kept
  <2>2. ASSUME NEW w \in Dispatchers, NEW s \in Subs, InsertDelivery(w, s) \/ AddJob(w, s)
        PROVE  DeliveryStep
    <3>1. PICK e \in Consequences : e = disp[w].on
      BY <2>2, DispatchType DEF IInv, InsertDelivery, AddJob, Outbox!Enqueued
    <3>2. <<e, s>> \in Deliveries
      BY DEF Deliveries
    <3> QED BY <2>2, <3>1, <3>2, InsertDeliveryKeeps, AddJobKeeps DEF IInv, InsertDelivery, AddJob
  <2>3. CASE \/ \E v \in QueueWorkers : Deliver(v) \/ DieDelivering(v) \/ FailStatement(v)
             \/ \E x \in Deliveries : Redeliver(x)
    BY <2>1, <2>3, WorkerSteps DEF IInv
  <2>4. CASE UNCHANGED row
    BY <2>4
  <2> QED BY <2>1, <2>2, <2>3, <2>4 DEF Next, Commit, Dispatch, Claim, HandleEvent, Finish,
        FailListener, FailUnknown, DieDispatching, ClaimOverdue, Deactivate, delivery
<1> QED BY <1>1, Invariant, PTL DEF Spec, OutcomeIsFinal

=============================================================================
