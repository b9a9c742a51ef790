-------------------------- MODULE WebhookDelivery --------------------------
(***************************************************************************)
(* Outbound webhooks of one endpoint: the emitter that stores an event and *)
(* enqueues its job, the delivery worker, the admin's retry, edit and      *)
(* deletion (apps/api/src/lib/webhooks.ts, worker/src/lib/emit-webhook.ts, *)
(* worker/src/jobs/webhook-delivery.ts, webhooks.routes.ts).               *)
(*                                                                         *)
(* Two counters bound the attempts: the row's, which a retry resets and a  *)
(* job writes from what it read, and the queue's, which belongs to a job.  *)
(***************************************************************************)
EXTENDS Integers, FiniteSets

CONSTANTS
    Deliveries,     \* rows of webhook_deliveries an event may create
    Slots,          \* slots of the delivery worker (WEBHOOK_CONCURRENCY)
    NoJob,          \* no job at hand
    MaxAttempts,    \* WEBHOOK_MAX_ATTEMPTS
    QueueAttempts,  \* attempts of the job an event enqueues (8)
    Threshold,      \* FAIL_THRESHOLD_TO_DISABLE
    MaxRetries,     \* bound: an admin's retries of a delivery
    MaxFaults       \* bound: throws, crashes and lost enqueues

ASSUME AttemptsAssumption == /\ MaxAttempts \in Nat \ {0}
                             /\ QueueAttempts \in Nat \ {0}
                             /\ Threshold \in Nat \ {0}
                             /\ MaxRetries \in Nat

VARIABLES
    exists,     \* the row of webhook_endpoints is there
    active,     \* .is_active
    failures,   \* .consecutive_failures
    status,     \* webhook_deliveries.status, "none" where there is no row
    attempts,   \* .attempts
    queue,      \* jobs that wait, with the attempts they have left
    emit,       \* the emitters' progress, per event
    retry,      \* the retry requests' progress, per delivery
    edit,       \* the edit that activates the endpoint: its reading of failures
    slot        \* the worker slots' local records

(***************************************************************************)
(* Observations: events the target acknowledged, posts per event, retries  *)
(* and faults per event, and whether a fault or an edit spared an endpoint *)
(* that had reached the threshold.                                         *)
(***************************************************************************)
VARIABLES heard, posts, asked, hits, spared

endpoint == <<exists, active, failures>>
table == <<status, attempts>>
requests == <<emit, retry, edit>>
seen == <<heard, posts, asked, hits>>
vars == <<endpoint, table, queue, requests, slot, seen, spared>>

\* An event's job has the delivery's id; a retry's job has an id of its own.
Job == [d : Deliveries, k : 0 .. MaxRetries, left : 1 .. QueueAttempts]

Idle == [pc |-> "idle", job |-> NoJob, n |-> 0]

Init ==
    /\ exists = TRUE /\ active = TRUE /\ failures = 0
    /\ status = [d \in Deliveries |-> "none"]
    /\ attempts = [d \in Deliveries |-> 0]
    /\ queue = {}
    /\ emit = [d \in Deliveries |-> "idle"]
    /\ retry = [d \in Deliveries |-> "idle"]
    /\ edit = "idle"
    /\ slot = [w \in Slots |-> Idle]
    /\ heard = {}
    /\ posts = [d \in Deliveries |-> 0]
    /\ asked = [d \in Deliveries |-> 0]
    /\ hits = [d \in Deliveries |-> 0]
    /\ spared = FALSE

Exists(d) == status[d] # "none"

Show(d, s) == status' = [status EXCEPT ![d] = s]

Enqueue(d, k, left) == queue' = queue \cup {[d |-> d, k |-> k, left |-> left]}

-----------------------------------------------------------------------------
(* The emitter: what it throws is logged and forgotten.                     *)

EmitStart(d) ==
    /\ emit[d] = "idle"
    /\ exists /\ active
    /\ emit' = [emit EXCEPT ![d] = "create"]
    /\ UNCHANGED <<endpoint, table, queue, retry, edit, slot, seen, spared>>

\* The row refers to the endpoint, which may be gone by now.
EmitCreate(d) ==
    /\ emit[d] = "create"
    /\ emit' = [emit EXCEPT ![d] = IF exists THEN "enqueue" ELSE "done"]
    /\ IF exists THEN Show(d, "pending") ELSE UNCHANGED status
    /\ UNCHANGED <<endpoint, attempts, queue, retry, edit, slot, seen, spared>>

\* Mutant: the event's job is enqueued for a single attempt.
EmitEnqueueOnce(d) ==
    /\ emit[d] = "enqueue"
    /\ emit' = [emit EXCEPT ![d] = "done"]
    /\ Enqueue(d, 0, 1)
    /\ UNCHANGED <<endpoint, table, retry, edit, slot, seen, spared>>

EmitEnqueue(d) ==
    /\ emit[d] = "enqueue"
    /\ emit' = [emit EXCEPT ![d] = "done"]
    /\ Enqueue(d, 0, QueueAttempts)
    /\ UNCHANGED <<endpoint, table, retry, edit, slot, seen, spared>>

Faulty(d) ==
    /\ hits[d] < MaxFaults
    /\ hits' = [hits EXCEPT ![d] = @ + 1]

EmitFault(d) ==
    /\ emit[d] \in {"create", "enqueue"}
    /\ Faulty(d)
    /\ emit' = [emit EXCEPT ![d] = "done"]
    /\ UNCHANGED <<endpoint, table, queue, retry, edit, slot, heard, posts, asked, spared>>

-----------------------------------------------------------------------------
(* The delivery worker.                                                     *)

At(w, pc) == slot[w].pc = pc

Goto(w, pc) == slot' = [slot EXCEPT ![w].pc = pc]

\* The attempt threw: the job waits for its next attempt, if it has one left.
FailAttempt(w) ==
    LET j == slot[w].job
    IN  /\ queue' = IF j.left > 1 THEN queue \cup {[j EXCEPT !.left = @ - 1]} ELSE queue
        /\ slot' = [slot EXCEPT ![w] = Idle]

TakeJob(w) ==
    /\ At(w, "idle")
    /\ \E j \in queue :
          /\ queue' = queue \ {j}
          /\ slot' = [slot EXCEPT ![w] = [pc |-> "read", job |-> j, n |-> 0]]
    /\ UNCHANGED <<endpoint, table, requests, seen, spared>>

\* Mutant: a delivered row is sent again.
ReadAnyStatus(w) ==
    LET d == slot[w].job.d
    IN  /\ At(w, "read")
        /\ slot' = [slot EXCEPT ![w].n = attempts[d],
                                ![w].pc = IF ~Exists(d) THEN "done"
                                          ELSE IF active THEN "claim" ELSE "shelve"]
        /\ UNCHANGED <<endpoint, table, queue, requests, seen, spared>>

Read(w) ==
    LET d == slot[w].job.d
    IN  /\ At(w, "read")
        /\ slot' = [slot EXCEPT ![w].n = attempts[d],
                                ![w].pc = IF status[d] \in {"none", "delivered"} THEN "done"
                                          ELSE IF active THEN "claim" ELSE "shelve"]
        /\ UNCHANGED <<endpoint, table, queue, requests, seen, spared>>

\* An update by id of a row that is gone throws.
Missing(w) ==
    /\ slot[w].pc \in {"claim", "shelve", "deliver", "giveup", "postpone", "bump", "disable"}
    /\ ~Exists(slot[w].job.d)
    /\ FailAttempt(w)
    /\ UNCHANGED <<endpoint, table, requests, seen, spared>>

Shelve(w) ==
    LET d == slot[w].job.d
    IN  /\ At(w, "shelve") /\ Exists(d)
        /\ Show(d, "giving_up")
        /\ Goto(w, "done")
        /\ UNCHANGED <<endpoint, attempts, queue, requests, seen, spared>>

Claim(w) ==
    LET d == slot[w].job.d
    IN  /\ At(w, "claim") /\ Exists(d)
        /\ Show(d, "in_flight")
        /\ attempts' = [attempts EXCEPT ![d] = slot[w].n + 1]
        /\ Goto(w, "post")
        /\ UNCHANGED <<endpoint, queue, requests, seen, spared>>

\* Mutant: one attempt more than the environment allows.
ExhaustedLate(w) == slot[w].n + 1 > MaxAttempts

Exhausted(w) == slot[w].n + 1 >= MaxAttempts

AfterFailure(w) == IF Exhausted(w) THEN "giveup" ELSE "postpone"

\* Acknowledged, acknowledged with the answer lost, refused for good, or failed
\* in a way that is worth another attempt.
Post(w) ==
    LET d == slot[w].job.d
    IN  /\ At(w, "post")
        /\ posts' = [posts EXCEPT ![d] = @ + 1]
        /\ \/ heard' = heard \cup {d} /\ Goto(w, "deliver")
           \/ heard' = heard \cup {d} /\ Goto(w, AfterFailure(w))
           \/ heard' = heard /\ Goto(w, "giveup")
           \/ heard' = heard /\ Goto(w, AfterFailure(w))
        /\ UNCHANGED <<endpoint, table, queue, requests, asked, hits, spared>>

\* The row and the endpoint's counter, in one transaction.
Deliver(w) ==
    LET d == slot[w].job.d
    IN  /\ At(w, "deliver") /\ Exists(d)
        /\ Show(d, "delivered")
        /\ failures' = 0
        /\ spared' = FALSE
        /\ Goto(w, "done")
        /\ UNCHANGED <<exists, active, attempts, queue, requests, seen>>

GiveUp(w) ==
    LET d == slot[w].job.d
    IN  /\ At(w, "giveup") /\ Exists(d)
        /\ Show(d, "giving_up")
        /\ Goto(w, "bump")
        /\ UNCHANGED <<endpoint, attempts, queue, requests, seen, spared>>

\* Mutant: the endpoint is disabled when the counter has passed the threshold.
BumpBeyond(w) ==
    /\ At(w, "bump") /\ Exists(slot[w].job.d)
    /\ failures' = failures + 1
    /\ Goto(w, IF failures' > Threshold /\ active THEN "disable" ELSE "done")
    /\ UNCHANGED <<exists, active, table, queue, requests, seen, spared>>

\* The increment is atomic and returns the row; what follows looks at that.
Bump(w) ==
    /\ At(w, "bump") /\ Exists(slot[w].job.d)
    /\ failures' = failures + 1
    /\ Goto(w, IF failures' >= Threshold /\ active THEN "disable" ELSE "done")
    /\ UNCHANGED <<exists, active, table, queue, requests, seen, spared>>

Disable(w) ==
    /\ At(w, "disable") /\ Exists(slot[w].job.d)
    /\ active' = FALSE
    /\ spared' = FALSE
    /\ Goto(w, "done")
    /\ UNCHANGED <<exists, failures, table, queue, requests, seen>>

\* The row waits for the next attempt of this job, which may have none.
Postpone(w) ==
    LET d == slot[w].job.d
    IN  /\ At(w, "postpone") /\ Exists(d)
        /\ Show(d, "pending")
        /\ FailAttempt(w)
        /\ UNCHANGED <<endpoint, attempts, requests, seen, spared>>

Finish(w) ==
    /\ At(w, "done")
    /\ slot' = [slot EXCEPT ![w] = Idle]
    /\ UNCHANGED <<endpoint, table, queue, requests, seen, spared>>

\* A statement throws, or the process dies and the job is run again as it was.
Fault(w) ==
    /\ ~At(w, "idle")
    /\ Faulty(slot[w].job.d)
    /\ \/ ~At(w, "done") /\ FailAttempt(w)
       \/ queue' = queue \cup {slot[w].job} /\ slot' = [slot EXCEPT ![w] = Idle]
    /\ spared' = (spared \/ At(w, "disable"))
    /\ UNCHANGED <<endpoint, table, requests, heard, posts, asked>>

Work(w) ==
    \/ TakeJob(w) \/ Read(w) \/ Missing(w) \/ Shelve(w) \/ Claim(w) \/ Post(w)
    \/ Deliver(w) \/ GiveUp(w) \/ Bump(w) \/ Disable(w) \/ Postpone(w) \/ Finish(w)

-----------------------------------------------------------------------------
(* The admin.                                                               *)

\* A delivered row is left alone, as far as the request has seen.
RetryRead(d) ==
    /\ retry[d] = "idle"
    /\ status[d] \notin {"none", "delivered"} /\ asked[d] < MaxRetries
    /\ retry' = [retry EXCEPT ![d] = "reset"]
    /\ UNCHANGED <<endpoint, table, queue, emit, edit, slot, seen, spared>>

RetryReset(d) ==
    /\ retry[d] = "reset"
    /\ retry' = [retry EXCEPT ![d] = IF Exists(d) THEN "enqueue" ELSE "idle"]
    /\ IF Exists(d)
       THEN /\ Show(d, "pending")
            /\ attempts' = [attempts EXCEPT ![d] = 0]
            /\ asked' = [asked EXCEPT ![d] = @ + 1]
       ELSE UNCHANGED <<table, asked>>
    /\ UNCHANGED <<endpoint, queue, emit, edit, slot, heard, posts, hits, spared>>

\* The job has a single attempt.
RetryEnqueue(d) ==
    /\ retry[d] = "enqueue"
    /\ retry' = [retry EXCEPT ![d] = "idle"]
    /\ Enqueue(d, asked[d], 1)
    /\ UNCHANGED <<endpoint, table, emit, edit, slot, seen, spared>>

RetryFault(d) ==
    /\ retry[d] \in {"reset", "enqueue"}
    /\ Faulty(d)
    /\ retry' = [retry EXCEPT ![d] = "idle"]
    /\ UNCHANGED <<endpoint, table, queue, emit, edit, slot, heard, posts, asked, spared>>

Deactivate ==
    /\ exists
    /\ active' = FALSE
    /\ spared' = FALSE
    /\ UNCHANGED <<exists, failures, table, queue, requests, slot, seen>>

\* Activating reads the counter and resets it if it was not zero.
EditRead ==
    /\ exists /\ edit = "idle"
    /\ edit' = IF failures > 0 THEN "reset" ELSE "keep"
    /\ UNCHANGED <<endpoint, table, queue, emit, retry, slot, seen, spared>>

EditWrite ==
    /\ edit # "idle"
    /\ edit' = "idle"
    /\ IF exists
       THEN /\ active' = TRUE
            /\ failures' = IF edit = "reset" THEN 0 ELSE failures
            /\ spared' = (failures' >= Threshold)
       ELSE UNCHANGED <<active, failures, spared>>
    /\ UNCHANGED <<exists, table, queue, emit, retry, slot, seen>>

\* The deliveries go with their endpoint.
Delete ==
    /\ exists
    /\ exists' = FALSE /\ active' = FALSE
    /\ status' = [d \in Deliveries |-> "none"]
    /\ UNCHANGED <<failures, attempts, queue, requests, slot, seen, spared>>

-----------------------------------------------------------------------------
Emit(d) == EmitStart(d) \/ EmitCreate(d) \/ EmitEnqueue(d) \/ EmitFault(d)
Retry(d) == RetryRead(d) \/ RetryReset(d) \/ RetryEnqueue(d) \/ RetryFault(d)
Edit == Deactivate \/ EditRead \/ EditWrite \/ Delete

Next ==
    \/ \E d \in Deliveries : Emit(d) \/ Retry(d)
    \/ \E w \in Slots : Work(w) \/ Fault(w)
    \/ Edit

Spec == Init /\ [][Next]_vars

\* The worker's slots go on, and so does an emitter that has begun; nobody
\* need retry, edit or emit, and the target need not answer.
Fairness ==
    /\ \A w \in Slots : WF_vars(Work(w))
    /\ \A d \in Deliveries : WF_vars(EmitCreate(d) \/ EmitEnqueue(d))

FairSpec == Spec /\ Fairness

-----------------------------------------------------------------------------
Updates == {"claim", "shelve", "deliver", "giveup", "postpone", "bump", "disable"}
Stage == {"idle", "read", "post", "done"} \cup Updates

(* Types of the rows, the queue and the slots' records.                     *)
TypeOK ==
    /\ exists \in BOOLEAN /\ active \in BOOLEAN
    /\ failures \in Nat
    /\ status \in [Deliveries -> {"none", "pending", "in_flight", "delivered", "giving_up"}]
    /\ attempts \in [Deliveries -> Nat]
    /\ queue \subseteq Job
    /\ emit \in [Deliveries -> {"idle", "create", "enqueue", "done"}]
    /\ retry \in [Deliveries -> {"idle", "reset", "enqueue"}]
    /\ edit \in {"idle", "reset", "keep"}
    /\ slot \in [Slots -> [pc : Stage, job : Job \cup {NoJob}, n : Nat]]
    /\ \A w \in Slots : ~At(w, "idle") => slot[w].job \in Job
    /\ heard \subseteq Deliveries
    /\ posts \in [Deliveries -> Nat]
    /\ asked \in [Deliveries -> 0 .. MaxRetries]
    /\ hits \in [Deliveries -> Nat]
    /\ spared \in BOOLEAN

Shown(s) == IF s = "none" THEN "none"
            ELSE IF s \in {"pending", "in_flight"} THEN "open"
            ELSE IF s = "delivered" THEN "delivered" ELSE "abandoned"

Promise == INSTANCE AtLeastOnce WITH
              outcome <- [d \in Deliveries |-> Shown(status[d])],
              asked <- {d \in Deliveries : asked[d] > 0}

\* An event shown as delivered has reached its target and, unless an admin
\* retried it, is never sent, failed or given up afterwards: neither a lost
\* answer nor a job that is run again after a crash may undo it.
KeepsPromise == Promise!Spec

Least(a, b) == IF a <= b THEN a ELSE b

\* "After WEBHOOK_MAX_ATTEMPTS we mark giving_up": the two attempt counters
\* bound the posts of an event by the smaller of them; a fault costs one more, and
\* with a retry, which resets the row's counter, each job keeps its own.
PostsAreBounded ==
    \A d \in Deliveries :
        posts[d] <= hits[d] + IF asked[d] = 0 THEN Least(MaxAttempts, QueueAttempts)
                              ELSE QueueAttempts + asked[d]

\* An endpoint that has reached the threshold is disabled or about to be, unless
\* the disabling was lost to a fault or an admin's activation had read a counter
\* that was still zero.
ThresholdDisables ==
    active /\ failures >= Threshold => spared \/ \E w \in Slots : At(w, "disable")

\* What was stored is delivered or given up in the end, where the queue has as
\* many attempts as the row and no fault or retry took the job away.
DeliveryEnds ==
    MaxAttempts <= QueueAttempts =>
        \A d \in Deliveries :
            status[d] = "pending"
                ~> status[d] \in {"delivered", "giving_up", "none"} \/ hits[d] + asked[d] > 0
=============================================================================
