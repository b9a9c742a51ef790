--------------------------- MODULE WebhookProofs ---------------------------
(***************************************************************************)
(* What holds of webhook deliveries for any number of events, slots,       *)
(* attempts and retries.                                                   *)
(*                                                                         *)
(* The heart is Alone: as long as no admin has retried an event, its one   *)
(* job is in one place, the queue or a slot, so that nobody can stand      *)
(* between the reading of an undelivered row and its delivery by somebody  *)
(* else.  That the slots write by id, without looking again, is then       *)
(* harmless, and a delivered event keeps its status.                       *)
(*                                                                         *)
(* The posts are bounded by two budgets: the runs that the queue may still *)
(* start of an event's job (QueueOk), and, without an admin's retry, what  *)
(* the row's own counter has left (RowOk).                                 *)
(***************************************************************************)
EXTENDS WebhookDelivery, FiniteSetTheorems, TLAPS

\* A slot is at work on d.
On(w, d) == ~At(w, "idle") /\ slot[w].job.d = d

\* An event whose row was made has it until the endpoint goes; nothing is
\* made twice; a retry in progress was counted, or still may be.
Rooted ==
    \A d \in Deliveries :
        /\ emit[d] \in {"idle", "create"} => status[d] = "none"
        /\ retry[d] = "reset" => asked[d] < MaxRetries
        /\ retry[d] = "enqueue" => asked[d] > 0

\* Without a retry an event has one job, in one place, once it is emitted.
Alone ==
    \A d \in Deliveries : asked[d] = 0 =>
        /\ \A j \in queue : j.d = d =>
              /\ emit[d] = "done"
              /\ \A i \in queue : i.d = d => i = j
              /\ \A w \in Slots : ~On(w, d)
        /\ \A w \in Slots : On(w, d) =>
              /\ emit[d] = "done"
              /\ \A v \in Slots : On(v, d) => v = w

\* Whoever is at work on a delivered event has not read it yet, or is through.
Settled ==
    \A d \in Deliveries : asked[d] = 0 /\ status[d] = "delivered" =>
        \A w \in Slots : On(w, d) => slot[w].pc \in {"read", "done"}

\* A slot that stores a delivery has had an answer.
Answered == \A w \in Slots : At(w, "deliver") => slot[w].job.d \in heard

Inv == TypeOK /\ Rooted /\ Alone /\ Settled /\ Answered

LEMMA InitInv == Init => Inv
<1> SUFFICES ASSUME Init PROVE Inv
  OBVIOUS
<1>1. TypeOK
  <2>1. /\ exists \in BOOLEAN /\ active \in BOOLEAN /\ spared \in BOOLEAN
        /\ failures \in Nat /\ queue \subseteq Job
    BY DEF Init
  <2>2. /\ status \in [Deliveries -> {"none", "pending", "in_flight", "delivered", "giving_up"}]
        /\ attempts \in [Deliveries -> Nat]
        /\ posts \in [Deliveries -> Nat] /\ hits \in [Deliveries -> Nat]
        /\ asked \in [Deliveries -> 0 .. MaxRetries]
    BY AttemptsAssumption DEF Init
  <2>3. /\ emit \in [Deliveries -> {"idle", "create", "enqueue", "done"}]
        /\ retry \in [Deliveries -> {"idle", "reset", "enqueue"}]
        /\ edit \in {"idle", "reset", "keep"} /\ heard \subseteq Deliveries
    BY DEF Init
  <2>4. slot \in [Slots -> [pc : Stage, job : Job \cup {NoJob}, n : Nat]]
    BY DEF Init, Idle, Stage
  <2>5. \A w \in Slots : ~At(w, "idle") => slot[w].job \in Job
    BY DEF Init, Idle, At
  <2> QED
    BY <2>1, <2>2, <2>3, <2>4, <2>5 DEF TypeOK
<1>2. Rooted /\ Alone /\ Settled /\ Answered
  BY DEF Init, Idle, At, Rooted, Alone, Settled, Answered, On
<1> QED
  BY <1>1, <1>2 DEF Inv

\* Every action of an emitter, of the admin and of a slot keeps the types.
LEMMA TypeStep == TypeOK /\ Rooted /\ [Next]_vars => TypeOK'
<1> SUFFICES ASSUME TypeOK, Rooted, [Next]_vars PROVE TypeOK'
  OBVIOUS
<1> USE AttemptsAssumption DEF TypeOK
<1>1. CASE UNCHANGED vars
  BY <1>1 DEF vars, endpoint, table, requests, seen, At
<1>2. ASSUME NEW d \in Deliveries, Emit(d) PROVE TypeOK'
  <2>1. CASE EmitStart(d)
    BY <2>1 DEF EmitStart, endpoint, table, requests, seen, At
  <2>2. CASE EmitCreate(d)
    BY <2>2 DEF EmitCreate, Show, endpoint, table, requests, seen, At
  <2>3. CASE EmitEnqueue(d)
    BY <2>3 DEF EmitEnqueue, Enqueue, Job, endpoint, table, requests, seen, At
  <2>4. CASE EmitFault(d)
    BY <2>4 DEF EmitFault, Faulty, endpoint, table, requests, seen, At
  <2> QED
    BY <1>2, <2>1, <2>2, <2>3, <2>4 DEF Emit
<1>3. ASSUME NEW d \in Deliveries, Retry(d) PROVE TypeOK'
  <2>1. CASE RetryRead(d)
    BY <2>1 DEF RetryRead, endpoint, table, requests, seen, At
  <2>2. CASE RetryReset(d)
    BY <2>2 DEF RetryReset, Rooted, Exists, Show, endpoint, table, requests, seen, At
  <2>3. CASE RetryEnqueue(d)
    BY <2>3 DEF RetryEnqueue, Enqueue, Job, endpoint, table, requests, seen, At
  <2>4. CASE RetryFault(d)
    BY <2>4 DEF RetryFault, Faulty, endpoint, table, requests, seen, At
  <2> QED
    BY <1>3, <2>1, <2>2, <2>3, <2>4 DEF Retry
<1>4. ASSUME NEW w \in Slots, Work(w) \/ Fault(w) PROVE TypeOK'
  <2>0. ~At(w, "idle") /\ FailAttempt(w) =>
            /\ queue' \subseteq Job
            /\ slot' \in [Slots -> [pc : Stage, job : Job \cup {NoJob}, n : Nat]]
            /\ \A v \in Slots : ~At(v, "idle")' => slot'[v].job \in Job
    BY DEF FailAttempt, Idle, At, Job, Stage
  <2>j. /\ slot[w].n \in Nat /\ slot[w].n + 1 \in Nat
        /\ ~At(w, "idle") => /\ slot[w].job \in Job /\ slot[w].job.d \in Deliveries
    BY DEF Job
  <2>1. CASE TakeJob(w)
    BY <2>1 DEF TakeJob, At, Stage, endpoint, table, requests, seen
  <2>2. CASE Read(w)
    BY <2>2 DEF Read, At, Stage, Updates, endpoint, table, requests, seen
  <2>3. CASE Missing(w)
    BY <2>0, <2>3 DEF Missing, At, endpoint, table, requests, seen
  <2>4. CASE Shelve(w)
    BY <2>4 DEF Shelve, Show, Goto, At, Stage, endpoint, table, requests, seen
  <2>5. CASE Claim(w)
    <3>1. attempts' \in [Deliveries -> Nat] /\ status' \in [Deliveries -> {"none", "pending", "in_flight", "delivered", "giving_up"}]
      BY <2>j, <2>5 DEF Claim, Show
    <3> QED
      BY <2>5, <3>1 DEF Claim, Goto, At, Stage, endpoint, requests, seen
  <2>6. CASE Post(w)
    <3>1. posts' \in [Deliveries -> Nat] /\ heard' \subseteq Deliveries
      BY <2>j, <2>6 DEF Post, At
    <3>2. \E pc \in {"deliver", "giveup", "postpone"} : slot' = [slot EXCEPT ![w].pc = pc]
      BY <2>6 DEF Post, AfterFailure, Goto
    <3> QED
      BY <2>j, <2>6, <3>1, <3>2 DEF Post, At, Stage, Updates, endpoint, table, requests, seen
  <2>7. CASE Deliver(w)
    BY <2>7 DEF Deliver, Show, Goto, At, Stage, endpoint, table, requests, seen
  <2>8. CASE GiveUp(w)
    BY <2>8 DEF GiveUp, Show, Goto, At, Stage, Updates, endpoint, table, requests, seen
  <2>9. CASE Bump(w)
    BY <2>9 DEF Bump, Goto, At, Stage, Updates, endpoint, table, requests, seen
  <2>10. CASE Disable(w)
    BY <2>10 DEF Disable, Goto, At, Stage, endpoint, table, requests, seen
  <2>11. CASE Postpone(w)
    BY <2>0, <2>11 DEF Postpone, Show, At, endpoint, table, requests, seen
  <2>12. CASE Finish(w)
    BY <2>12 DEF Finish, Idle, At, Stage, endpoint, table, requests, seen
  <2>13. CASE Fault(w)
    <3>a. spared' \in BOOLEAN
      BY <2>13 DEF Fault
    <3>b. /\ ~At(w, "idle")
          /\ hits' \in [Deliveries -> Nat]
          /\ UNCHANGED <<endpoint, table, requests, heard, posts, asked>>
      BY <2>j, <2>13 DEF Fault, Faulty
    <3>1. CASE FailAttempt(w)
      BY <2>0, <3>1, <3>a, <3>b DEF At, endpoint, table, requests, seen
    <3>2. CASE queue' = queue \cup {slot[w].job} /\ slot' = [slot EXCEPT ![w] = Idle]
      BY <2>j, <3>2, <3>a, <3>b DEF Idle, At, Stage, endpoint, table, requests, seen
    <3> QED
      BY <2>13, <3>1, <3>2 DEF Fault
  <2> QED
    BY <1>4, <2>1, <2>2, <2>3, <2>4, <2>5, <2>6, <2>7, <2>8, <2>9, <2>10, <2>11, <2>12, <2>13 DEF Work
<1>5. CASE Edit
  <2>1. CASE Deactivate
    BY <2>1 DEF Deactivate, endpoint, table, requests, seen, At
  <2>2. CASE EditRead
    BY <2>2 DEF EditRead, endpoint, table, requests, seen, At
  <2>3. CASE EditWrite
    <3>1. spared' \in BOOLEAN
      <4>1. CASE exists
        BY <2>3, <4>1 DEF EditWrite
      <4>2. CASE ~exists
        BY <2>3, <4>2 DEF EditWrite
      <4> QED
        BY <4>1, <4>2
    <3>2. active' \in BOOLEAN /\ failures' \in Nat
      <4>1. CASE exists
        BY <2>3, <4>1 DEF EditWrite
      <4>2. CASE ~exists
        BY <2>3, <4>2 DEF EditWrite
      <4> QED
        BY <4>1, <4>2
    <3> QED
      BY <2>3, <3>1, <3>2 DEF EditWrite, endpoint, table, requests, seen, At
  <2>4. CASE Delete
    BY <2>4 DEF Delete, endpoint, table, requests, seen, At
  <2> QED
    BY <1>5, <2>1, <2>2, <2>3, <2>4 DEF Edit
<1> QED
  BY <1>1, <1>2, <1>3, <1>4, <1>5 DEF Next

-----------------------------------------------------------------------------
(* What a step may do to the jobs, the slots and the rows.                   *)

\* A slot that goes on keeps its job; one that drops it may return it to the queue.
Others(w) == \A v \in Slots \ {w} : slot'[v] = slot[v]

Goes(w) == ~At(w, "idle")' /\ slot'[w].job = slot[w].job /\ Others(w)

Drops(w) ==
    /\ At(w, "idle")' /\ Others(w)
    /\ queue' \subseteq queue \cup {j \in Job : /\ j.d = slot[w].job.d /\ j.k = slot[w].job.k
                                            /\ j.left <= slot[w].job.left}
    /\ \A i, j \in queue' \ queue : i = j

LEMMA SlotSteps ==
    ASSUME TypeOK, NEW w \in Slots, Work(w) \/ Fault(w)
    PROVE  /\ UNCHANGED <<emit, retry, asked>>
           /\ \/ TakeJob(w)
              \/ ~At(w, "idle") /\ Goes(w) /\ UNCHANGED queue
              \/ ~At(w, "idle") /\ Drops(w)
<1> USE DEF TypeOK
<1>1. UNCHANGED <<emit, retry, asked>>
  BY DEF Work, Fault, Faulty, TakeJob, Read, Missing, Shelve, Claim, Post, Deliver, GiveUp, Bump,
         Disable, Postpone, Finish, requests, seen
<1>2. ~At(w, "idle") /\ FailAttempt(w) => Drops(w)
  <2> SUFFICES ASSUME ~At(w, "idle"), FailAttempt(w) PROVE Drops(w)
    OBVIOUS
  <2>1. slot[w].job \in Job
    OBVIOUS
  <2>2. ASSUME NEW j \in Job, j.left > 1
        PROVE  \E i \in Job : i = [j EXCEPT !.left = @ - 1] /\ i.d = j.d /\ i.k = j.k /\ i.left <= j.left
    <3> DEFINE n == j.left - 1
    <3>1. n \in 1 .. QueueAttempts /\ n <= j.left
      BY <2>2, AttemptsAssumption DEF Job
    <3> HIDE DEF n
    <3>2. [j EXCEPT !.left = n] \in Job
      BY <3>1 DEF Job
    <3>3. [j EXCEPT !.left = n].d = j.d /\ [j EXCEPT !.left = n].k = j.k /\ [j EXCEPT !.left = n].left = n
      BY DEF Job
    <3> QED
      BY <3>1, <3>2, <3>3 DEF n
  <2>3. \/ queue' = queue
        \/ \E i \in Job : /\ queue' = queue \cup {i} /\ i.d = slot[w].job.d /\ i.k = slot[w].job.k
                          /\ i.left <= slot[w].job.left
    BY <2>1, <2>2 DEF FailAttempt
  <2>4. At(w, "idle")' /\ Others(w)
    BY DEF FailAttempt, At, Idle, Others
  <2> QED
    BY <2>3, <2>4 DEF Drops
<1>3. ~At(w, "idle") /\ slot' = [slot EXCEPT ![w] = Idle] /\ queue' = queue \cup {slot[w].job} => Drops(w)
  <2>1. ~At(w, "idle") => slot[w].job \in Job /\ slot[w].job.left <= slot[w].job.left
    BY DEF Job
  <2> QED
    BY <2>1 DEF Drops, At, Idle, Others
<1>4. ASSUME NEW pc \in Stage \ {"idle"}, Goto(w, pc) PROVE Goes(w)
  BY <1>4 DEF Goto, Goes, Others, At
<1>5. CASE Read(w)
  BY <1>1, <1>5 DEF Read, Goes, Others, At
<1>6. CASE Shelve(w) \/ Claim(w) \/ Deliver(w) \/ GiveUp(w) \/ Disable(w)
  BY <1>1, <1>4, <1>6 DEF Shelve, Claim, Deliver, GiveUp, Disable, At, Stage, Updates
<1>7. CASE Post(w) \/ Bump(w)
  BY <1>1, <1>4, <1>7 DEF Post, AfterFailure, Bump, At, Stage, Updates
<1>8. CASE Missing(w) \/ Postpone(w)
  BY <1>1, <1>2, <1>8 DEF Missing, Postpone, At
<1>9. CASE Finish(w)
  BY <1>1, <1>9 DEF Finish, Drops, At, Idle, Others
<1>10. CASE Fault(w)
  BY <1>1, <1>2, <1>3, <1>10 DEF Fault
<1> QED
  BY <1>1, <1>5, <1>6, <1>7, <1>8, <1>9, <1>10 DEF Work

-----------------------------------------------------------------------------
(* The invariant.                                                            *)

LEMMA RootedStep == Inv /\ [Next]_vars => Rooted'
<1> SUFFICES ASSUME Inv, [Next]_vars PROVE Rooted'
  OBVIOUS
<1> USE DEF Inv, TypeOK, Rooted
<1>1. CASE UNCHANGED vars
  BY <1>1 DEF vars, table, requests, seen
<1>2. ASSUME NEW d \in Deliveries, Emit(d) PROVE Rooted'
  BY <1>2 DEF Emit, EmitStart, EmitCreate, EmitEnqueue, EmitFault, Show, table, requests, seen
<1>3. ASSUME NEW d \in Deliveries, Retry(d) PROVE Rooted'
  <2>1. CASE RetryReset(d)
    BY <2>1, AttemptsAssumption DEF RetryReset, Exists, Show, table, requests
  <2>2. CASE RetryRead(d) \/ RetryEnqueue(d) \/ RetryFault(d)
    BY <2>2 DEF RetryRead, RetryEnqueue, RetryFault, table, requests, seen
  <2> QED
    BY <1>3, <2>1, <2>2 DEF Retry
<1>4. ASSUME NEW w \in Slots, Work(w) \/ Fault(w) PROVE Rooted'
  <2>1. UNCHANGED <<emit, retry, asked>>
    BY <1>4, SlotSteps
  <2>2. \A d \in Deliveries : status[d] = "none" => status'[d] = "none"
    BY <1>4 DEF Work, Fault, TakeJob, Read, Missing, Shelve, Claim, Post, Deliver, GiveUp, Bump,
                Disable, Postpone, Finish, Exists, Show, table
  <2> QED
    BY <2>1, <2>2
<1>5. CASE Edit
  BY <1>5 DEF Edit, Deactivate, EditRead, EditWrite, Delete, table, requests, seen
<1> QED
  BY <1>1, <1>2, <1>3, <1>4, <1>5 DEF Next

\* A slot's step leaves an event's only job in one place.
LEMMA AloneSlots ==
    ASSUME TypeOK, Alone, NEW w \in Slots, Work(w) \/ Fault(w)
    PROVE  Alone'
<1> SUFFICES ASSUME NEW d \in Deliveries, asked[d] = 0
             PROVE  /\ \A j \in queue' : j.d = d =>
                          /\ emit[d] = "done"
                          /\ \A i \in queue' : i.d = d => i = j
                          /\ \A v \in Slots : ~On(v, d)'
                    /\ \A v \in Slots : On(v, d)' =>
                          /\ emit[d] = "done"
                          /\ \A u \in Slots : On(u, d)' => u = v
  BY SlotSteps DEF Alone
<1> USE DEF Alone
<1>1. CASE TakeJob(w)
  <2>1. PICK j \in queue : /\ queue' = queue \ {j}
                           /\ slot' = [slot EXCEPT ![w] = [pc |-> "read", job |-> j, n |-> 0]]
    BY <1>1 DEF TakeJob
  <2>2. \A v \in Slots : On(v, d)' <=> (v # w /\ On(v, d)) \/ (v = w /\ j.d = d)
    BY <2>1 DEF On, At, TypeOK
  <2>3. CASE j.d = d
    BY <2>1, <2>2, <2>3
  <2>4. CASE j.d # d
    BY <1>1, <2>1, <2>2, <2>4 DEF TakeJob, On
  <2> QED
    BY <2>3, <2>4
<1>2. CASE ~At(w, "idle") /\ Goes(w) /\ UNCHANGED queue
  <2>1. \A v \in Slots : On(v, d)' <=> On(v, d)
    BY <1>2 DEF On, At, Goes, Others
  <2> QED
    BY <1>2, <2>1
<1>3. CASE ~At(w, "idle") /\ Drops(w)
  <2>1. \A v \in Slots : On(v, d)' <=> On(v, d) /\ v # w
    BY <1>3 DEF On, At, Drops, Others
  <2>2. CASE On(w, d)
    <3>1. /\ emit[d] = "done" /\ \A v \in Slots : ~On(v, d)'
          /\ \A j \in queue : j.d # d
      BY <2>1, <2>2
    <3>2. \A i, j \in queue' : i.d = d /\ j.d = d => i = j
      BY <1>3, <3>1 DEF Drops
    <3> QED
      BY <3>1, <3>2
  <2>3. CASE ~On(w, d)
    <3>1. \A j \in queue' : j.d = d => j \in queue
      BY <1>3, <2>3 DEF Drops, On
    <3> QED
      BY <2>1, <3>1
  <2> QED
    BY <2>2, <2>3
<1> QED
  BY <1>1, <1>2, <1>3, SlotSteps

LEMMA AloneStep == Inv /\ [Next]_vars => Alone'
<1> SUFFICES ASSUME Inv, [Next]_vars PROVE Alone'
  OBVIOUS
<1> USE DEF Inv
<1>1. CASE UNCHANGED vars
  BY <1>1 DEF Alone, On, At, vars, requests, seen
<1>2. ASSUME NEW d \in Deliveries, Emit(d) PROVE Alone'
  <2>1. CASE EmitEnqueue(d)
    <3>1. asked[d] = 0 => /\ \A j \in queue : j.d # d
                          /\ \A w \in Slots : ~On(w, d)
      BY <2>1 DEF EmitEnqueue, Alone
    <3>2. /\ queue' = queue \cup {[d |-> d, k |-> 0, left |-> QueueAttempts]}
          /\ emit' = [emit EXCEPT ![d] = "done"] /\ UNCHANGED <<slot, asked>>
      BY <2>1 DEF EmitEnqueue, Enqueue, seen
    <3>3. \A e \in Deliveries, w \in Slots : On(w, e)' <=> On(w, e)
      BY <3>2 DEF On, At
    <3> QED
      BY <3>1, <3>2, <3>3 DEF Alone, TypeOK
  <2>2. CASE EmitStart(d) \/ EmitCreate(d) \/ EmitFault(d)
    <3>1. /\ \A e \in Deliveries : emit[e] = "done" => emit'[e] = "done"
          /\ UNCHANGED <<queue, slot, asked>>
      BY <2>2 DEF EmitStart, EmitCreate, EmitFault, TypeOK, seen
    <3> QED
      BY <3>1 DEF Alone, On, At
  <2> QED
    BY <1>2, <2>1, <2>2 DEF Emit
<1>3. ASSUME NEW d \in Deliveries, Retry(d) PROVE Alone'
  <2>1. CASE RetryEnqueue(d)
    <3>1. asked[d] # 0
      BY <2>1 DEF RetryEnqueue, Rooted, TypeOK
    <3>2. /\ queue' = queue \cup {[d |-> d, k |-> asked[d], left |-> 1]}
          /\ UNCHANGED <<emit, slot, asked>>
      BY <2>1 DEF RetryEnqueue, Enqueue, seen
    <3>3. \A e \in Deliveries, w \in Slots : On(w, e)' <=> On(w, e)
      BY <3>2 DEF On, At
    <3> QED
      BY <3>1, <3>2, <3>3 DEF Alone, TypeOK
  <2>2. CASE RetryRead(d) \/ RetryReset(d) \/ RetryFault(d)
    <3>1. /\ \A e \in Deliveries : asked'[e] = 0 => asked[e] = 0
          /\ UNCHANGED <<queue, slot, emit>>
      BY <2>2 DEF RetryRead, RetryReset, RetryFault, TypeOK, seen
    <3> QED
      BY <3>1 DEF Alone, On, At
  <2> QED
    BY <1>3, <2>1, <2>2 DEF Retry
<1>4. ASSUME NEW w \in Slots, Work(w) \/ Fault(w) PROVE Alone'
  BY <1>4, AloneSlots
<1>5. CASE Edit
  BY <1>5 DEF Edit, Deactivate, EditRead, EditWrite, Delete, Alone, On, At, requests, seen
<1> QED
  BY <1>1, <1>2, <1>3, <1>4, <1>5 DEF Next

\* Only a slot with an answer shows an event as delivered.
LEMMA SettledSlots ==
    ASSUME Inv, NEW w \in Slots, Work(w) \/ Fault(w)
    PROVE  Settled'
<1> SUFFICES ASSUME NEW d \in Deliveries, asked[d] = 0, status'[d] = "delivered",
                    NEW v \in Slots, On(v, d)'
             PROVE  slot'[v].pc \in {"read", "done"}
  BY SlotSteps DEF Inv, Settled
<1> USE DEF Inv, TypeOK
<1>1. CASE status[d] = "delivered"
  <2>2. v # w => slot'[v] = slot[v] /\ On(v, d)
    BY SlotSteps DEF TakeJob, Goes, Drops, Others, On, At
  <2>3. CASE v = w
    <3>1. CASE TakeJob(w)
      BY <2>3, <3>1 DEF TakeJob
    <3>2. CASE ~At(w, "idle") /\ Goes(w)
      <4>1. On(w, d) /\ slot[w].pc \in {"read", "done"}
        BY <1>1, <2>3, <3>2 DEF Goes, On, Settled
      <4>2. Read(w) \/ At(w, "idle")'
        BY <4>1 DEF Work, Fault, TakeJob, Missing, Shelve, Claim, Post, Deliver, GiveUp, Bump,
                    Disable, Postpone, Finish, FailAttempt, Idle, At
      <4> QED
        BY <1>1, <2>3, <3>2, <4>1, <4>2 DEF Read, Goes, On
    <3>3. CASE ~At(w, "idle") /\ Drops(w)
      BY <2>3, <3>3 DEF Drops, On
    <3> QED
      BY <3>1, <3>2, <3>3, SlotSteps
  <2> QED
    BY <1>1, <2>2, <2>3 DEF Settled
<1>2. CASE status[d] # "delivered"
  <2>1. Deliver(w) /\ slot[w].job.d = d
    BY <1>2 DEF Work, Fault, TakeJob, Read, Missing, Shelve, Claim, Post, Deliver, GiveUp, Bump,
                Disable, Postpone, Finish, Show, table
  <2>2. On(w, d)
    BY <2>1 DEF Deliver, On, At
  <2>3. v # w => On(v, d)
    BY <2>1 DEF Deliver, Goto, On, At
  <2>4. v = w
    BY <2>2, <2>3 DEF Alone
  <2> QED
    BY <2>1, <2>4 DEF Deliver, Goto
<1> QED
  BY <1>1, <1>2

LEMMA SettledStep == Inv /\ [Next]_vars => Settled'
<1> SUFFICES ASSUME Inv, [Next]_vars PROVE Settled'
  OBVIOUS
<1> USE DEF Inv, TypeOK
<1>1. CASE UNCHANGED vars
  BY <1>1 DEF Settled, On, At, vars, table, requests, seen
<1>2. ASSUME NEW d \in Deliveries, Emit(d) PROVE Settled'
  BY <1>2 DEF Emit, EmitStart, EmitCreate, EmitEnqueue, EmitFault, Settled, Show, On, At, table, seen
<1>3. ASSUME NEW d \in Deliveries, Retry(d) PROVE Settled'
  BY <1>3 DEF Retry, RetryRead, RetryReset, RetryEnqueue, RetryFault, Settled, Show, On, At, table, seen
<1>4. ASSUME NEW w \in Slots, Work(w) \/ Fault(w) PROVE Settled'
  BY <1>4, SettledSlots
<1>5. CASE Edit
  BY <1>5 DEF Edit, Deactivate, EditRead, EditWrite, Delete, Settled, On, At, table, seen
<1> QED
  BY <1>1, <1>2, <1>3, <1>4, <1>5 DEF Next

LEMMA AnsweredStep == Inv /\ [Next]_vars => Answered'
<1> SUFFICES ASSUME Inv, [Next]_vars PROVE Answered'
  OBVIOUS
<1> USE DEF Inv, TypeOK, Answered
<1>1. CASE UNCHANGED vars
  BY <1>1 DEF At, vars, seen
<1>2. ASSUME NEW d \in Deliveries, Emit(d) \/ Retry(d) PROVE Answered'
  BY <1>2 DEF Emit, EmitStart, EmitCreate, EmitEnqueue, EmitFault, Retry, RetryRead, RetryReset,
              RetryEnqueue, RetryFault, At, seen
<1>3. ASSUME NEW w \in Slots, Work(w) \/ Fault(w) PROVE Answered'
  <2>1. \A v \in Slots \ {w} : slot'[v] = slot[v]
    BY <1>3, SlotSteps DEF TakeJob, Goes, Drops, Others
  <2>2. heard \subseteq heard'
    BY <1>3 DEF Work, Fault, TakeJob, Read, Missing, Shelve, Claim, Post, Deliver, GiveUp, Bump,
                Disable, Postpone, Finish, seen
  <2>3. At(w, "deliver")' => Post(w)
    BY <1>3 DEF Work, Fault, TakeJob, Read, Missing, Shelve, Claim, Post, Deliver, GiveUp, Bump,
                Disable, Postpone, Finish, FailAttempt, Idle, Goto, At
  <2>4. Post(w) /\ At(w, "deliver")' => slot'[w].job.d \in heard'
    BY DEF Post, Exhausted, AfterFailure, Goto, At
  <2> QED
    BY <2>1, <2>2, <2>3, <2>4 DEF At
<1>4. CASE Edit
  BY <1>4 DEF Edit, Deactivate, EditRead, EditWrite, Delete, At, seen
<1> QED
  BY <1>1, <1>2, <1>3, <1>4 DEF Next

LEMMA Invariance == Spec => []Inv
<1>1. Inv /\ [Next]_vars => Inv'
  BY TypeStep, RootedStep, AloneStep, SettledStep, AnsweredStep DEF Inv
<1> QED
  BY InitInv, <1>1, PTL DEF Spec

\* For any number of events, slots, attempts and retries the rows, jobs and
\* records keep their types (webhook-delivery.ts): no job is counted below its
\* last attempt, no retry is made in vain.
THEOREM WebhookTypes == Spec => []TypeOK
  BY Invariance, PTL DEF Inv

-----------------------------------------------------------------------------
(* The threshold.                                                            *)

\* While the endpoint is there, whatever is at work on an event finds its row;
\* and an endpoint that is gone is not active.
Kept ==
    /\ ~exists => ~active
    /\ exists => \A d \in Deliveries : status[d] = "none" =>
          /\ emit[d] # "enqueue" /\ retry[d] = "idle"
          /\ \A j \in queue : j.d # d
          /\ \A w \in Slots : ~On(w, d)

LEMMA KeptStep == Inv /\ Kept /\ [Next]_vars => Kept'
<1> SUFFICES ASSUME Inv, Kept, [Next]_vars PROVE Kept'
  OBVIOUS
<1> USE DEF Inv, TypeOK, Kept
<1>1. CASE UNCHANGED vars
  BY <1>1 DEF On, At, vars, endpoint, table, requests, seen
<1>2. ASSUME NEW d \in Deliveries, Emit(d) PROVE Kept'
  <2>1. CASE EmitEnqueue(d)
    BY <2>1 DEF EmitEnqueue, Enqueue, On, At, endpoint, table
  <2>2. CASE EmitCreate(d)
    BY <2>2 DEF EmitCreate, Show, On, At, endpoint
  <2>3. CASE EmitStart(d) \/ EmitFault(d)
    BY <2>3 DEF EmitStart, EmitFault, On, At, endpoint, table
  <2> QED
    BY <1>2, <2>1, <2>2, <2>3 DEF Emit
<1>3. ASSUME NEW d \in Deliveries, Retry(d) PROVE Kept'
  <2>1. CASE RetryEnqueue(d)
    BY <2>1 DEF RetryEnqueue, Enqueue, On, At, endpoint, table
  <2>2. CASE RetryReset(d)
    BY <2>2 DEF RetryReset, Exists, Show, On, At, endpoint
  <2>3. CASE RetryRead(d) \/ RetryFault(d)
    BY <2>3 DEF RetryRead, RetryFault, On, At, endpoint, table
  <2> QED
    BY <1>3, <2>1, <2>2, <2>3 DEF Retry
<1>4. ASSUME NEW w \in Slots, Work(w) \/ Fault(w) PROVE Kept'
  <2>1. /\ exists' = exists /\ active' \in {active, FALSE}
        /\ \A d \in Deliveries : status'[d] = "none" => status[d] = "none"
    BY <1>4 DEF Work, Fault, TakeJob, Read, Missing, Shelve, Claim, Post, Deliver, GiveUp, Bump,
                Disable, Postpone, Finish, Show, endpoint, table
  <2>2. ASSUME NEW d \in Deliveries, \A j \in queue : j.d # d, \A v \in Slots : ~On(v, d)
        PROVE  (\A j \in queue' : j.d # d) /\ \A v \in Slots : ~On(v, d)'
    <3>1. CASE TakeJob(w)
      BY <2>2, <3>1 DEF TakeJob, On, At
    <3>2. CASE ~At(w, "idle") /\ ((Goes(w) /\ UNCHANGED queue) \/ Drops(w))
      <4>1. slot[w].job.d # d
        BY <2>2, <3>2 DEF On
      <4> QED
        BY <2>2, <3>2, <4>1 DEF Goes, Drops, Others, On, At
    <3> QED
      BY <1>4, <3>1, <3>2, SlotSteps
  <2>3. (~exists => ~active)'
    BY <2>1
  <2>4. ASSUME exists', NEW d \in Deliveries, status'[d] = "none"
        PROVE  /\ emit'[d] # "enqueue" /\ retry'[d] = "idle"
               /\ \A j \in queue' : j.d # d
               /\ \A v \in Slots : ~On(v, d)'
    <3>1. exists /\ status[d] = "none" /\ UNCHANGED <<emit, retry>>
      BY <1>4, <2>1, <2>4, SlotSteps
    <3> QED
      BY <2>2, <3>1
  <2> QED
    BY <2>3, <2>4
<1>5. CASE Edit
  BY <1>5 DEF Edit, Deactivate, EditRead, EditWrite, Delete, On, At, requests, endpoint, table
<1> QED
  BY <1>1, <1>2, <1>3, <1>4, <1>5 DEF Next

LEMMA ThresholdStep == Inv /\ Kept /\ ThresholdDisables /\ [Next]_vars => ThresholdDisables'
<1> SUFFICES ASSUME Inv, Kept, ThresholdDisables, [Next]_vars,
                    active', failures' >= Threshold, ~spared'
             PROVE  \E w \in Slots : At(w, "disable")'
  BY DEF ThresholdDisables
<1> USE AttemptsAssumption DEF Inv, TypeOK, ThresholdDisables
<1>1. CASE UNCHANGED vars
  BY <1>1 DEF At, vars, endpoint
<1>2. ASSUME NEW d \in Deliveries, Emit(d) \/ Retry(d) PROVE \E w \in Slots : At(w, "disable")'
  BY <1>2 DEF Emit, EmitStart, EmitCreate, EmitEnqueue, EmitFault, Retry, RetryRead, RetryReset,
              RetryEnqueue, RetryFault, At, endpoint
<1>3. ASSUME NEW w \in Slots, Work(w) \/ Fault(w) PROVE \E v \in Slots : At(v, "disable")'
  <2>1. \A v \in Slots \ {w} : slot'[v] = slot[v]
    BY <1>3, SlotSteps DEF TakeJob, Goes, Drops, Others
  <2>2. CASE Bump(w)
    BY <2>1, <2>2 DEF Bump, Goto, At
  <2>3. CASE Deliver(w) \/ Disable(w)
    BY <2>3 DEF Deliver, Disable
  <2>4. CASE Missing(w)
    <3>1. slot[w].job.d \in Deliveries /\ On(w, slot[w].job.d)
      BY <2>4 DEF Missing, At, On, Job, Updates
    <3> QED
      BY <2>4, <3>1 DEF Missing, Kept, Exists, endpoint
  <2>5. CASE Fault(w)
    BY <2>1, <2>5 DEF Fault, At, endpoint
  <2>6. CASE TakeJob(w) \/ Read(w) \/ Shelve(w) \/ Claim(w) \/ Post(w) \/ GiveUp(w) \/ Postpone(w) \/ Finish(w)
    <3>1. UNCHANGED <<endpoint, spared>> /\ ~At(w, "disable")
      BY <2>6 DEF TakeJob, Read, Shelve, Claim, Post, GiveUp, Postpone, Finish, At
    <3> QED
      BY <2>1, <3>1 DEF At, endpoint
  <2> QED
    BY <1>3, <2>2, <2>3, <2>4, <2>5, <2>6 DEF Work
<1>4. CASE Deactivate \/ EditRead \/ Delete
  BY <1>4 DEF Deactivate, EditRead, Delete, At, endpoint
<1>5. CASE EditWrite
  BY <1>5 DEF EditWrite, At
<1> QED
  BY <1>1, <1>2, <1>3, <1>4, <1>5 DEF Next, Edit

\* For any number of deliveries that fail at once, an endpoint that has reached
\* the threshold is disabled or about to be, unless a fault took the disabling or
\* an activation had read a counter of zero (webhook-delivery.ts, the increment
\* and what follows it).
THEOREM ThresholdsDisable == Spec => []ThresholdDisables
<1>1. Init => Kept /\ ThresholdDisables
  BY AttemptsAssumption DEF Init, Kept, ThresholdDisables, On, At, Idle
<1>2. Inv /\ Kept /\ ThresholdDisables /\ [Next]_vars => Kept' /\ ThresholdDisables'
  BY KeptStep, ThresholdStep
<1> QED
  BY <1>1, <1>2, Invariance, PTL DEF Spec

-----------------------------------------------------------------------------
(* The promise.                                                              *)

Outcome == [d \in Deliveries |-> Shown(status[d])]
Asked == {d \in Deliveries : asked[d] > 0}

LEMMA ShowChanges ==
    ASSUME TypeOK, NEW d \in Deliveries, NEW s, Show(d, s)
    PROVE  Outcome' = [Outcome EXCEPT ![d] = Shown(s)]
  BY DEF TypeOK, Show, Outcome

LEMMA PromiseInit == Init => Promise!Init
  BY DEF Init, Promise!Init, Shown

LEMMA PromiseStep == Inv /\ [Next]_vars => [Promise!Next]_(Promise!vars)
<1> SUFFICES ASSUME Inv, [Next]_vars PROVE [Promise!Next]_(Promise!vars)
  OBVIOUS
<1> USE DEF Inv, TypeOK
<1>1. UNCHANGED <<status, heard, asked>> => UNCHANGED Promise!vars
  BY DEF Promise!vars
<1>2. ASSUME NEW d \in Deliveries, NEW s \in {"pending", "in_flight", "giving_up"}, Show(d, s),
             UNCHANGED <<heard, asked>>, status[d] # "none", status[d] # "delivered" \/ asked[d] > 0
      PROVE  Promise!Next
  <2>1. Outcome' = [Outcome EXCEPT ![d] = Shown(s)] /\ Shown(s) \in {"open", "abandoned"}
    BY <1>2, ShowChanges DEF Shown
  <2>2. Outcome[d] # "none" /\ (Outcome[d] # "delivered" \/ d \in Asked)
    BY <1>2 DEF Outcome, Asked, Shown
  <2>3. Promise!Change(d, Shown(s))
    BY <1>2, <2>1, <2>2 DEF Promise!Change, Promise!Show, Outcome, Asked
  <2> QED
    BY <2>1, <2>3 DEF Promise!Next
<1>3. CASE UNCHANGED vars
  BY <1>1, <1>3 DEF vars, table, seen
<1>4. ASSUME NEW d \in Deliveries, Emit(d) PROVE [Promise!Next]_(Promise!vars)
  <2>1. CASE EmitCreate(d) /\ exists
    <3>1. Show(d, "pending") /\ UNCHANGED <<heard, asked>> /\ status[d] = "none"
      BY <2>1 DEF EmitCreate, Rooted, seen
    <3>2. Promise!Emit(d)
      BY <3>1, ShowChanges DEF Promise!Emit, Promise!Show, Outcome, Shown
    <3> QED
      BY <3>2 DEF Promise!Next
  <2>2. CASE ~(EmitCreate(d) /\ exists)
    BY <1>1, <1>4, <2>2 DEF Emit, EmitStart, EmitCreate, EmitEnqueue, EmitFault, table, seen
  <2> QED
    BY <2>1, <2>2
<1>5. ASSUME NEW d \in Deliveries, Retry(d) PROVE [Promise!Next]_(Promise!vars)
  <2>1. CASE RetryReset(d) /\ Exists(d)
    <3>1. /\ Show(d, "pending") /\ heard' = heard /\ status[d] # "none"
          /\ asked' = [asked EXCEPT ![d] = @ + 1]
      BY <2>1 DEF RetryReset, Exists
    <3>2. Outcome' = [Outcome EXCEPT ![d] = "open"] /\ Outcome[d] # "none"
      BY <3>1, ShowChanges DEF Outcome, Shown
    <3>3. Asked' = Asked \cup {d}
      BY <3>1 DEF Asked
    <3>4. Promise!Ask(d)
      BY <3>1, <3>2, <3>3 DEF Promise!Ask, Promise!Show, Outcome, Asked
    <3> QED
      BY <3>4 DEF Promise!Next
  <2>2. CASE ~(RetryReset(d) /\ Exists(d))
    BY <1>1, <1>5, <2>2 DEF Retry, RetryRead, RetryReset, RetryEnqueue, RetryFault, table, seen
  <2> QED
    BY <2>1, <2>2
<1>6. ASSUME NEW w \in Slots, Work(w) \/ Fault(w) PROVE [Promise!Next]_(Promise!vars)
  <2> DEFINE d == slot[w].job.d
  <2>1. CASE Shelve(w) \/ Claim(w) \/ GiveUp(w) \/ Postpone(w)
    <3>1. /\ d \in Deliveries /\ status[d] # "none" /\ On(w, d) /\ slot[w].pc \notin {"read", "done"}
          /\ \E s \in {"pending", "in_flight", "giving_up"} : Show(d, s)
          /\ UNCHANGED <<heard, asked>>
      BY <2>1 DEF Shelve, Claim, GiveUp, Postpone, Exists, On, At, Job, seen
    <3>2. status[d] # "delivered" \/ asked[d] > 0
      BY <3>1 DEF Settled
    <3> HIDE DEF d
    <3> QED
      BY <1>2, <3>1, <3>2
  <2>2. CASE Deliver(w)
    <3>1. /\ d \in Deliveries /\ status[d] # "none" /\ d \in heard
          /\ Show(d, "delivered") /\ UNCHANGED <<heard, asked>>
      BY <2>2 DEF Deliver, Exists, At, Job, Answered, seen
    <3> HIDE DEF d
    <3>2. Outcome' = [Outcome EXCEPT ![d] = "delivered"] /\ Outcome[d] # "none"
      BY <3>1, ShowChanges DEF Outcome, Shown
    <3>3. Promise!Succeed(d)
      BY <3>1, <3>2 DEF Promise!Succeed, Promise!Show, Outcome
    <3> QED
      BY <3>1, <3>3 DEF Promise!Next
  <2>3. CASE Post(w)
    <3>1. d \in Deliveries /\ heard' \in {heard, heard \cup {d}} /\ UNCHANGED <<status, asked>>
      BY <2>3 DEF Post, At, Job, table
    <3> HIDE DEF d
    <3>2. heard' = heard \cup {d} => Promise!Hear(d)
      BY <3>1 DEF Promise!Hear
    <3> QED
      BY <1>1, <3>1, <3>2 DEF Promise!Next
  <2>4. CASE TakeJob(w) \/ Read(w) \/ Missing(w) \/ Bump(w) \/ Disable(w) \/ Finish(w) \/ Fault(w)
    BY <1>1, <2>4 DEF TakeJob, Read, Missing, Bump, Disable, Finish, Fault, table, seen
  <2> QED
    BY <1>6, <2>1, <2>2, <2>3, <2>4 DEF Work
<1>7. CASE Edit
  <2>1. CASE Delete
    <3>1. Promise!Drop
      BY <2>1 DEF Delete, Promise!Drop, Shown, seen
    <3> QED
      BY <3>1 DEF Promise!Next
  <2>2. CASE Deactivate \/ EditRead \/ EditWrite
    BY <1>1, <2>2 DEF Deactivate, EditRead, EditWrite, table, seen
  <2> QED
    BY <1>7, <2>1, <2>2 DEF Edit
<1> QED
  BY <1>3, <1>4, <1>5, <1>6, <1>7 DEF Next

\* Deliveries implement AtLeastOnce for any number of events, slots and attempts:
\* an event is shown as delivered only once its target has heard of it, and is then
\* neither sent, failed nor given up again unless an admin asks for it
\* (webhook-delivery.ts, the early return for a delivered row).
THEOREM DeliveriesKeepThePromise == Spec => KeepsPromise
<1>1. Spec => [][Promise!Next]_(Promise!vars)
  BY Invariance, PromiseStep, PTL DEF Spec
<1>2. Spec => Promise!Init
  BY PromiseInit DEF Spec
<1> QED
  BY <1>1, <1>2 DEF KeepsPromise, Promise!Spec

-----------------------------------------------------------------------------
(* How often an event is posted.                                             *)

\* A slot at work on a job that it has not posted yet.
Unsent(w) == slot[w].pc \in {"read", "claim", "post"}

Same(i, j) == i.d = j.d /\ i.k = j.k

\* A job is in one place.
Single ==
    /\ \A i, j \in queue : Same(i, j) => i = j
    /\ \A j \in queue, w \in Slots : ~At(w, "idle") => ~Same(slot[w].job, j)
    /\ \A v, w \in Slots : ~At(v, "idle") /\ ~At(w, "idle") /\ Same(slot[v].job, slot[w].job) => v = w

\* A retry's job has one attempt, and its number is that of a retry that was made.
Known(j) ==
    /\ j.k > 0 => j.left = 1
    /\ j.k = 0 => emit[j.d] = "done"
    /\ j.k <= asked[j.d]
    /\ retry[j.d] = "enqueue" => j.k # asked[j.d]

Ids ==
    /\ \A j \in queue : Known(j)
    /\ \A w \in Slots : ~At(w, "idle") => Known(slot[w].job)

\* The retries of an event whose one attempt is still to come.
Spare(d) ==
    {k \in 1 .. MaxRetries :
        \/ retry[d] = "enqueue" /\ k = asked[d]
        \/ \E j \in queue : j.d = d /\ j.k = k
        \/ \E w \in Slots : On(w, d) /\ Unsent(w) /\ slot[w].job.k = k}

\* The event's own job has n attempts yet, wherever it is.
Left(d, n) ==
    \/ n = 0
    \/ emit[d] # "done" /\ n = QueueAttempts
    \/ \E j \in queue : j.d = d /\ j.k = 0 /\ n = j.left
    \/ \E w \in Slots : /\ On(w, d) /\ slot[w].job.k = 0
                        /\ n = IF Unsent(w) THEN slot[w].job.left ELSE slot[w].job.left - 1

\* What was posted and what the jobs may post yet is paid for by the attempts
\* of the event's job, the retries and the faults.
Due(d) == posts[d] + Cardinality(Spare(d))

QueueOk(d) == \A n \in 0 .. QueueAttempts : Left(d, n) => Due(d) + n <= hits[d] + asked[d] + QueueAttempts

\* Somebody may yet claim the row for an attempt.
Claimable(d) ==
    \/ emit[d] # "done"
    \/ /\ Exists(d)
       /\ \/ \E j \in queue : j.d = d
          \/ \E w \in Slots : On(w, d) /\ slot[w].pc \in {"read", "claim", "postpone"}

\* Without a retry the row's counter has counted the posts, and stops at its bound.
RowOk(d) ==
    asked[d] = 0 =>
        /\ posts[d] <= attempts[d] /\ attempts[d] <= MaxAttempts + hits[d]
        /\ Claimable(d) => attempts[d] < MaxAttempts + hits[d]
        /\ \A w \in Slots : On(w, d) =>
              /\ At(w, "claim") => slot[w].n = attempts[d]
              /\ slot[w].pc \in {"post", "giveup", "postpone"} => attempts[d] = slot[w].n + 1
              /\ At(w, "post") => posts[d] < attempts[d]
              /\ At(w, "postpone") => attempts[d] < MaxAttempts

Counted == Single /\ Ids /\ \A d \in Deliveries : QueueOk(d) /\ RowOk(d)

\* How many retries are at hand, when their set shrinks or grows by one.
LEMMA RetryCount ==
    ASSUME NEW S \in SUBSET (1 .. MaxRetries), NEW T \in SUBSET (1 .. MaxRetries)
    PROVE  /\ Cardinality(S) \in Nat
           /\ T \subseteq S => Cardinality(T) <= Cardinality(S)
           /\ \A k : /\ T \subseteq S \cup {k} => Cardinality(T) <= Cardinality(S) + 1
                     /\ k \in S /\ T \subseteq S \ {k} => Cardinality(T) + 1 <= Cardinality(S)
<1>1. IsFiniteSet(1 .. MaxRetries)
  BY AttemptsAssumption, FS_Interval
<1>2. IsFiniteSet(S) /\ IsFiniteSet(T)
  BY <1>1, FS_Subset
<1>3. Cardinality(S) \in Nat /\ Cardinality(T) \in Nat
  BY <1>2, FS_CardinalityType
<1>4. T \subseteq S => Cardinality(T) <= Cardinality(S)
  BY <1>2, FS_Subset
<1>5. ASSUME NEW k, T \subseteq S \cup {k} PROVE Cardinality(T) <= Cardinality(S) + 1
  <2>a. /\ IsFiniteSet(S \cup {k})
        /\ Cardinality(S \cup {k}) = IF k \in S THEN Cardinality(S) ELSE Cardinality(S) + 1
    BY <1>2, FS_AddElement, Zenon
  <2>1. IsFiniteSet(S \cup {k}) /\ Cardinality(S \cup {k}) <= Cardinality(S) + 1
    BY <1>3, <2>a
  <2>2. Cardinality(T) <= Cardinality(S \cup {k}) /\ Cardinality(S \cup {k}) \in Nat
    BY <1>5, <2>1, FS_Subset, FS_CardinalityType
  <2> QED
    BY <1>3, <2>1, <2>2
<1>6. ASSUME NEW k, k \in S, T \subseteq S \ {k} PROVE Cardinality(T) + 1 <= Cardinality(S)
  <2>1. IsFiniteSet(S \ {k}) /\ Cardinality(S \ {k}) = Cardinality(S) - 1
    BY <1>2, <1>3, <1>6, FS_RemoveElement
  <2>2. Cardinality(T) <= Cardinality(S \ {k})
    BY <1>6, <2>1, FS_Subset
  <2> QED
    BY <1>3, <2>1, <2>2
<1> QED
  BY <1>3, <1>4, <1>5, <1>6

LEMMA SingleStep == Inv /\ Single /\ Ids /\ [Next]_vars => Single' /\ Ids'
<1> SUFFICES ASSUME Inv, Single, Ids, [Next]_vars PROVE Single' /\ Ids'
  OBVIOUS
<1> USE DEF Inv, TypeOK
<1>0. \A j \in Job : j.d \in Deliveries /\ j.k \in 0 .. MaxRetries /\ j.left \in 1 .. QueueAttempts
  BY DEF Job
<1>1. ASSUME UNCHANGED <<queue, slot>>,
             \A d \in Deliveries : /\ emit[d] = "done" => emit'[d] = "done"
                                   /\ asked[d] <= asked'[d] /\ asked'[d] \in Nat
                                   /\ retry'[d] = "enqueue" => retry[d] = "enqueue" \/ asked'[d] > asked[d]
                                   /\ retry'[d] = "enqueue" /\ retry[d] = "enqueue" => asked'[d] = asked[d]
      PROVE  Single' /\ Ids'
  <2>1. Single'
    BY <1>1 DEF Single, At
  <2>2. \A j \in Job : Known(j) => Known(j)'
    BY <1>0, <1>1 DEF Known
  <2> QED
    BY <1>1, <2>1, <2>2 DEF Ids, At
<1>2. CASE UNCHANGED vars
  BY <1>1, <1>2 DEF vars, requests, seen
<1>3. ASSUME NEW d \in Deliveries, Emit(d) PROVE Single' /\ Ids'
  <2>1. CASE EmitEnqueue(d)
    <3> DEFINE e == [d |-> d, k |-> 0, left |-> QueueAttempts]
    <3>1. /\ \A j \in queue : j.d = d => j.k # 0
          /\ \A w \in Slots : On(w, d) => slot[w].job.k # 0
      BY <2>1 DEF EmitEnqueue, Ids, Known, On
    <3>2. /\ queue' = queue \cup {e} /\ emit' = [emit EXCEPT ![d] = "done"]
          /\ UNCHANGED <<slot, asked, retry>>
      BY <2>1 DEF EmitEnqueue, Enqueue, seen
    <3>3. e.d = d /\ e.k = 0
      OBVIOUS
    <3>4. Single'
      BY <3>1, <3>2, <3>3 DEF Single, Same, On, At
    <3>5. \A j \in Job : Known(j) => Known(j)'
      BY <1>0, <3>2 DEF Known
    <3>6. Known(e)'
      BY <3>2, <3>3, AttemptsAssumption DEF Known, Rooted
    <3> QED
      BY <3>2, <3>4, <3>5, <3>6 DEF Ids, At
  <2>2. CASE EmitStart(d) \/ EmitCreate(d) \/ EmitFault(d)
    <3>1. /\ \A e \in Deliveries : emit[e] = "done" => emit'[e] = "done"
          /\ UNCHANGED <<queue, slot, asked, retry>>
      BY <2>2 DEF EmitStart, EmitCreate, EmitFault, seen
    <3> QED
      BY <1>1, <3>1
  <2> QED
    BY <1>3, <2>1, <2>2 DEF Emit
<1>4. ASSUME NEW d \in Deliveries, Retry(d) PROVE Single' /\ Ids'
  <2>1. CASE RetryEnqueue(d)
    <3>k. PICK k : k = asked[d]
      OBVIOUS
    <3> DEFINE e == [d |-> d, k |-> k, left |-> 1]
    <3>1. /\ \A j \in queue : j.d = d => j.k # asked[d]
          /\ \A w \in Slots : On(w, d) => slot[w].job.k # asked[d]
      BY <2>1 DEF RetryEnqueue, Ids, Known, On
    <3>2. /\ queue' = queue \cup {e} /\ retry' = [retry EXCEPT ![d] = "idle"]
          /\ UNCHANGED <<slot, asked, emit>>
      BY <2>1, <3>k DEF RetryEnqueue, Enqueue, seen
    <3>3. e.d = d /\ e.k = asked[d] /\ e.left = 1 /\ asked[d] > 0
      BY <2>1, <3>k DEF RetryEnqueue, Rooted
    <3> HIDE DEF e
    <3>4. Single'
      BY <3>1, <3>2, <3>3 DEF Single, Same, On, At
    <3>5. \A j \in Job : Known(j) => Known(j)'
      BY <1>0, <3>2 DEF Known
    <3>6. Known(e)'
      BY <3>2, <3>3 DEF Known
    <3> QED
      BY <3>2, <3>4, <3>5, <3>6 DEF Ids, At
  <2>2. CASE RetryRead(d) \/ RetryReset(d) \/ RetryFault(d)
    <3>1. UNCHANGED <<queue, slot, emit>>
      BY <2>2 DEF RetryRead, RetryReset, RetryFault
    <3>2. \A f \in Deliveries : /\ asked[f] <= asked'[f] /\ asked'[f] \in Nat
                                /\ retry'[f] = "enqueue" => retry[f] = "enqueue" \/ asked'[f] > asked[f]
                                /\ retry'[f] = "enqueue" /\ retry[f] = "enqueue" => asked'[f] = asked[f]
      BY <2>2 DEF RetryRead, RetryReset, RetryFault, seen
    <3> QED
      BY <1>1, <3>1, <3>2
  <2> QED
    BY <1>4, <2>1, <2>2 DEF Retry
<1>5. ASSUME NEW w \in Slots, Work(w) \/ Fault(w) PROVE Single' /\ Ids'
  <2>0. UNCHANGED <<emit, retry, asked>>
    BY <1>5, SlotSteps
  <2>k. \A j \in Job : Known(j)' <=> Known(j)
    BY <2>0 DEF Known
  <2>1. CASE TakeJob(w)
    <3>1. PICK j \in queue : /\ queue' = queue \ {j} /\ slot[w].pc = "idle"
                             /\ slot' = [slot EXCEPT ![w] = [pc |-> "read", job |-> j, n |-> 0]]
      BY <2>1 DEF TakeJob, At
    <3>2. Single'
      BY <3>1 DEF Single, Same, At
    <3> QED
      BY <2>k, <3>1, <3>2 DEF Ids, At
  <2>2. CASE ~At(w, "idle") /\ Goes(w) /\ UNCHANGED queue
    <3>1. \A v \in Slots : At(v, "idle")' <=> At(v, "idle")
      BY <2>2 DEF Goes, Others, At
    <3>2. \A v \in Slots : slot'[v].job = slot[v].job
      BY <2>2 DEF Goes, Others
    <3> QED
      BY <2>2, <2>k, <3>1, <3>2 DEF Single, Ids
  <2>3. CASE ~At(w, "idle") /\ Drops(w)
    <3>1. \A v \in Slots : ~At(v, "idle")' => v # w /\ ~At(v, "idle") /\ slot'[v].job = slot[v].job
      BY <2>3 DEF Drops, Others, At
    <3>2. \A j \in queue' : j \in queue \/ (j \in Job /\ Same(j, slot[w].job) /\ j.left <= slot[w].job.left)
      BY <2>3 DEF Drops, Same
    <3>3. Single'
      BY <2>3, <3>1, <3>2 DEF Single, Same, Drops
    <3>4. \A j \in queue' : Known(j)
      BY <1>0, <2>3, <3>2 DEF Ids, Known, Same
    <3>5. queue' \subseteq Job
      BY <2>3 DEF Drops
    <3> QED
      BY <2>k, <3>1, <3>3, <3>4, <3>5 DEF Ids
  <2> QED
    BY <1>5, <2>1, <2>2, <2>3, SlotSteps
<1>6. CASE Edit
  <2>1. UNCHANGED <<queue, slot, emit, retry, asked>>
    BY <1>6 DEF Edit, Deactivate, EditRead, EditWrite, Delete, requests, seen
  <2> QED
    BY <1>1, <2>1
<1> QED
  BY <1>2, <1>3, <1>4, <1>5, <1>6 DEF Next

LEMMA SpareCount ==
    ASSUME TypeOK, TypeOK', NEW d \in Deliveries
    PROVE  /\ Cardinality(Spare(d)) \in Nat /\ Cardinality(Spare(d))' \in Nat
           /\ Spare(d)' \subseteq Spare(d) => Cardinality(Spare(d))' <= Cardinality(Spare(d))
           /\ \A k : /\ Spare(d)' \subseteq Spare(d) \cup {k} => Cardinality(Spare(d))' <= Cardinality(Spare(d)) + 1
                     /\ k \in Spare(d) /\ Spare(d)' \subseteq Spare(d) \ {k}
                           => Cardinality(Spare(d))' + 1 <= Cardinality(Spare(d))
<1>1. Spare(d) \in SUBSET (1 .. MaxRetries) /\ Spare(d)' \in SUBSET (1 .. MaxRetries)
  BY DEF Spare
<1> QED
  BY <1>1, RetryCount

\* The budget is kept where the retries at hand grow by g at most, and whoever has
\* n attempts after the step had as many, and those that the step has cost.
LEMMA QueueKept ==
    ASSUME TypeOK, TypeOK', NEW d \in Deliveries, QueueOk(d), NEW g \in Int,
           Cardinality(Spare(d))' <= Cardinality(Spare(d)) + g,
           \A n \in 0 .. QueueAttempts : Left(d, n)' =>
               \E m \in 0 .. QueueAttempts :
                  /\ Left(d, m)
                  /\ posts'[d] + g + n + hits[d] + asked[d] <= posts[d] + m + hits'[d] + asked'[d]
    PROVE  QueueOk(d)'
<1>1. /\ posts[d] \in Nat /\ hits[d] \in Nat /\ asked[d] \in Nat
      /\ posts'[d] \in Nat /\ hits'[d] \in Nat /\ asked'[d] \in Nat
  BY AttemptsAssumption DEF TypeOK
<1>2. Cardinality(Spare(d)) \in Nat /\ Cardinality(Spare(d))' \in Nat
  BY SpareCount
<1>3. ASSUME NEW n \in 0 .. QueueAttempts, Left(d, n)'
      PROVE  (Due(d) + n <= hits[d] + asked[d] + QueueAttempts)'
  <2>1. PICK m \in 0 .. QueueAttempts :
           /\ Left(d, m)
           /\ posts'[d] + g + n + hits[d] + asked[d] <= posts[d] + m + hits'[d] + asked'[d]
    BY <1>3
  <2>2. posts[d] + Cardinality(Spare(d)) + m <= hits[d] + asked[d] + QueueAttempts
    BY <2>1 DEF QueueOk, Due
  <2> QED
    BY <1>1, <1>2, <2>1, <2>2, AttemptsAssumption DEF Due
<1> QED
  BY <1>3 DEF QueueOk

\* Where a slot is not at work on an event, its step is nothing to it.
LEMMA QueueOthers ==
    ASSUME TypeOK, TypeOK', NEW d \in Deliveries, QueueOk(d), UNCHANGED <<emit, retry, asked>>,
           posts'[d] = posts[d], hits'[d] = hits[d], NEW w \in Slots, Others(w), ~On(w, d), ~On(w, d)',
           \A j \in queue' : j.d = d => j \in queue
    PROVE  QueueOk(d)'
<1>1. \A v \in Slots : On(v, d)' => /\ On(v, d) /\ slot'[v].job = slot[v].job
                                    /\ Unsent(v)' <=> Unsent(v)
  BY DEF On, At, Others, Unsent
<1>2. Spare(d)' \subseteq Spare(d)
  BY <1>1 DEF Spare
<1>3. \A n : Left(d, n)' => Left(d, n)
  BY <1>1 DEF Left
<1>4. /\ posts[d] \in Nat /\ hits[d] \in Nat /\ asked[d] \in Nat
  BY AttemptsAssumption DEF TypeOK
<1>5. Cardinality(Spare(d))' <= Cardinality(Spare(d)) + 0
  BY <1>2, SpareCount
<1> QED
  BY <1>3, <1>4, <1>5, QueueKept

LEMMA QueueRequests ==
    ASSUME TypeOK, TypeOK', Rooted, Ids, NEW d \in Deliveries, Emit(d) \/ Retry(d), NEW e \in Deliveries, QueueOk(e)
    PROVE  QueueOk(e)'
<1>0. /\ posts[e] \in Nat /\ hits[e] \in Nat /\ asked[e] \in Nat
      /\ posts' = posts /\ slot' = slot /\ QueueAttempts \in Nat
  <2>1. posts' = posts /\ slot' = slot
    BY DEF Emit, EmitStart, EmitCreate, EmitEnqueue, EmitFault, Retry, RetryRead, RetryReset,
           RetryEnqueue, RetryFault, seen
  <2> QED
    BY <2>1, AttemptsAssumption DEF TypeOK
<1>s. \A v \in Slots : /\ On(v, e)' <=> On(v, e)
                       /\ Unsent(v)' <=> Unsent(v)
  BY <1>0 DEF On, At, Unsent
<1>1. ASSUME Spare(e)' \subseteq Spare(e), asked'[e] = asked[e], hits'[e] \in Nat, hits[e] <= hits'[e],
             \A n : Left(e, n)' => Left(e, n)
      PROVE  QueueOk(e)'
  <2>1. Cardinality(Spare(e))' <= Cardinality(Spare(e)) + 0
    BY <1>1, SpareCount
  <2> QED
    BY <1>0, <1>1, <2>1, QueueKept
<1>h. hits'[e] \in Nat /\ hits[e] <= hits'[e]
  BY DEF TypeOK, Emit, EmitStart, EmitCreate, EmitEnqueue, EmitFault, Retry, RetryRead, RetryReset,
         RetryEnqueue, RetryFault, Faulty, seen
<1>2. CASE EmitEnqueue(d)
  <2>1. /\ queue' = queue \cup {[d |-> d, k |-> 0, left |-> QueueAttempts]}
        /\ emit[d] = "enqueue" /\ emit' = [emit EXCEPT ![d] = "done"] /\ UNCHANGED <<asked, retry>>
    BY <1>2 DEF EmitEnqueue, Enqueue, seen
  <2>2. Spare(e)' \subseteq Spare(e)
    BY <1>0, <1>s, <2>1 DEF Spare
  <2>3. \A n : Left(e, n)' => Left(e, n)
    <3> TAKE n
    <3>1. \A j \in queue' \ queue : j.d = d /\ j.k = 0 /\ j.left = QueueAttempts
      BY <2>1
    <3>2. emit'[e] # "done" => emit[e] # "done"
      BY <2>1 DEF TypeOK
    <3> QED
      BY <1>0, <1>s, <2>1, <3>1, <3>2 DEF Left
  <2> QED
    BY <1>1, <1>h, <2>1, <2>2, <2>3
<1>3. CASE EmitStart(d) \/ EmitCreate(d) \/ EmitFault(d)
  <2>1. /\ UNCHANGED <<queue, asked, retry>>
        /\ emit'[e] # "done" => emit[e] # "done"
    BY <1>3 DEF EmitStart, EmitCreate, EmitFault, TypeOK, seen
  <2>2. Spare(e)' \subseteq Spare(e)
    BY <1>0, <1>s, <2>1 DEF Spare
  <2>3. \A n : Left(e, n)' => Left(e, n)
    BY <1>0, <1>s, <2>1 DEF Left
  <2> QED
    BY <1>1, <1>h, <2>1, <2>2, <2>3
<1>4. CASE RetryEnqueue(d)
  <2>1. /\ queue' = queue \cup {[d |-> d, k |-> asked[d], left |-> 1]} /\ asked[d] > 0
        /\ retry[d] = "enqueue" /\ retry' = [retry EXCEPT ![d] = "idle"] /\ UNCHANGED <<asked, emit>>
    BY <1>4 DEF RetryEnqueue, Enqueue, Rooted, seen
  <2>2. \A j \in queue' \ queue : j.d = d /\ j.k = asked[d] /\ j.k # 0
    BY <2>1
  <2>a. retry'[e] = "enqueue" => retry[e] = "enqueue"
    BY <2>1 DEF TypeOK
  <2>3. Spare(e)' \subseteq Spare(e)
    BY <1>0, <1>s, <2>1, <2>2, <2>a DEF Spare
  <2>4. \A n : Left(e, n)' => Left(e, n)
    BY <1>0, <1>s, <2>1, <2>2 DEF Left
  <2> QED
    BY <1>1, <1>h, <2>1, <2>3, <2>4
<1>5. CASE RetryReset(d) /\ Exists(d) /\ e = d
  <2>1. /\ UNCHANGED <<queue, emit, hits>>
        /\ asked'[e] = asked[e] + 1
    BY <1>5 DEF RetryReset, TypeOK
  <2>2. Spare(e)' \subseteq Spare(e) \cup {asked'[e]}
    BY <1>0, <1>s, <2>1 DEF Spare
  <2>3. \A n : Left(e, n)' => Left(e, n)
    BY <1>0, <1>s, <2>1 DEF Left
  <2>4. Cardinality(Spare(e))' <= Cardinality(Spare(e)) + 1
    BY <2>2, SpareCount
  <2> QED
    BY <1>0, <2>1, <2>3, <2>4, QueueKept
<1>6. CASE RetryRead(d) \/ RetryFault(d) \/ (RetryReset(d) /\ ~(Exists(d) /\ e = d))
  <2>1. /\ UNCHANGED <<queue, emit>> /\ asked'[e] = asked[e]
        /\ retry'[e] = "enqueue" => retry[e] = "enqueue"
    BY <1>6 DEF RetryRead, RetryFault, RetryReset, TypeOK, seen
  <2>2. Spare(e)' \subseteq Spare(e)
    BY <1>0, <1>s, <2>1 DEF Spare
  <2>3. \A n : Left(e, n)' => Left(e, n)
    BY <1>0, <1>s, <2>1 DEF Left
  <2> QED
    BY <1>1, <1>h, <2>1, <2>2, <2>3
<1> QED
  BY <1>2, <1>3, <1>4, <1>5, <1>6 DEF Emit, Retry

\* A job that is back has an attempt less.
LEMMA FailedJob ==
    ASSUME TypeOK, Ids, NEW w \in Slots, ~At(w, "idle"), FailAttempt(w)
    PROVE  /\ Others(w) /\ At(w, "idle")'
           /\ \A i \in queue' \ queue : /\ i.d = slot[w].job.d /\ i.k = 0 /\ slot[w].job.k = 0
                                        /\ i.left = slot[w].job.left - 1
<1>1. slot[w].job \in Job /\ Known(slot[w].job)
  BY DEF TypeOK, Ids
<1>2. Others(w) /\ At(w, "idle")'
  BY DEF FailAttempt, Others, At, Idle, TypeOK
<1>3. ASSUME NEW j \in Job, Known(j), j.left > 1, NEW i, i = [j EXCEPT !.left = @ - 1]
      PROVE  i.d = j.d /\ i.k = 0 /\ j.k = 0 /\ i.left = j.left - 1
  BY <1>3, AttemptsAssumption DEF Job, Known
<1> QED
  BY <1>1, <1>2, <1>3 DEF FailAttempt

LEMMA QueueSlots ==
    ASSUME TypeOK, TypeOK', Single, Ids, NEW w \in Slots, Work(w) \/ Fault(w), NEW d \in Deliveries, QueueOk(d)
    PROVE  QueueOk(d)'
<1>0. /\ UNCHANGED <<emit, retry, asked>>
      /\ posts[d] \in Nat /\ hits[d] \in Nat /\ asked[d] \in Nat /\ QueueAttempts \in Nat
      /\ posts'[d] \in Nat /\ hits'[d] \in Nat
  BY SlotSteps, AttemptsAssumption DEF TypeOK
<1>1. ASSUME Spare(d)' \subseteq Spare(d), posts'[d] = posts[d], hits[d] <= hits'[d],
             \A n \in 0 .. QueueAttempts : Left(d, n)' => \E m \in 0 .. QueueAttempts : n <= m /\ Left(d, m)
      PROVE  QueueOk(d)'
  <2>1. Cardinality(Spare(d))' <= Cardinality(Spare(d)) + 0
    BY <1>1, SpareCount
  <2>2. \A n \in 0 .. QueueAttempts : Left(d, n)' =>
           \E m \in 0 .. QueueAttempts :
              /\ Left(d, m)
              /\ posts'[d] + 0 + n + hits[d] + asked[d] <= posts[d] + m + hits'[d] + asked'[d]
    BY <1>0, <1>1
  <2> QED
    BY <2>1, <2>2, QueueKept
<1>2. CASE TakeJob(w)
  <2>1. PICK j \in queue : /\ queue' = queue \ {j} /\ slot[w].pc = "idle"
                           /\ slot' = [slot EXCEPT ![w] = [pc |-> "read", job |-> j, n |-> 0]]
    BY <1>2 DEF TakeJob, At
  <2>2. posts' = posts /\ hits' = hits
    BY <1>2 DEF TakeJob, seen
  <2>3. /\ \A v \in Slots \ {w} : slot'[v] = slot[v]
        /\ slot'[w].pc = "read" /\ slot'[w].job = j /\ ~On(w, d)
    BY <2>1 DEF TypeOK, On, At
  <2>4. \A v \in Slots : On(v, d)' => \/ v = w /\ j.d = d
                                      \/ /\ On(v, d) /\ slot'[v].job = slot[v].job
                                         /\ Unsent(v)' <=> Unsent(v)
    BY <2>3 DEF On, At, Unsent
  <2>5. Spare(d)' \subseteq Spare(d)
    BY <1>0, <2>1, <2>3, <2>4 DEF Spare
  <2>6. Unsent(w)'
    BY <2>3 DEF Unsent
  <2>7. \A n : Left(d, n)' => Left(d, n)
    BY <1>0, <2>1, <2>3, <2>4, <2>6 DEF Left
  <2> QED
    BY <1>0, <1>1, <2>2, <2>5, <2>7
<1> DEFINE j == slot[w].job
<1>3. ~At(w, "idle") => /\ j \in Job /\ Known(j) /\ j.d \in Deliveries /\ j.left \in 1 .. QueueAttempts
                        /\ j.k \in 0 .. MaxRetries /\ j.left - 1 \in 0 .. QueueAttempts
  BY AttemptsAssumption DEF TypeOK, Ids, Job
<1>4. CASE Read(w) \/ Shelve(w) \/ Claim(w) \/ Deliver(w) \/ GiveUp(w) \/ Bump(w) \/ Disable(w)
  <2>1. /\ ~At(w, "idle") /\ Goes(w) /\ queue' = queue
        /\ posts' = posts /\ hits' = hits
    <3>1. ~At(w, "idle") /\ posts' = posts /\ hits' = hits /\ ~At(w, "idle")'
      BY <1>4 DEF Read, Shelve, Claim, Deliver, GiveUp, Bump, Disable, Goto, At, TypeOK, seen
    <3> QED
      BY <1>4, <3>1, SlotSteps DEF TakeJob, Drops
  <2>2. Unsent(w)' => Unsent(w)
    BY <1>4 DEF Read, Shelve, Claim, Deliver, GiveUp, Bump, Disable, Goto, At, TypeOK, Unsent
  <2>3. \A v \in Slots : On(v, d)' => /\ On(v, d) /\ slot'[v].job = slot[v].job
                                      /\ Unsent(v)' => Unsent(v)
                                      /\ v # w => (Unsent(v)' <=> Unsent(v))
    BY <2>1, <2>2 DEF Goes, Others, On, At, Unsent
  <2>4. Spare(d)' \subseteq Spare(d)
    BY <1>0, <2>1, <2>3 DEF Spare
  <2>5. ASSUME NEW n \in 0 .. QueueAttempts, Left(d, n)'
        PROVE  \E m \in 0 .. QueueAttempts : n <= m /\ Left(d, m)
    <3>1. CASE Left(d, n)
      BY <3>1
    <3>2. CASE On(w, d) /\ j.k = 0 /\ Unsent(w) /\ ~Unsent(w)' /\ n = j.left - 1
      <4>1. Left(d, j.left)
        BY <3>2 DEF Left
      <4> QED
        BY <1>3, <3>2, <4>1 DEF On
    <3> QED
      BY <1>0, <2>1, <2>3, <2>5, <3>1, <3>2 DEF Left, Goes
  <2> QED
    BY <1>0, <1>1, <2>1, <2>4, <2>5
<1>5. CASE Post(w)
  <2>1. /\ At(w, "post") /\ Goes(w) /\ queue' = queue /\ hits' = hits
        /\ posts' = [posts EXCEPT ![j.d] = @ + 1] /\ ~Unsent(w)'
    <3>1. /\ At(w, "post") /\ hits' = hits /\ posts' = [posts EXCEPT ![j.d] = @ + 1]
          /\ \E pc \in {"deliver", "giveup", "postpone"} : slot' = [slot EXCEPT ![w].pc = pc]
      BY <1>5 DEF Post, AfterFailure, Goto
    <3>2. Goes(w) /\ ~Unsent(w)'
      BY <3>1 DEF Goes, Others, At, Unsent, TypeOK
    <3> QED
      BY <1>5, <3>1, <3>2 DEF Post
  <2>2. Unsent(w) /\ ~At(w, "idle")
    BY <2>1 DEF At, Unsent
  <2>3. \A v \in Slots : On(v, d)' => /\ On(v, d) /\ slot'[v].job = slot[v].job
                                      /\ v # w => (Unsent(v)' <=> Unsent(v))
    BY <2>1 DEF Goes, Others, On, At, Unsent
  <2>4. CASE j.d # d
    <3>1. ~On(w, d) /\ ~On(w, d)' /\ posts'[d] = posts[d]
      BY <2>1, <2>4 DEF On, Goes, TypeOK
    <3> QED
      BY <1>0, <2>1, <3>1, QueueOthers DEF Goes
  <2>5. CASE j.d = d /\ j.k # 0
    <3>1. posts'[d] = posts[d] + 1
      BY <2>1, <2>5 DEF TypeOK
    <3>2. On(w, d) /\ j.k \in Spare(d)
      BY <1>3, <2>2, <2>5 DEF Spare, On
    <3>3. /\ \A i \in queue : i.d = d => i.k # j.k
          /\ \A v \in Slots : On(v, d) /\ slot[v].job.k = j.k => v = w
          /\ retry[d] = "enqueue" => asked[d] # j.k
      BY <1>3, <2>2, <2>5 DEF Single, Same, On, Known
    <3>4. Spare(d)' \subseteq Spare(d) \ {j.k}
      BY <1>0, <2>1, <2>3, <3>3 DEF Spare
    <3>5. Cardinality(Spare(d))' <= Cardinality(Spare(d)) + (-1)
      BY <3>2, <3>4, SpareCount
    <3>6. \A n : Left(d, n)' => Left(d, n)
      BY <1>0, <2>1, <2>3, <2>5 DEF Left, Goes
    <3> QED
      BY <1>0, <2>1, <3>1, <3>5, <3>6, QueueKept
  <2>6. CASE j.d = d /\ j.k = 0
    <3>1. posts'[d] = posts[d] + 1
      BY <2>1, <2>6 DEF TypeOK
    <3>2. /\ emit[d] = "done"
          /\ \A i \in queue : i.d = d => i.k # 0
          /\ \A v \in Slots : On(v, d) /\ slot[v].job.k = 0 => v = w
      BY <1>3, <2>2, <2>6 DEF Single, Same, On, Known
    <3>3. Spare(d)' \subseteq Spare(d)
      BY <1>0, <2>1, <2>2, <2>3 DEF Spare
    <3>4. Cardinality(Spare(d))' <= Cardinality(Spare(d)) + 0
      BY <3>3, SpareCount
    <3>5. Left(d, j.left)
      BY <2>2, <2>6 DEF Left, On
    <3>6. \A n : Left(d, n)' => n = 0 \/ n = j.left - 1
      BY <1>0, <2>1, <2>3, <3>2 DEF Left
    <3>7. \A n \in 0 .. QueueAttempts : Left(d, n)' => n + 1 <= j.left
      BY <1>3, <2>2, <3>6
    <3> HIDE DEF j
    <3> QED
      BY <1>0, <1>3, <2>1, <2>2, <3>1, <3>4, <3>5, <3>7, QueueKept
  <2> QED
    BY <2>4, <2>5, <2>6
<1>6. ASSUME ~At(w, "idle"), Others(w), At(w, "idle")', posts' = posts, hits[d] <= hits'[d],
             \A i \in queue' \ queue : i.d = j.d /\ i.k = 0 /\ j.k = 0 /\ i.left = j.left - 1
      PROVE  QueueOk(d)'
  <2>1. \A v \in Slots : On(v, d)' => /\ v # w /\ On(v, d) /\ slot'[v].job = slot[v].job
                                      /\ Unsent(v)' <=> Unsent(v)
    BY <1>6 DEF Others, On, At, Unsent
  <2>2. Spare(d)' \subseteq Spare(d)
    BY <1>0, <1>6, <2>1 DEF Spare
  <2>3. ASSUME NEW n \in 0 .. QueueAttempts, Left(d, n)'
        PROVE  \E m \in 0 .. QueueAttempts : n <= m /\ Left(d, m)
    <3>1. CASE Left(d, n)
      BY <3>1
    <3>2. CASE On(w, d) /\ j.k = 0 /\ n = j.left - 1
      <4>1. Left(d, j.left) \/ Left(d, j.left - 1)
        BY <3>2 DEF Left
      <4> QED
        BY <1>3, <1>6, <3>2, <4>1
    <3>3. ASSUME NEW i \in queue', i.d = d, i.k = 0, n = i.left PROVE Left(d, n) \/ (On(w, d) /\ j.k = 0 /\ n = j.left - 1)
      BY <1>6, <3>3 DEF Left, On
    <3> QED
      BY <1>0, <2>1, <2>3, <3>1, <3>2, <3>3 DEF Left
  <2> QED
    BY <1>1, <1>6, <2>2, <2>3
<1>7. CASE Missing(w) \/ Postpone(w)
  <2>1. ~At(w, "idle") /\ FailAttempt(w) /\ posts' = posts /\ hits' = hits
    BY <1>7 DEF Missing, Postpone, At, seen
  <2> QED
    BY <1>0, <1>6, <2>1, FailedJob
<1>8. CASE Finish(w)
  <2>1. ~At(w, "idle") /\ Others(w) /\ At(w, "idle")' /\ posts' = posts /\ hits' = hits /\ queue' = queue
    BY <1>8 DEF Finish, At, Others, Idle, TypeOK, seen
  <2> QED
    BY <1>0, <1>6, <2>1
<1>9. CASE Fault(w)
  <2>1. /\ ~At(w, "idle") /\ posts' = posts
        /\ hits' = [hits EXCEPT ![j.d] = @ + 1]
    BY <1>9 DEF Fault, Faulty
  <2>2. hits[d] <= hits'[d] /\ (j.d = d => hits'[d] = hits[d] + 1)
    BY <2>1 DEF TypeOK
  <2>3. CASE FailAttempt(w)
    BY <1>6, <2>1, <2>2, <2>3, FailedJob
  <2>4. CASE queue' = queue \cup {j} /\ slot' = [slot EXCEPT ![w] = Idle]
    <3>1. Others(w) /\ At(w, "idle")'
      BY <2>4 DEF Others, At, Idle, TypeOK
    <3>2. \A v \in Slots : On(v, d)' => /\ v # w /\ On(v, d) /\ slot'[v].job = slot[v].job
                                        /\ Unsent(v)' <=> Unsent(v)
      BY <3>1 DEF Others, On, At, Unsent
    <3>3. CASE j.d # d
      <4>1. ~On(w, d) /\ ~On(w, d)' /\ hits'[d] = hits[d]
        BY <2>1, <3>1, <3>3 DEF On, At, TypeOK
      <4> QED
        BY <1>0, <2>1, <2>4, <3>1, <3>3, <4>1, QueueOthers
    <3>4. CASE j.d = d /\ j.k # 0
      <4>1. Spare(d)' \subseteq Spare(d) \cup {j.k}
        BY <1>0, <2>4, <3>2 DEF Spare
      <4>2. Cardinality(Spare(d))' <= Cardinality(Spare(d)) + 1
        BY <4>1, SpareCount
      <4>3. \A n : Left(d, n)' => Left(d, n)
        BY <1>0, <2>4, <3>2, <3>4 DEF Left
      <4> QED
        BY <1>0, <2>1, <2>2, <3>4, <4>2, <4>3, QueueKept
    <3>5. CASE j.d = d /\ j.k = 0
      <4>1. Spare(d)' \subseteq Spare(d)
        BY <1>0, <2>4, <3>2, <3>5 DEF Spare
      <4>2. Cardinality(Spare(d))' <= Cardinality(Spare(d)) + 0
        BY <4>1, SpareCount
      <4>3. Left(d, j.left) \/ Left(d, j.left - 1)
        BY <2>1, <3>5 DEF Left, On
      <4>4. \A n : Left(d, n)' => Left(d, n) \/ n = j.left
        BY <1>0, <2>4, <3>2, <3>5 DEF Left
      <4> HIDE DEF j
      <4>5. \A n \in 0 .. QueueAttempts : Left(d, n)' => \E m \in 0 .. QueueAttempts : Left(d, m) /\ n <= m + 1
        BY <1>3, <2>1, <4>3, <4>4
      <4> QED
        BY <1>0, <2>1, <2>2, <3>5, <4>2, <4>5, QueueKept
    <3> QED
      BY <3>3, <3>4, <3>5
  <2> QED
    BY <1>9, <2>3, <2>4 DEF Fault
<1> QED
  BY <1>2, <1>4, <1>5, <1>7, <1>8, <1>9 DEF Work

\* What leaves an event's row and its slots alone, and gives nobody a claim to it.
LEMMA RowStays ==
    ASSUME TypeOK, TypeOK', NEW d \in Deliveries, RowOk(d), asked'[d] = 0 => asked[d] = 0,
           asked[d] = 0 => /\ posts'[d] = posts[d] /\ attempts'[d] = attempts[d] /\ hits[d] <= hits'[d]
                           /\ Claimable(d)' => Claimable(d) \/ hits[d] < hits'[d]
                           /\ \A w \in Slots : On(w, d)' => (On(w, d) /\ slot'[w] = slot[w]) \/ At(w, "read")'
    PROVE  RowOk(d)'
<1> SUFFICES ASSUME asked'[d] = 0 PROVE RowOk(d)'
  BY DEF RowOk
<1>1. /\ hits[d] \in Nat /\ hits'[d] \in Nat /\ attempts[d] \in Nat /\ posts[d] \in Nat /\ MaxAttempts \in Nat
      /\ posts'[d] = posts[d] /\ attempts'[d] = attempts[d] /\ hits[d] <= hits'[d]
  BY AttemptsAssumption DEF TypeOK
<1>2. posts'[d] <= attempts'[d] /\ attempts'[d] <= MaxAttempts + hits'[d]
  BY <1>1 DEF RowOk
<1>3. Claimable(d)' => attempts'[d] < MaxAttempts + hits'[d]
  BY <1>1 DEF RowOk
<1>4. ASSUME NEW w \in Slots, On(w, d)'
      PROVE  /\ At(w, "claim")' => slot'[w].n = attempts'[d]
             /\ slot'[w].pc \in {"post", "giveup", "postpone"} => attempts'[d] = slot'[w].n + 1
             /\ At(w, "post")' => posts'[d] < attempts'[d]
             /\ At(w, "postpone")' => attempts'[d] < MaxAttempts
  BY <1>1, <1>4 DEF RowOk, At
<1> QED
  BY <1>2, <1>3, <1>4 DEF RowOk

LEMMA RowRequests ==
    ASSUME Inv, TypeOK', NEW d \in Deliveries, Emit(d) \/ Retry(d), NEW e \in Deliveries, RowOk(e)
    PROVE  RowOk(e)'
<1> USE DEF Inv, TypeOK
<1>1. /\ UNCHANGED <<slot, posts>> /\ hits[e] <= hits'[e] /\ (asked'[e] = 0 => asked[e] = 0)
  BY DEF Emit, EmitStart, EmitCreate, EmitEnqueue, EmitFault, Retry, RetryRead, RetryReset,
         RetryEnqueue, RetryFault, Faulty, seen
<1>2. \A w \in Slots : On(w, e)' => On(w, e) /\ slot'[w] = slot[w]
  BY <1>1 DEF On, At
<1>3. CASE Emit(d)
  <2>1. attempts' = attempts
    BY <1>3 DEF Emit, EmitStart, EmitCreate, EmitEnqueue, EmitFault, table
  <2>2. Claimable(e)' => Claimable(e)
    <3>1. d = e => emit[e] # "done"
      BY <1>3 DEF Emit, EmitStart, EmitCreate, EmitEnqueue, EmitFault
    <3>2. d # e => /\ emit'[e] = emit[e] /\ (Exists(e)' => Exists(e))
                   /\ \A j \in queue' : j.d = e => j \in queue
      BY <1>3 DEF Emit, EmitStart, EmitCreate, EmitEnqueue, EmitFault, Enqueue, Show, Exists, table
    <3> QED
      BY <1>2, <3>1, <3>2 DEF Claimable
  <2> QED
    BY <1>1, <1>2, <2>1, <2>2, RowStays
<1>4. CASE Retry(d)
  <2>1. CASE RetryReset(d) /\ Exists(d)
    <3>1. d = e => asked'[e] # 0
      BY <2>1 DEF RetryReset
    <3>2. d # e => /\ attempts'[e] = attempts[e] /\ emit'[e] = emit[e] /\ (Exists(e)' => Exists(e))
                   /\ queue' = queue
      BY <2>1 DEF RetryReset, Show, Exists
    <3>3. d # e => (Claimable(e)' => Claimable(e))
      BY <1>2, <3>2 DEF Claimable
    <3>4. CASE d = e
      BY <3>1, <3>4 DEF RowOk
    <3>5. CASE d # e
      BY <1>1, <1>2, <3>2, <3>3, <3>5, RowStays
    <3> QED
      BY <3>4, <3>5
  <2>2. CASE ~(RetryReset(d) /\ Exists(d))
    <3>1. /\ UNCHANGED <<table, emit>> /\ (RetryEnqueue(d) \/ queue' = queue)
      BY <1>4, <2>2 DEF Retry, RetryRead, RetryReset, RetryEnqueue, RetryFault
    <3>2. RetryEnqueue(d) => asked[d] # 0
      BY DEF RetryEnqueue, Rooted
    <3>3. asked[e] = 0 => \A j \in queue' : j.d = e => j \in queue
      BY <3>1, <3>2 DEF RetryEnqueue, Enqueue
    <3>4. asked[e] = 0 => (Claimable(e)' => Claimable(e))
      BY <1>2, <3>1, <3>3 DEF Claimable, Exists, table
    <3> QED
      BY <1>1, <1>2, <3>1, <3>4, RowStays DEF table
  <2> QED
    BY <2>1, <2>2
<1> QED
  BY <1>3, <1>4

LEMMA RowSlots ==
    ASSUME Inv, TypeOK', NEW w \in Slots, Work(w) \/ Fault(w), NEW d \in Deliveries, RowOk(d)
    PROVE  RowOk(d)'
<1> USE DEF Inv, TypeOK
<1>0. UNCHANGED <<emit, retry, asked>>
  BY SlotSteps
<1> SUFFICES ASSUME asked[d] = 0 PROVE RowOk(d)'
  BY <1>0 DEF RowOk
<1>1. /\ posts[d] \in Nat /\ hits[d] \in Nat /\ attempts[d] \in Nat /\ posts'[d] \in Nat /\ hits'[d] \in Nat
      /\ attempts'[d] \in Nat /\ MaxAttempts \in Nat /\ slot[w].n \in Nat
  BY AttemptsAssumption
<1>2. \A v \in Slots \ {w} : slot'[v] = slot[v]
  BY SlotSteps DEF TakeJob, Goes, Drops, Others
<1>3. \A v \in Slots \ {w} : On(v, d)' <=> On(v, d)
  BY <1>2 DEF On, At
<1>4. CASE TakeJob(w)
  <2>1. PICK j \in queue : queue' = queue \ {j} /\ slot' = [slot EXCEPT ![w] = [pc |-> "read", job |-> j, n |-> 0]]
    BY <1>4 DEF TakeJob
  <2>2. UNCHANGED <<table, seen>>
    BY <1>4 DEF TakeJob
  <2>3. slot'[w].pc = "read" /\ slot'[w].job = j
    BY <2>1
  <2>4. On(w, d)' => j.d = d
    BY <2>3 DEF On
  <2>5. Claimable(d)' => Claimable(d)
    BY <1>0, <1>2, <1>3, <2>1, <2>2, <2>4 DEF Claimable, Exists, table
  <2> QED
    BY <1>0, <1>2, <1>3, <2>2, <2>3, <2>5, RowStays DEF table, seen, At
<1>5. CASE ~On(w, d) /\ ~At(w, "idle")
  <2>1. slot[w].job.d # d /\ slot[w].job.d \in Deliveries
    BY <1>5 DEF On, Job
  <2>2. /\ posts'[d] = posts[d] /\ hits'[d] = hits[d] /\ attempts'[d] = attempts[d] /\ status'[d] = status[d]
    BY <1>5, <2>1 DEF Work, Fault, Faulty, TakeJob, Read, Missing, Shelve, Claim, Post, Deliver, GiveUp, Bump,
           Disable, Postpone, Finish, Show, table, seen
  <2>3. ~On(w, d)' /\ \A j \in queue' : j.d = d => j \in queue
    BY <1>5, <2>1, SlotSteps DEF TakeJob, Goes, Drops, On, At
  <2>4. Claimable(d)' => Claimable(d)
    BY <1>0, <1>2, <1>3, <2>2, <2>3 DEF Claimable, Exists
  <2> QED
    BY <1>0, <1>2, <1>3, <2>2, <2>3, <2>4, RowStays
<1>6. CASE On(w, d)
  <2>0. /\ slot[w].job.d = d /\ ~At(w, "idle") /\ emit[d] = "done"
        /\ \A j \in queue : j.d # d
        /\ \A v \in Slots \ {w} : ~On(v, d) /\ ~On(v, d)'
    BY <1>3, <1>6 DEF Alone, On
  <2>1. ASSUME queue' = queue, ~On(w, d)' \/ slot'[w].pc \notin {"read", "claim", "postpone"}
        PROVE  ~Claimable(d)'
    BY <1>0, <2>0, <2>1 DEF Claimable
  <2>2. CASE Read(w)
    <3>1. /\ UNCHANGED <<table, seen, queue>> /\ At(w, "read")
          /\ slot' = [slot EXCEPT ![w].n = attempts[d],
                                  ![w].pc = IF status[d] \in {"none", "delivered"} THEN "done"
                                            ELSE IF active THEN "claim" ELSE "shelve"]
      BY <2>0, <2>2 DEF Read
    <3>2. slot'[w].n = attempts[d] /\ slot'[w].pc \in {"done", "claim", "shelve"}
      BY <3>1
    <3>3. Claimable(d)' => Claimable(d)
      BY <1>0, <1>6, <2>0, <3>1 DEF Claimable, Exists, At, table
    <3>4. /\ posts'[d] <= attempts'[d] /\ attempts'[d] <= MaxAttempts + hits'[d]
          /\ Claimable(d)' => attempts'[d] < MaxAttempts + hits'[d]
      BY <3>1, <3>3 DEF RowOk, table, seen
    <3>5. \A v \in Slots : On(v, d)' => v = w
      BY <2>0
    <3> QED
      BY <3>1, <3>2, <3>4, <3>5 DEF RowOk, At, table
  <2>3. CASE Claim(w)
    <3>1. /\ UNCHANGED <<seen, queue>> /\ At(w, "claim") /\ Exists(d)
          /\ attempts' = [attempts EXCEPT ![d] = slot[w].n + 1]
          /\ slot' = [slot EXCEPT ![w].pc = "post"]
      BY <2>0, <2>3 DEF Claim, Goto
    <3>2. slot'[w].n = slot[w].n /\ slot'[w].pc = "post" /\ attempts'[d] = slot[w].n + 1
      BY <3>1
    <3>3. ~Claimable(d)'
      BY <2>1, <3>1, <3>2
    <3>4. slot[w].n = attempts[d] /\ attempts[d] < MaxAttempts + hits[d] /\ posts[d] <= attempts[d]
      BY <1>6, <3>1 DEF RowOk, Claimable, At
    <3>5. /\ posts'[d] < attempts'[d] /\ attempts'[d] <= MaxAttempts + hits'[d]
      BY <1>1, <3>1, <3>2, <3>4 DEF seen
    <3>6. \A v \in Slots : On(v, d)' => v = w
      BY <2>0
    <3> QED
      BY <1>1, <3>2, <3>3, <3>5, <3>6 DEF RowOk, At
  <2>4. CASE Post(w)
    <3>1. /\ UNCHANGED <<table, asked, hits, queue>> /\ At(w, "post") /\ posts'[d] = posts[d] + 1
          /\ \/ Goto(w, "deliver") \/ Goto(w, "giveup") \/ Goto(w, AfterFailure(w))
      BY <2>0, <2>4 DEF Post
    <3>2. slot'[w].n = slot[w].n /\ slot'[w].pc \in {"deliver", "giveup", "postpone"}
      BY <3>1 DEF Goto, AfterFailure
    <3>3. attempts[d] = slot[w].n + 1 /\ posts[d] < attempts[d] /\ attempts[d] <= MaxAttempts + hits[d]
      BY <1>6, <3>1 DEF RowOk, At
    <3>4. slot'[w].pc = "postpone" => attempts[d] < MaxAttempts
      BY <1>1, <3>1, <3>3 DEF Goto, AfterFailure, Exhausted
    <3>5. Claimable(d)' => slot'[w].pc = "postpone"
      BY <2>1, <3>1, <3>2
    <3>6. \A v \in Slots : On(v, d)' => v = w
      BY <2>0
    <3>7. attempts' = attempts /\ hits' = hits
      BY <3>1 DEF table
    <3>8. /\ posts'[d] <= attempts'[d] /\ attempts'[d] <= MaxAttempts + hits'[d]
          /\ Claimable(d)' => attempts'[d] < MaxAttempts + hits'[d]
      BY <1>1, <3>1, <3>3, <3>4, <3>5, <3>7
    <3> QED
      BY <3>2, <3>3, <3>4, <3>6, <3>7, <3>8 DEF RowOk, At
  <2>5. CASE Shelve(w) \/ Deliver(w) \/ GiveUp(w) \/ Bump(w) \/ Disable(w) \/ Finish(w)
    <3>1. /\ attempts' = attempts /\ UNCHANGED <<seen, queue>>
          /\ slot'[w].pc \in {"done", "bump", "disable", "idle"}
      BY <2>5 DEF Shelve, Deliver, GiveUp, Bump, Disable, Finish, Goto, Idle, table
    <3>2. ~Claimable(d)'
      BY <2>1, <3>1
    <3>3. /\ posts'[d] <= attempts'[d] /\ attempts'[d] <= MaxAttempts + hits'[d]
      BY <3>1 DEF RowOk, seen
    <3>4. \A v \in Slots : On(v, d)' => v = w
      BY <2>0
    <3> QED
      BY <3>1, <3>2, <3>3, <3>4 DEF RowOk, At
  <2>6. CASE Missing(w)
    <3>1. /\ UNCHANGED <<table, seen>> /\ ~Exists(d) /\ FailAttempt(w)
      BY <2>0, <2>6 DEF Missing
    <3>2. ~On(w, d)'
      BY <3>1 DEF FailAttempt, Idle, On, At
    <3>3. ~Claimable(d)'
      BY <1>0, <2>0, <3>1 DEF Claimable, Exists, table
    <3> QED
      BY <1>0, <2>0, <3>1, <3>2, <3>3, RowStays DEF table, seen
  <2>7. CASE Postpone(w)
    <3>1. /\ UNCHANGED <<attempts, seen>> /\ At(w, "postpone") /\ FailAttempt(w)
      BY <2>0, <2>7 DEF Postpone
    <3>2. ~On(w, d)'
      BY <3>1 DEF FailAttempt, Idle, On, At
    <3>3. attempts[d] < MaxAttempts /\ posts[d] <= attempts[d]
      BY <1>6, <3>1 DEF RowOk
    <3>4. posts'[d] = posts[d] /\ attempts'[d] = attempts[d] /\ hits'[d] = hits[d]
      BY <3>1 DEF seen
    <3>5. \A v \in Slots : ~On(v, d)'
      BY <2>0, <3>2
    <3> QED
      BY <1>1, <3>3, <3>4, <3>5 DEF RowOk
  <2>8. CASE Fault(w)
    <3>1. /\ attempts' = attempts /\ posts' = posts /\ hits'[d] = hits[d] + 1
      BY <2>0, <2>8 DEF Fault, Faulty, table
    <3>2. ~On(w, d)'
      BY <2>8 DEF Fault, FailAttempt, Idle, On, At
    <3> QED
      BY <1>0, <1>1, <2>0, <3>1, <3>2, RowStays
  <2> QED
    BY <1>4, <2>2, <2>3, <2>4, <2>5, <2>6, <2>7, <2>8 DEF Work
<1>7. CASE At(w, "idle") /\ ~TakeJob(w)
  BY <1>7, SlotSteps
<1> QED
  BY <1>4, <1>5, <1>6, <1>7

LEMMA CountedInit == Init => Counted
<1> SUFFICES ASSUME Init PROVE Counted
  OBVIOUS
<1>1. Single /\ Ids
  BY DEF Init, Single, Ids, At, Idle
<1>2. ASSUME NEW d \in Deliveries PROVE QueueOk(d) /\ RowOk(d)
  <2>1. Spare(d) = {}
    BY DEF Init, Spare, On, At, Idle
  <2>2. Cardinality(Spare(d)) = 0
    BY <2>1, FS_EmptySet
  <2>3. QueueOk(d)
    BY <2>2, AttemptsAssumption DEF Init, QueueOk, Due
  <2>4. RowOk(d)
    BY AttemptsAssumption DEF Init, RowOk, On, At, Idle
  <2> QED
    BY <2>3, <2>4
<1> QED
  BY <1>1, <1>2 DEF Counted

LEMMA CountedStep == Inv /\ Counted /\ [Next]_vars => Counted'
<1> SUFFICES ASSUME Inv, Counted, [Next]_vars PROVE Counted'
  OBVIOUS
<1>0. Single' /\ Ids' /\ TypeOK' /\ TypeOK /\ Rooted /\ Single /\ Ids
  BY SingleStep, TypeStep DEF Inv, Counted
<1> SUFFICES ASSUME NEW d \in Deliveries PROVE QueueOk(d)' /\ RowOk(d)'
  BY <1>0 DEF Counted
<1>1. QueueOk(d) /\ RowOk(d)
  BY DEF Counted
<1>2. ASSUME UNCHANGED <<queue, emit, retry, slot, seen, attempts>>, Exists(d)' => Exists(d)
      PROVE  QueueOk(d)' /\ RowOk(d)'
  <2>1. \A v \in Slots : On(v, d)' => On(v, d) /\ slot'[v] = slot[v]
    BY <1>2 DEF On, At
  <2>2. RowOk(d)'
    <3>1. Claimable(d)' => Claimable(d)
      BY <1>2 DEF Claimable, On, At
    <3>2. hits[d] \in Nat
      BY <1>0 DEF TypeOK
    <3> QED
      BY <1>0, <1>1, <1>2, <2>1, <3>1, <3>2, RowStays DEF seen
  <2>3. QueueOk(d)'
    BY <1>1, <1>2 DEF QueueOk, Due, Spare, Left, On, At, Unsent, seen
  <2> QED
    BY <2>2, <2>3
<1>3. CASE UNCHANGED vars
  BY <1>2, <1>3 DEF vars, requests, table, Exists
<1>4. ASSUME NEW e \in Deliveries, Emit(e) \/ Retry(e) PROVE QueueOk(d)' /\ RowOk(d)'
  BY <1>0, <1>1, <1>4, QueueRequests, RowRequests
<1>5. ASSUME NEW w \in Slots, Work(w) \/ Fault(w) PROVE QueueOk(d)' /\ RowOk(d)'
  BY <1>0, <1>1, <1>5, QueueSlots, RowSlots
<1>6. CASE Edit
  <2>1. UNCHANGED <<queue, emit, retry, slot, seen, attempts>> /\ (Exists(d)' => Exists(d))
    BY <1>6 DEF Edit, Deactivate, EditRead, EditWrite, Delete, requests, table, Exists
  <2> QED
    BY <1>2, <2>1
<1> QED
  BY <1>3, <1>4, <1>5, <1>6 DEF Next

\* For any number of slots, attempts, retries and faults, an event that no admin
\* retried is posted as often as the smaller of the two counters allows, and once
\* more for a fault; with retries each job keeps to its own attempts
\* (webhook-delivery.ts, the attempts of the row and of the queue).
THEOREM PostsBounded == Spec => []PostsAreBounded
<1>1. Inv /\ Counted => PostsAreBounded
  <2> SUFFICES ASSUME Inv, Counted, NEW d \in Deliveries
               PROVE  posts[d] <= hits[d] + IF asked[d] = 0 THEN Least(MaxAttempts, QueueAttempts)
                                            ELSE QueueAttempts + asked[d]
    BY DEF PostsAreBounded
  <2>1. posts[d] \in Nat /\ hits[d] \in Nat /\ asked[d] \in Nat /\ attempts[d] \in Nat
    BY AttemptsAssumption DEF Inv, TypeOK
  <2>2. Cardinality(Spare(d)) \in Nat
    <3>1. Spare(d) \in SUBSET (1 .. MaxRetries)
      BY DEF Spare
    <3> QED
      BY <3>1, RetryCount
  <2>3. posts[d] + Cardinality(Spare(d)) + 0 <= hits[d] + asked[d] + QueueAttempts
    BY AttemptsAssumption DEF Counted, QueueOk, Left, Due
  <2>4. posts[d] <= hits[d] + asked[d] + QueueAttempts
    BY <2>1, <2>2, <2>3, AttemptsAssumption
  <2>5. asked[d] = 0 => posts[d] <= MaxAttempts + hits[d]
    BY <2>1, AttemptsAssumption DEF Counted, RowOk
  <2> QED
    BY <2>1, <2>4, <2>5, AttemptsAssumption DEF Least
<1>2. Init => Inv /\ Counted
  BY InitInv, CountedInit
<1> QED
  BY <1>1, <1>2, CountedStep, Invariance, PTL DEF Spec
=============================================================================
