--------------------------- MODULE BroadcastSend ---------------------------
(***************************************************************************)
(* One metered broadcast on its way to its recipients: the fanout worker,  *)
(* the send workers, Meta and its status webhooks, the operator's pause,   *)
(* resume, cancel and re-run, and the reaper                               *)
(* (apps/worker/src/jobs/broadcast-*.ts, the status webhook of             *)
(* whatsapp.routes.ts, broadcasts.routes.ts).                              *)
(*                                                                         *)
(* All of them share the database and none holds a lock across an await:   *)
(* a process reads a row, awaits, and writes the row by its id.  A step    *)
(* here is what happens between two awaits; what a process has read so far *)
(* is its local record.  Only the wallet's operations are transactions     *)
(* that claim what they change (module Wallet).                            *)
(***************************************************************************)
EXTENDS Wallet

CONSTANTS
    NoRecipient,    \* no recipient at hand
    Workers,        \* slots of the send worker (SEND_CONCURRENCY)
    Fans,           \* slots of the fanout worker (FANOUT_CONCURRENCY)
    Hooks,          \* status webhooks handled at a time
    Apis,           \* operator requests handled at a time
    Reapers,        \* worker processes running the reaper
    OptedOut,       \* recipients whose contact opted out or is blocked
    Attempts,       \* attempts of a send job
    FanoutAttempts, \* attempts of the fanout job /send enqueues
    Ops,            \* the operator's requests a run allows
    LateFailures,   \* Meta may report 'failed' after 'delivered'
    Bursts          \* a rejected send may be the last of a failure burst

CONSTANTS
    MaxMessages,    \* bound: messages Meta accepts per recipient
    MaxFaults,      \* bound: crashes, throws and lost enqueues
    MaxOps          \* bound: operator requests

ASSUME SlotsAssumption == /\ IsFiniteSet(Workers)
                          /\ NoRecipient \notin Recipients
                          /\ Attempts \in Nat \ {0}

VARIABLES
    status,         \* broadcasts.status
    rstatus,        \* broadcast_recipients.status
    wamid,          \* .meta_message_id: the recipient's message number, 0 if none
    deliveredAt,    \* .delivered_at is set
    readAt,         \* .read_at is set
    waiting,        \* send queue: waiting jobs of a recipient per failed attempts
    first,          \* fanout queue: attempts left of the job of /send, 0 if not waiting
    extra,          \* fanout queue: jobs that resume and re-run enqueued
    worker, fan, hook, api, reaper,     \* the processes' local records
    accepted,       \* Meta: messages accepted per recipient
    reports         \* Meta: status reports issued

(***************************************************************************)
(* Observations: faults and requests so far; recipients whose charge was   *)
(* refused for lack of funds; recipients an attempt was interrupted for    *)
(* after Meta accepted; messages accepted since the recipient's row was    *)
(* last settled, and since the broadcast was last stopped.                 *)
(***************************************************************************)
VARIABLES faults, ops, dry, excused, again, late

rows == <<rstatus, wamid, deliveredAt, readAt>>
queues == <<waiting, first, extra>>
meta == <<accepted, reports>>
tally == <<faults, ops, dry, excused>>
vars == <<walletVars, status, rows, queues, worker, fan, hook, api, reaper,
          meta, tally, again, late>>

Unit == DefaultPrice    \* the price snapshot the broadcast was launched with

Idle == [pc |-> "idle", r |-> NoRecipient, k |-> 0, m |-> 0]
IdleFan == [pc |-> "idle", batch |-> {}, left |-> 0, job |-> "none"]
IdleHook == [pc |-> "idle", r |-> NoRecipient, s |-> "none", refund |-> FALSE]
IdleApi == [pc |-> "idle", op |-> "none", rs |-> {}]
IdleReaper == [pc |-> "idle", rs |-> {}]

Unsent == {"pending", "queued"}
Handled == {"sent", "delivered", "read", "skipped"}

Init ==
    /\ WalletInit
    /\ status = "sending"
    /\ rstatus = [r \in Recipients |-> "pending"]
    /\ wamid = [r \in Recipients |-> 0]
    /\ deliveredAt = [r \in Recipients |-> FALSE]
    /\ readAt = [r \in Recipients |-> FALSE]
    /\ waiting = [r \in Recipients |-> [k \in 0 .. Attempts - 1 |-> 0]]
    /\ first = FanoutAttempts
    /\ extra = 0
    /\ worker = [w \in Workers |-> Idle]
    /\ fan = [f \in Fans |-> IdleFan]
    /\ hook = [h \in Hooks |-> IdleHook]
    /\ api = [a \in Apis |-> IdleApi]
    /\ reaper = [p \in Reapers |-> IdleReaper]
    /\ accepted = [r \in Recipients |-> 0]
    /\ reports = {}
    /\ faults = 0 /\ ops = 0
    /\ dry = {} /\ excused = {}
    /\ again = [r \in Recipients |-> 0]
    /\ late = 0

Mark(rs, s) == rstatus' = [r \in Recipients |-> IF r \in rs THEN s ELSE rstatus[r]]

-----------------------------------------------------------------------------
(* The fanout worker.                                                       *)

\* A job of a paused or cancelled broadcast is dropped; any other goes on.
FanStart(f) ==
    /\ fan[f].pc = "idle"
    /\ \E left \in 1 .. FanoutAttempts, job \in {"first", "extra"} :
          /\ \/ job = "first" /\ first = left /\ first' = 0 /\ extra' = extra
             \/ job = "extra" /\ extra > 0 /\ left = 1 /\ extra' = extra - 1 /\ first' = first
          /\ IF status \in {"paused", "cancelled"}
             THEN UNCHANGED fan
             ELSE fan' = [fan EXCEPT ![f] = [pc |-> "page", batch |-> {},
                                             left |-> left, job |-> job]]
    /\ UNCHANGED <<walletVars, status, rows, waiting, worker, hook, api, reaper, meta, tally>>

Pending == {r \in Recipients : rstatus[r] = "pending"}

\* One page holds every recipient of the model.
FanPage(f) ==
    /\ fan[f].pc = "page"
    /\ fan' = [fan EXCEPT ![f].pc = IF Pending = {} THEN "count" ELSE "enqueue",
                          ![f].batch = Pending]
    /\ UNCHANGED <<walletVars, status, rows, queues, worker, hook, api, reaper, meta, tally>>

FanEnqueue(f) ==
    /\ fan[f].pc = "enqueue"
    /\ waiting' = [r \in Recipients |->
           IF r \in fan[f].batch THEN [waiting[r] EXCEPT ![0] = @ + 1] ELSE waiting[r]]
    /\ fan' = [fan EXCEPT ![f].pc = "mark"]
    /\ UNCHANGED <<walletVars, status, rows, first, extra, worker, hook, api, reaper, meta, tally>>

\* The rows of the page are marked by id, whatever became of them since.
FanMark(f) ==
    /\ fan[f].pc = "mark"
    /\ Mark(fan[f].batch, "queued")
    /\ fan' = [fan EXCEPT ![f].pc = "count"]
    /\ UNCHANGED <<walletVars, status, wamid, deliveredAt, readAt, queues, worker,
                   hook, api, reaper, meta, tally>>

\* queued_count, which nothing here reads.
FanCount(f) ==
    /\ fan[f].pc = "count"
    /\ fan' = [fan EXCEPT ![f] = IdleFan]
    /\ UNCHANGED <<walletVars, status, rows, queues, worker, hook, api, reaper, meta, tally>>

\* A throw costs the job an attempt; a crash gives the job back as it was, or
\* loses the handler of a failed job.
FanFault(f) ==
    /\ fan[f].pc # "idle"
    /\ faults < MaxFaults
    /\ faults' = faults + 1
    /\ \/ /\ fan[f].left > 1
          /\ first' = fan[f].left - 1 /\ extra' = extra
          /\ fan' = [fan EXCEPT ![f] = IdleFan]
       \/ /\ fan[f].left = 1
          /\ UNCHANGED <<first, extra>>
          /\ fan' = [fan EXCEPT ![f] = IF @.pc = "failed" THEN IdleFan ELSE [@ EXCEPT !.pc = "failed"]]
       \/ /\ fan[f].pc # "failed"
          /\ IF fan[f].job = "first"
             THEN first' = fan[f].left /\ extra' = extra
             ELSE first' = first /\ extra' = extra + 1
          /\ fan' = [fan EXCEPT ![f] = IdleFan]
    /\ UNCHANGED <<walletVars, status, rows, waiting, worker, hook, api,
                   reaper, meta, ops, dry, excused>>

FanFail(f) ==
    /\ fan[f].pc = "failed"
    /\ status' = "failed"
    /\ fan' = [fan EXCEPT ![f] = IdleFan]
    /\ UNCHANGED <<walletVars, rows, queues, worker, hook, api, reaper, meta, tally>>

Fan(f) == FanStart(f) \/ FanPage(f) \/ FanEnqueue(f) \/ FanMark(f)
          \/ FanCount(f) \/ FanFail(f)

-----------------------------------------------------------------------------
(* The send worker.  A slot here also runs the 'completed' and 'failed'     *)
(* handlers of its job, which the library runs beside the slot's next job:  *)
(* they send nothing, and a second slot shows what may overlap with them.   *)

At(w, pc) == worker[w].pc = pc

Goto(w, pc) == worker' = [worker EXCEPT ![w].pc = pc]

\* The attempt threw: the job waits for its next attempt, if it has one left.
FailAttempt(w) ==
    LET r == worker[w].r
        k == worker[w].k + 1
    IN  IF k < Attempts
        THEN /\ waiting' = [waiting EXCEPT ![r][k] = @ + 1]
             /\ worker' = [worker EXCEPT ![w] = Idle]
        ELSE /\ waiting' = waiting
             /\ Goto(w, "exhausted")

\* The job goes back as it was: parked, or its process died.
GiveBack(w) ==
    /\ waiting' = [waiting EXCEPT ![worker[w].r][worker[w].k] = @ + 1]
    /\ worker' = [worker EXCEPT ![w] = Idle]

\* Mutant: a job of a cancelled or completed broadcast goes on.
TakeJobOfAny(w) ==
    /\ At(w, "idle")
    /\ status # "paused"
    /\ \E r \in Recipients, k \in 0 .. Attempts - 1 :
          /\ waiting[r][k] > 0
          /\ waiting' = [waiting EXCEPT ![r][k] = @ - 1]
          /\ worker' = [worker EXCEPT ![w] = [pc |-> "recipient", r |-> r, k |-> k, m |-> 0]]
    /\ UNCHANGED <<walletVars, status, rows, first, extra, fan, hook, api, reaper, meta, tally>>

\* A slot takes a job and reads the broadcast.  While the broadcast is paused
\* a job that is taken is parked at once, which changes nothing.
TakeJob(w) ==
    /\ At(w, "idle")
    /\ status # "paused"
    /\ \E r \in Recipients, k \in 0 .. Attempts - 1 :
          /\ waiting[r][k] > 0
          /\ waiting' = [waiting EXCEPT ![r][k] = @ - 1]
          /\ worker' = [worker EXCEPT ![w] =
                [pc |-> IF status \in {"cancelled", "completed"} THEN "skip" ELSE "recipient",
                 r |-> r, k |-> k, m |-> 0]]
    /\ UNCHANGED <<walletVars, status, rows, first, extra, fan, hook, api, reaper, meta, tally>>

\* What a step of a slot leaves alone when it only moves on.
Elsewhere == <<status, queues, fan, hook, api, reaper>>

SkipStopped(w) ==
    /\ At(w, "skip")
    /\ Mark({worker[w].r} \cap {r \in Recipients : rstatus[r] \in Unsent}, "skipped")
    /\ Goto(w, "count")
    /\ UNCHANGED <<Elsewhere, walletVars, wamid, deliveredAt, readAt, meta, tally>>

\* Mutant: the row is not checked for having been handled.
ReadRecipientUnchecked(w) ==
    /\ At(w, "recipient")
    /\ Goto(w, IF worker[w].r \in OptedOut THEN "optout" ELSE "gate")
    /\ UNCHANGED <<Elsewhere, walletVars, rows, meta, tally>>

ReadRecipient(w) ==
    /\ At(w, "recipient")
    /\ Goto(w, IF rstatus[worker[w].r] \in Handled THEN "count"
               ELSE IF worker[w].r \in OptedOut THEN "optout" ELSE "gate")
    /\ UNCHANGED <<Elsewhere, walletVars, rows, meta, tally>>

\* The balance, the token bucket, the send window and the sanity checks of
\* channel, template and header media.
Gate(w) ==
    /\ At(w, "gate")
    /\ \/ ~Affordable(Unit) /\ Goto(w, "dry") /\ UNCHANGED waiting
       \/ Affordable(Unit) /\ Goto(w, "call") /\ UNCHANGED waiting
       \/ Affordable(Unit) /\ FailAttempt(w)
       \/ Goto(w, "unsendable") /\ UNCHANGED waiting
       \/ GiveBack(w)
    /\ UNCHANGED <<walletVars, status, rows, first, extra, fan, hook, api, reaper, meta, tally>>

\* The row of a recipient that will not be messaged is closed.
Close(w) ==
    /\ worker[w].pc \in {"optout", "dry", "unsendable", "reject"}
    /\ Mark({worker[w].r}, IF worker[w].pc \in {"optout", "dry"} THEN "skipped" ELSE "failed")
    /\ Goto(w, IF At(w, "optout") THEN "count" ELSE IF At(w, "reject") THEN "burst" ELSE "note")
    /\ UNCHANGED <<Elsewhere, walletVars, wamid, deliveredAt, readAt, meta, tally>>

\* Mutant: a rejection is taken for an acceptance.
CallMetaUnchecked(w) ==
    LET r == worker[w].r IN
    /\ At(w, "call")
    /\ \/ /\ accepted[r] < MaxMessages
          /\ accepted' = [accepted EXCEPT ![r] = @ + 1]
          /\ worker' = [worker EXCEPT ![w] = [pc |-> "sent", r |-> r, k |-> worker[w].k,
                                              m |-> accepted[r] + 1]]
       \/ Goto(w, "sent") /\ UNCHANGED accepted
    /\ UNCHANGED <<Elsewhere, walletVars, rows, reports, tally>>

\* The call may be accepted and answered, accepted with the answer lost,
\* rejected for good, or fail in a way that is worth a retry.
CallMeta(w) ==
    LET r == worker[w].r IN
    /\ At(w, "call")
    /\ \/ /\ accepted[r] < MaxMessages
          /\ accepted' = [accepted EXCEPT ![r] = @ + 1]
          /\ worker' = [worker EXCEPT ![w] = [pc |-> "sent", r |-> r, k |-> worker[w].k,
                                              m |-> accepted[r] + 1]]
          /\ UNCHANGED <<waiting, faults, excused>>
       \/ /\ accepted[r] < MaxMessages /\ faults < MaxFaults
          /\ accepted' = [accepted EXCEPT ![r] = @ + 1]
          /\ faults' = faults + 1
          /\ excused' = excused \cup {r}
          /\ FailAttempt(w)
       \/ Goto(w, "reject") /\ UNCHANGED <<accepted, waiting, faults, excused>>
       \/ FailAttempt(w) /\ UNCHANGED <<accepted, faults, excused>>
    /\ UNCHANGED <<walletVars, status, rows, first, extra, fan, hook, api, reaper,
                   reports, ops, dry>>

MarkSent(w) ==
    /\ At(w, "sent")
    /\ Mark({worker[w].r}, "sent")
    /\ wamid' = [wamid EXCEPT ![worker[w].r] = worker[w].m]
    /\ Goto(w, "charge")
    /\ UNCHANGED <<Elsewhere, walletVars, deliveredAt, readAt, meta, tally>>

\* Mutant: only a row that still says 'sent' is charged.
ChargeWhileSent(w) ==
    /\ At(w, "charge")
    /\ IF rstatus[worker[w].r] = "sent" THEN ChargeAtSend(worker[w].r, Unit)
       ELSE UNCHANGED walletVars
    /\ Goto(w, "record")
    /\ UNCHANGED <<Elsewhere, rows, meta, tally>>

\* Mutant: the charge debits without claiming billed_at.
ChargeWithoutClaim(w) ==
    /\ At(w, "charge")
    /\ Affordable(Unit)
    /\ Debit(Unit)
    /\ Goto(w, "record")
    /\ UNCHANGED <<Elsewhere, rows, meta, tally, toppedUp, baseline, metering, price,
                   settleRow, billed, refunded, settled,
                   forgiven, direct, charges, refunds, orphaned>>

\* The result of the charge is not looked at.
Charge(w) ==
    LET r == worker[w].r IN
    /\ At(w, "charge")
    /\ ChargeAtSend(r, Unit)
    /\ dry' = IF billed'[r] THEN dry ELSE dry \cup {r}
    /\ Goto(w, "record")
    /\ UNCHANGED <<Elsewhere, rows, meta, faults, ops, excused>>

\* What follows the charge or the closing of a row, and nothing here reads:
\* the inbox row of the message, the counters, notices and webhook events.
Record(w) ==
    /\ At(w, "record") \/ At(w, "note")
    /\ Goto(w, "count")
    /\ UNCHANGED <<Elsewhere, walletVars, rows, meta, tally>>

\* The 25th rejection within a minute pauses the broadcast, whatever its status.
BurstPause(w) ==
    /\ At(w, "burst")
    /\ status' = status \/ (Bursts /\ status' = "paused")
    /\ Goto(w, "count")
    /\ UNCHANGED <<walletVars, rows, queues, fan, hook, api, reaper, meta, tally>>

Exhausted(w) ==
    /\ At(w, "exhausted")
    /\ Mark({worker[w].r}, "failed")
    /\ worker' = [worker EXCEPT ![w] = Idle]
    /\ UNCHANGED <<Elsewhere, walletVars, wamid, deliveredAt, readAt, meta, tally>>

\* A slot that closes the broadcast no longer holds a recipient.
Finishing(pc) == [pc |-> pc, r |-> NoRecipient, k |-> 0, m |-> 0]

\* The job's completion: count what is unsent, read the broadcast, complete it.
CountUnsent(w) ==
    /\ At(w, "count")
    /\ worker' = [worker EXCEPT ![w] =
           IF \E r \in Recipients : rstatus[r] \in Unsent THEN Idle
           ELSE Finishing("finish")]
    /\ UNCHANGED <<Elsewhere, walletVars, rows, meta, tally>>

ReadBroadcast(w) ==
    /\ At(w, "finish")
    /\ worker' = [worker EXCEPT ![w] =
           IF status = "sending" THEN Finishing("complete") ELSE Idle]
    /\ UNCHANGED <<Elsewhere, walletVars, rows, meta, tally>>

Complete(w) ==
    /\ At(w, "complete")
    /\ status' = "completed"
    /\ worker' = [worker EXCEPT ![w] = Idle]
    /\ UNCHANGED <<walletVars, rows, queues, fan, hook, api, reaper, meta, tally>>

AfterAccept == {"sent", "charge", "record"}
InJob == {"recipient", "skip", "optout", "gate", "dry", "unsendable", "call",
          "reject", "note", "burst"} \cup AfterAccept
Stage == InJob \cup {"idle", "exhausted", "count", "finish", "complete"}

\* A database or Redis call throws, or the process dies, in the middle of a job.
WorkerFault(w) ==
    /\ worker[w].pc \in InJob
    /\ faults < MaxFaults
    /\ faults' = faults + 1
    /\ excused' = excused \cup (IF worker[w].pc \in AfterAccept THEN {worker[w].r} ELSE {})
    /\ FailAttempt(w) \/ GiveBack(w)
    /\ UNCHANGED <<walletVars, status, rows, first, extra, fan, hook, api, reaper,
                   meta, ops, dry>>

\* The process dies before the handler of a finished job is through.
HandlerFault(w) ==
    /\ worker[w].pc \in {"exhausted", "count", "finish", "complete"}
    /\ faults < MaxFaults
    /\ faults' = faults + 1
    /\ worker' = [worker EXCEPT ![w] = Idle]
    /\ UNCHANGED <<Elsewhere, walletVars, rows, meta, ops, dry, excused>>

Worker(w) ==
    \/ TakeJob(w) \/ SkipStopped(w) \/ ReadRecipient(w) \/ Gate(w) \/ Close(w)
    \/ CallMeta(w) \/ MarkSent(w) \/ Charge(w) \/ Record(w) \/ BurstPause(w)
    \/ Exhausted(w) \/ CountUnsent(w) \/ ReadBroadcast(w) \/ Complete(w)

-----------------------------------------------------------------------------
(* The status webhook.  One report is read, looked up by message id, and    *)
(* written by the id of the row it found; the refund follows the commit.    *)

\* Meta reports a message delivered or read, or failed; it repeats and reorders
\* reports, and only as LateFailures contradicts a delivery with a failure.
MayReport(r, m, s) ==
    /\ s = "failed" =>
          LateFailures \/ {<<r, m, "delivered">>, <<r, m, "read">>} \cap reports = {}
    /\ s \in {"delivered", "read"} => <<r, m, "failed">> \notin reports

Undelivered(r) == ~deliveredAt[r] /\ ~readAt[r]

\* What the webhook does with a report depends on the row as it is read.
Applies(r, s) ==
    \/ s = "delivered" /\ rstatus[r] # "read"
    \/ s = "read"
    \/ s = "failed" /\ rstatus[r] # "failed"

\* Mutant: the refund forgets whether the message was delivered.
HookReadRefundsAny(h) ==
    /\ hook[h].pc = "idle"
    /\ \E r \in Recipients, s \in {"delivered", "read", "failed"} :
          \E m \in 1 .. accepted[r] :
             /\ MayReport(r, m, s)
             /\ reports' = reports \cup {<<r, m, s>>}
             /\ IF wamid[r] = m /\ Applies(r, s)
                THEN hook' = [hook EXCEPT ![h] =
                        [pc |-> "write", r |-> r, s |-> s,
                         refund |-> s = "failed" /\ billed[r]]]
                ELSE hook' = hook
    /\ UNCHANGED <<walletVars, status, rows, queues, worker, fan, api, reaper, accepted, tally>>

HookRead(h) ==
    /\ hook[h].pc = "idle"
    /\ \E r \in Recipients, s \in {"delivered", "read", "failed"} :
          \E m \in 1 .. accepted[r] :
             /\ MayReport(r, m, s)
             /\ reports' = reports \cup {<<r, m, s>>}
             /\ IF wamid[r] = m /\ Applies(r, s)
                THEN hook' = [hook EXCEPT ![h] =
                        [pc |-> "write", r |-> r, s |-> s,
                         refund |-> s = "failed" /\ billed[r] /\ Undelivered(r)]]
                ELSE hook' = hook
    /\ UNCHANGED <<walletVars, status, rows, queues, worker, fan, api, reaper, accepted, tally>>

HookWrite(h) ==
    LET r == hook[h].r IN
    /\ hook[h].pc = "write"
    /\ Mark({r}, hook[h].s)
    /\ deliveredAt' = [deliveredAt EXCEPT ![r] = @ \/ hook[h].s \in {"delivered", "read"}]
    /\ readAt' = [readAt EXCEPT ![r] = @ \/ hook[h].s = "read"]
    /\ hook' = [hook EXCEPT ![h] = IF @.refund THEN [@ EXCEPT !.pc = "refund"] ELSE IdleHook]
    /\ UNCHANGED <<walletVars, status, wamid, queues, worker, fan, api, reaper, meta, tally>>

HookRefund(h) ==
    /\ hook[h].pc = "refund"
    /\ RefundFailedSend(hook[h].r)
    /\ hook' = [hook EXCEPT ![h] = IdleHook]
    /\ UNCHANGED <<status, rows, queues, worker, fan, api, reaper, meta, tally>>

\* The API dies, or the transaction or the refund throws, which is only logged:
\* a refund the transaction had decided on goes ahead without it.
HookFault(h) ==
    /\ hook[h].pc \in {"write", "refund"}
    /\ faults < MaxFaults
    /\ faults' = faults + 1
    /\ \/ hook' = [hook EXCEPT ![h] = IdleHook]
       \/ hook[h].refund /\ hook' = [hook EXCEPT ![h].pc = "refund"]
    /\ UNCHANGED <<walletVars, status, rows, queues, worker, fan, api, reaper,
                   meta, ops, dry, excused>>

-----------------------------------------------------------------------------
(* The operator's requests: each reads the status it allows, then writes.   *)

Permits(op) ==
    CASE op = "pause"  -> status \in {"sending", "scheduled"}
      [] op = "resume" -> status = "paused"
      [] op = "cancel" -> status \notin {"completed", "cancelled"}
      [] op = "rerun"  -> status # "cancelled"

Failed == {r \in Recipients : rstatus[r] = "failed"}

ApiRead(a) ==
    /\ api[a].pc = "idle"
    /\ ops < MaxOps
    /\ ops' = ops + 1
    /\ \E op \in Ops :
          LET owed == IF op = "rerun" THEN {r \in Failed : Refundable(r)} ELSE {} IN
          /\ Permits(op)
          /\ api' = [api EXCEPT ![a] = [pc |-> IF owed = {} THEN "write" ELSE "refund",
                                        op |-> op, rs |-> owed]]
    /\ UNCHANGED <<walletVars, status, rows, queues, worker, fan, hook, reaper,
                   meta, faults, dry, excused>>

\* A re-run refunds what it found charged; an error is logged and passed over.
ApiRefund(a) ==
    /\ api[a].pc = "refund"
    /\ \E r \in api[a].rs :
          /\ \/ RefundFailedSend(r) /\ faults' = faults
             \/ faults < MaxFaults /\ faults' = faults + 1 /\ UNCHANGED walletVars
          /\ api' = [api EXCEPT ![a] =
                [pc |-> IF @.rs = {r} THEN "write" ELSE "refund", op |-> @.op, rs |-> @.rs \ {r}]]
    /\ UNCHANGED <<status, rows, queues, worker, fan, hook, reaper,
                   meta, ops, dry, excused>>

ApiPause(a) ==
    /\ api[a].pc = "write" /\ api[a].op = "pause"
    /\ status' = "paused"
    /\ api' = [api EXCEPT ![a] = IdleApi]
    /\ UNCHANGED <<walletVars, rows, queues, worker, fan, hook, reaper, meta, tally>>

ApiResume(a) ==
    /\ api[a].pc = "write" /\ api[a].op = "resume"
    /\ Mark({r \in Recipients : rstatus[r] = "skipped"}, "pending")
    /\ status' = "sending"
    /\ api' = [api EXCEPT ![a].pc = "enqueue"]
    /\ UNCHANGED <<walletVars, wamid, deliveredAt, readAt, queues, worker, fan, hook,
                   reaper, meta, tally>>

ApiCancel(a) ==
    /\ api[a].pc = "write" /\ api[a].op = "cancel"
    /\ Mark(Pending, "skipped")
    /\ status' = "cancelled"
    /\ api' = [api EXCEPT ![a].pc = "dequeue"]
    /\ UNCHANGED <<walletVars, wamid, deliveredAt, readAt, queues, worker, fan, hook,
                   reaper, meta, tally>>

\* Whatever is failed by now is re-armed, charged or not, refunded or not.
ApiRerun(a) ==
    /\ api[a].pc = "write" /\ api[a].op = "rerun"
    /\ Mark(Failed, "pending")
    /\ RearmBilling(Failed)
    /\ status' = IF Failed = {} THEN status ELSE "sending"
    /\ api' = [api EXCEPT ![a] = IF Failed = {} THEN IdleApi ELSE [@ EXCEPT !.pc = "enqueue"]]
    /\ UNCHANGED <<wamid, deliveredAt, readAt, queues, worker, fan, hook,
                   reaper, meta, tally>>

ApiEnqueue(a) ==
    /\ api[a].pc = "enqueue"
    /\ extra' = extra + 1
    /\ api' = [api EXCEPT ![a] = IdleApi]
    /\ UNCHANGED <<walletVars, status, rows, waiting, first, worker, fan, hook,
                   reaper, meta, tally>>

\* A cancel removes the fanout job of /send where it still waits.
ApiDequeue(a) ==
    /\ api[a].pc = "dequeue"
    /\ first' = 0
    /\ api' = [api EXCEPT ![a] = IdleApi]
    /\ UNCHANGED <<walletVars, status, rows, waiting, extra, worker, fan, hook,
                   reaper, meta, tally>>

\* The API throws or dies between two statements of a request.
ApiFault(a) ==
    /\ api[a].pc \in {"refund", "write", "enqueue", "dequeue"}
    /\ faults < MaxFaults
    /\ faults' = faults + 1
    /\ api' = [api EXCEPT ![a] = IdleApi]
    /\ UNCHANGED <<walletVars, status, rows, queues, worker, fan, hook, reaper,
                   meta, ops, dry, excused>>

Request(a) ==
    \/ ApiRefund(a) \/ ApiPause(a) \/ ApiResume(a) \/ ApiCancel(a) \/ ApiRerun(a)
    \/ ApiEnqueue(a) \/ ApiDequeue(a)

-----------------------------------------------------------------------------
(* The reaper.  Grace periods and the age of a broadcast are left out: a    *)
(* row or a broadcast may be old enough at any tick.                        *)

Owed(r) == rstatus[r] = "failed" /\ Refundable(r) /\ Undelivered(r)

\* Mutant: only the rows of a running broadcast are swept.
ReaperSweepRunning(p) ==
    /\ reaper[p].pc = "idle"
    /\ LET owed == {r \in Recipients : Owed(r) /\ status = "sending"} IN
       reaper' = [reaper EXCEPT ![p] = [pc |-> IF owed = {} THEN "find" ELSE "refund", rs |-> owed]]
    /\ UNCHANGED <<walletVars, status, rows, queues, worker, fan, hook, api, meta, tally>>

ReaperSweep(p) ==
    /\ reaper[p].pc = "idle"
    /\ LET owed == {r \in Recipients : Owed(r)} IN
       reaper' = [reaper EXCEPT ![p] = [pc |-> IF owed = {} THEN "find" ELSE "refund", rs |-> owed]]
    /\ UNCHANGED <<walletVars, status, rows, queues, worker, fan, hook, api, meta, tally>>

ReaperRefund(p) ==
    /\ reaper[p].pc = "refund"
    /\ \E r \in reaper[p].rs :
          /\ RefundFailedSend(r)
          /\ reaper' = [reaper EXCEPT ![p] =
                [pc |-> IF @.rs = {r} THEN "find" ELSE "refund", rs |-> @.rs \ {r}]]
    /\ UNCHANGED <<status, rows, queues, worker, fan, hook, api, meta, tally>>

ReaperFind(p) ==
    /\ reaper[p].pc = "find"
    /\ reaper' = [reaper EXCEPT ![p].pc = IF status = "sending" THEN "skip" ELSE "idle"]
    /\ UNCHANGED <<walletVars, status, rows, queues, worker, fan, hook, api, meta, tally>>

ReaperSkip(p) ==
    /\ reaper[p].pc = "skip"
    /\ Mark({r \in Recipients : rstatus[r] \in Unsent}, "skipped")
    /\ reaper' = [reaper EXCEPT ![p].pc = "complete"]
    /\ UNCHANGED <<walletVars, status, wamid, deliveredAt, readAt, queues, worker, fan,
                   hook, api, meta, tally>>

ReaperComplete(p) ==
    /\ reaper[p].pc = "complete"
    /\ status' = "completed"
    /\ reaper' = [reaper EXCEPT ![p] = IdleReaper]
    /\ UNCHANGED <<walletVars, rows, queues, worker, fan, hook, api, meta, tally>>

ReaperFault(p) ==
    /\ reaper[p].pc \in {"refund", "find", "skip", "complete"}
    /\ faults < MaxFaults
    /\ faults' = faults + 1
    /\ reaper' = [reaper EXCEPT ![p] = IdleReaper]
    /\ UNCHANGED <<walletVars, status, rows, queues, worker, fan, hook, api,
                   meta, ops, dry, excused>>

Reap(p) ==
    \/ ReaperSweep(p) \/ ReaperRefund(p) \/ ReaperFind(p)
    \/ ReaperSkip(p) \/ ReaperComplete(p)

-----------------------------------------------------------------------------
Halting == {"paused", "cancelled", "completed"}

\* The two observations that follow every step.
Observe ==
    /\ again' = [r \in Recipients |->
          IF rstatus'[r] \notin Handled THEN 0
          ELSE again[r] + IF rstatus[r] \in Handled THEN accepted'[r] - accepted[r] ELSE 0]
    /\ late' = IF status' \notin Halting THEN 0
               ELSE late + IF status \in Halting /\ accepted' # accepted THEN 1 ELSE 0

Step ==
    \/ \E w \in Workers : Worker(w) \/ WorkerFault(w) \/ HandlerFault(w)
    \/ \E f \in Fans : Fan(f) \/ FanFault(f)
    \/ \E h \in Hooks : HookRead(h) \/ HookWrite(h) \/ HookRefund(h) \/ HookFault(h)
    \/ \E a \in Apis : ApiRead(a) \/ Request(a) \/ ApiFault(a)
    \/ \E p \in Reapers : Reap(p) \/ ReaperFault(p)

Next == Step /\ Observe

Spec == Init /\ [][Next]_vars

\* Slots, webhooks and the reaper run for as long as the worker and the API do;
\* the operator need not act, nor must a fault or a status report ever come.
Fairness ==
    /\ \A w \in Workers : WF_vars(Worker(w) /\ Observe)
    /\ \A f \in Fans : WF_vars(Fan(f) /\ Observe)
    /\ \A p \in Reapers : WF_vars(Reap(p) /\ Observe)

FairSpec == Spec /\ Fairness

-----------------------------------------------------------------------------
(* Types of the rows, the queues and the processes' records.                *)
RStatus == {"pending", "queued", "sent", "delivered", "read", "failed", "skipped"}

TypeOK ==
    /\ status \in {"scheduled", "sending", "paused", "completed", "cancelled", "failed"}
    /\ rstatus \in [Recipients -> RStatus]
    /\ wamid \in [Recipients -> 0 .. MaxMessages]
    /\ deliveredAt \in [Recipients -> BOOLEAN]
    /\ readAt \in [Recipients -> BOOLEAN]
    /\ waiting \in [Recipients -> [0 .. Attempts - 1 -> Nat]]
    /\ first \in 0 .. FanoutAttempts
    /\ extra \in Nat
    /\ \A w \in Workers :
          /\ worker[w].pc \in Stage
          /\ worker[w].r \in Recipients \cup {NoRecipient}
          /\ worker[w].k \in 0 .. Attempts - 1
          /\ worker[w].m \in 0 .. MaxMessages
          /\ worker[w].pc \in InJob \cup {"exhausted"} => worker[w].r \in Recipients
    /\ \A f \in Fans : fan[f].batch \subseteq Recipients
    /\ \A h \in Hooks : hook[h].pc # "idle" => hook[h].r \in Recipients
    /\ \A a \in Apis : api[a].rs \subseteq Recipients
    /\ \A p \in Reapers : reaper[p].rs \subseteq Recipients
    /\ accepted \in [Recipients -> 0 .. MaxMessages]
    /\ again \in [Recipients -> Nat]
    /\ late \in Nat

\* Slots with an accepted message that is yet to be charged.
Unpaid(r) == {w \in Workers : worker[w].r = r /\ worker[w].pc \in {"sent", "charge"}}

\* Every debit pays for a message that Meta accepted: no retry, re-run, resume
\* or duplicate job charges a recipient more often than it was messaged
\* (chargeAtSend runs only after out.ok).
ChargesBackedByAccept ==
    \A r \in Recipients :
        charges[r] + Cardinality(Unpaid(r)) <= accepted[r]

\* Slots that have found the recipient unhandled and may still message it.
Committed(r) == {w \in Workers : worker[w].r = r /\ worker[w].pc \in {"gate", "call"}}

\* Duplicate jobs, retries and webhooks cannot message a settled recipient
\* again, but for the slots that had already passed the check of its row
\* (broadcast-send.ts, "Already handled (terminal)").
SettledIsLeftAlone ==
    \A r \in Recipients :
        rstatus[r] \in Handled => again[r] + Cardinality(Committed(r)) <= Cardinality(Workers)

\* Slots that took their job before the broadcast stopped.
Underway == {w \in Workers : worker[w].pc \in {"recipient", "gate", "call"}}

\* Pausing, cancelling or reaping a broadcast lets out no more messages than
\* there are slots: the jobs that wait, retry or are enqueued late are parked
\* or skipped ("no new sends; in-flight finish").
StopIsPrompt ==
    status \in Halting => late + Cardinality(Underway) <= Cardinality(Workers)

\* A message is free only if the balance ran out under it or its attempt was
\* interrupted: a delivered or sent recipient is otherwise billed once its
\* slot is past the charge.
SentIsBilled ==
    \A r \in Recipients :
        \/ rstatus[r] \notin {"sent", "delivered", "read"}
        \/ billed[r]
        \/ r \in dry \cup excused
        \/ \E w \in Workers : worker[w].r = r /\ At(w, "charge")

\* A webhook, a sweep or a re-run is about to refund the charge.
Returning(r) ==
    \/ \E h \in Hooks : hook[h].r = r /\ hook[h].refund
    \/ \E p \in Reapers : r \in reaper[p].rs
    \/ \E a \in Apis : r \in api[a].rs

\* A message that was delivered or read keeps its charge, even on an odd late
\* 'failed' (whatsapp.routes.ts, the guard of the refund): where no refund had been
\* decided on before the delivery was written, neither a report nor the sweep ever
\* begins one.  A re-run does, which looks at the status alone.
DeliveredKeepsItsCharge ==
    [][\A r \in Recipients : ~Undelivered(r) /\ ~Returning(r) =>
          /\ refunds'[r] = refunds[r]
          /\ ~Undelivered(r)'
          /\ Returning(r)' => \E a \in Apis : r \in api'[a].rs]_vars

\* A charge for a message that failed and was never delivered does not stay
\* with the tenant: whatever the webhook lost, the sweep refunds.
FailedIsRefunded == \A r \in Recipients : Owed(r) ~> ~Owed(r)
=============================================================================
