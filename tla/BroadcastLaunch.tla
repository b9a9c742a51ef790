-------------------------- MODULE BroadcastLaunch --------------------------
(***************************************************************************)
(* The life of an organization's broadcasts around their sending: /send,   *)
(* now or for later, with the plan's monthly cap and the wallet's check,   *)
(* pause, resume, cancel and delete (broadcasts.routes.ts), the fanout     *)
(* job that starts a scheduled one and reads its CSV audience              *)
(* (broadcast-fanout.ts), and the reaper (broadcast-reaper.ts).            *)
(*                                                                         *)
(* What the send workers do with the jobs is module BroadcastSend; here it *)
(* is one step, the completion.  A handler reads a row and writes it in    *)
(* one read committed transaction that locks nothing.                      *)
(***************************************************************************)
EXTENDS Integers, FiniteSets

CONSTANTS
    Broadcasts,
    Csv,            \* those with a CSV audience
    Requests,       \* handlers of the dashboard's requests
    Fans,           \* slots of the fanout worker
    NoBroadcast,
    Batches,        \* batches of 500 rows in a CSV
    Cap,            \* monthlyBroadcastCap
    FanoutAttempts, \* attempts of the job /send adds
    MaxOps,         \* bound: requests
    MaxFaults       \* bound: crashes and throws

ASSUME LaunchAssumption ==
    /\ Csv \subseteq Broadcasts /\ NoBroadcast \notin Broadcasts
    /\ Batches \in Nat \ {0} /\ Cap \in Nat \ {0} /\ FanoutAttempts \in Nat \ {0}
    /\ IsFiniteSet(Requests)

VARIABLES
    status,     \* broadcasts.status
    started,    \* .started_at is set
    rows,       \* batches of the audience that are recipients
    released,   \* batches whose send jobs were added
    job,        \* the fanout job broadcast-<id>
    again,      \* the fanout job a resume added
    req,        \* the handlers' local records
    fan,        \* the fanout slots' local records
    reaping,    \* broadcasts the reaper has found
    usage,      \* usage_monthly.count
    ops, faults

(***************************************************************************)
(* Observations: launches from draft; launches that passed the cap while   *)
(* an earlier one was still to be counted, or never counted; broadcasts    *)
(* whose CSV was cut short, or released while it was read; broadcasts      *)
(* whose request was cut short, or overlapped another one or the fanout.   *)
(***************************************************************************)
VARIABLES launched, uncounted, torn, crossed

seen == <<launched, uncounted, torn, crossed>>
table == <<status, started, rows, released>>
queue == <<job, again>>
vars == <<table, queue, req, fan, reaping, usage, ops, faults, seen>>

NoJob == [state |-> "none", left |-> 0]
Job(state) == [state |-> state, left |-> FanoutAttempts]
NoReq == [pc |-> "idle", op |-> "none", b |-> NoBroadcast, draft |-> FALSE]
NoFan == [pc |-> "idle", b |-> NoBroadcast, job |-> "main", old |-> "none", n |-> 0]

Init ==
    /\ status = [b \in Broadcasts |-> "draft"]
    /\ started = [b \in Broadcasts |-> FALSE]
    /\ rows = [b \in Broadcasts |-> 0]
    /\ released = [b \in Broadcasts |-> 0]
    /\ job = [b \in Broadcasts |-> NoJob]
    /\ again = [b \in Broadcasts |-> "none"]
    /\ req = [a \in Requests |-> NoReq]
    /\ fan = [f \in Fans |-> NoFan]
    /\ reaping = {} /\ usage = 0 /\ ops = 0 /\ faults = 0
    /\ launched = 0 /\ uncounted = 0 /\ torn = {} /\ crossed = {}

ToReq(a, rec) == req' = [req EXCEPT ![a] = rec]
ToFan(f, rec) == fan' = [fan EXCEPT ![f] = rec]
Show(b, s) == status' = [status EXCEPT ![b] = s]

\* Requests and fanout slots that have b at hand.
At(b) == {a \in Requests : req[a].b = b}
FansAt(b) == {f \in Fans : fan[f].b = b}
\* A fanout job of b is still to run.
Waits(b) == job[b].state \in {"delayed", "ready"} \/ again[b] = "ready"
\* Launches between the cap's check and the count.
Underway == {a \in Requests : req[a].draft}

-----------------------------------------------------------------------------
(* /send                                                                    *)

Sends == {"send", "schedule"}

Permits(op) ==
    CASE op \in Sends     -> {"draft", "scheduled"}
      [] op = "pause"     -> {"sending", "scheduled"}
      [] op = "resume"    -> {"paused"}
      [] op = "cancel"    -> {"draft", "scheduled", "sending", "paused", "failed"}
      [] op = "delete"    -> {"draft", "scheduled", "sending", "paused", "failed", "completed", "cancelled"}

\* Mutant: the cap is off by one.
UnderTheCapOrAtIt == usage <= Cap

UnderTheCap == usage < Cap

\* The handler reads the broadcast and, for a draft, the plan's usage.
Receive(a, op, b) ==
    LET draft == op \in Sends /\ status[b] = "draft"
    IN  /\ req[a].pc = "idle" /\ ops < MaxOps
        /\ ops' = ops + 1
        /\ status[b] \in Permits(op)
        /\ draft => UnderTheCap
        /\ ToReq(a, [pc |-> "write", op |-> op, b |-> b, draft |-> draft])
        /\ uncounted' = IF draft /\ Underway # {} THEN uncounted + 1 ELSE uncounted
        /\ crossed' = IF At(b) # {} THEN crossed \cup {b} ELSE crossed
        /\ UNCHANGED <<table, queue, fan, reaping, usage, faults, launched, torn>>

\* A segment's recipients are created with the status; a CSV's come later.  The
\* wallet's balance, which is read next, may or may not pay for a message.
SendWrite(a) ==
    LET b == req[a].b
        later == req[a].op = "schedule"
    IN  /\ req[a].pc = "write" /\ req[a].op \in Sends
        /\ IF status[b] = "deleted" THEN ToReq(a, NoReq) /\ UNCHANGED <<table, launched>>
           ELSE /\ Show(b, IF later THEN "scheduled" ELSE "sending")
                /\ started' = [started EXCEPT ![b] = ~later]
                /\ rows' = IF b \in Csv THEN rows ELSE [rows EXCEPT ![b] = Batches]
                /\ launched' = IF req[a].draft THEN launched + 1 ELSE launched
                /\ \E pc \in {"dequeue", "rollback"} : ToReq(a, [req[a] EXCEPT !.pc = pc])
                /\ UNCHANGED released
        /\ UNCHANGED <<queue, fan, reaping, usage, ops, faults, uncounted, torn, crossed>>

\* Back to draft so they can retry; the job of an earlier schedule stays.
SendRollback(a) ==
    LET b == req[a].b
    IN  /\ req[a].pc = "rollback"
        /\ IF status[b] = "deleted" THEN UNCHANGED table
           ELSE /\ Show(b, "draft")
                /\ started' = [started EXCEPT ![b] = FALSE]
                /\ UNCHANGED <<rows, released>>
        /\ launched' = IF req[a].draft THEN launched - 1 ELSE launched
        /\ ToReq(a, NoReq)
        /\ UNCHANGED <<queue, fan, reaping, usage, ops, faults, uncounted, torn, crossed>>

\* An active job is locked and stays; the warning is logged.
Removed(b) == IF job[b].state = "active" THEN job ELSE [job EXCEPT ![b] = NoJob]

SendDequeue(a) ==
    /\ req[a].pc = "dequeue" /\ req[a].op \in Sends
    /\ job' = Removed(req[a].b)
    /\ crossed' = IF FansAt(req[a].b) # {} THEN crossed \cup {req[a].b} ELSE crossed
    /\ ToReq(a, [req[a] EXCEPT !.pc = "enqueue"])
    /\ UNCHANGED <<table, again, fan, reaping, usage, ops, faults, launched, uncounted, torn>>

\* BullMQ ignores an id it still has: active, or done less than a day ago.
SendEnqueue(a) ==
    LET b == req[a].b
    IN  /\ req[a].pc = "enqueue" /\ req[a].op \in Sends
        /\ job' = IF job[b].state # "none" THEN job
                  ELSE [job EXCEPT ![b] = Job(IF req[a].op = "schedule" THEN "delayed" ELSE "ready")]
        /\ ToReq(a, IF req[a].draft THEN [req[a] EXCEPT !.pc = "bump"] ELSE NoReq)
        /\ UNCHANGED <<table, again, fan, reaping, usage, ops, faults, seen>>

\* Fire and forget.
SendBump(a) ==
    /\ req[a].pc = "bump"
    /\ usage' = usage + 1
    /\ ToReq(a, NoReq)
    /\ UNCHANGED <<table, queue, fan, reaping, ops, faults, seen>>

-----------------------------------------------------------------------------
(* The other requests.                                                      *)

OpWrite(a) ==
    LET b == req[a].b
        op == req[a].op
    IN  /\ req[a].pc = "write" /\ op \notin Sends
        /\ IF status[b] = "deleted" THEN ToReq(a, NoReq) /\ UNCHANGED status
           ELSE /\ Show(b, CASE op = "pause"  -> "paused"
                             [] op = "resume" -> "sending"
                             [] op = "cancel" -> "cancelled"
                             [] op = "delete" -> "deleted")
                /\ \/ op = "pause" /\ ToReq(a, NoReq)
                   \/ op = "resume" /\ ToReq(a, [req[a] EXCEPT !.pc = "enqueue"])
                   \/ op \in {"cancel", "delete"} /\ ToReq(a, [req[a] EXCEPT !.pc = "dequeue"])
        /\ crossed' = IF FansAt(b) # {} THEN crossed \cup {b} ELSE crossed
        /\ UNCHANGED <<started, rows, released, queue, fan, reaping, usage, ops, faults, launched, uncounted, torn>>

\* A job of its own, with one attempt.
ResumeEnqueue(a) ==
    /\ req[a].pc = "enqueue" /\ req[a].op = "resume"
    /\ again' = [again EXCEPT ![req[a].b] = "ready"]
    /\ ToReq(a, NoReq)
    /\ UNCHANGED <<table, job, fan, reaping, usage, ops, faults, seen>>

OpDequeue(a) ==
    /\ req[a].pc = "dequeue" /\ req[a].op \in {"cancel", "delete"}
    /\ job' = Removed(req[a].b)
    /\ ToReq(a, NoReq)
    /\ UNCHANGED <<table, again, fan, reaping, usage, ops, faults, seen>>

\* A launch that dies before its count is never counted.
RequestFault(a) ==
    LET b == req[a].b
    IN  /\ req[a].pc # "idle" /\ faults < MaxFaults
        /\ faults' = faults + 1
        /\ crossed' = crossed \cup {b}
        /\ uncounted' = IF req[a].draft /\ req[a].pc # "write" THEN uncounted + 1 ELSE uncounted
        /\ ToReq(a, NoReq)
        /\ UNCHANGED <<table, queue, fan, reaping, usage, ops, launched, torn>>

Due(b) ==
    /\ job[b].state = "delayed"
    /\ job' = [job EXCEPT ![b].state = "ready"]
    /\ UNCHANGED <<table, again, req, fan, reaping, usage, ops, faults, seen>>

-----------------------------------------------------------------------------
(* The fanout worker.                                                       *)

\* The job leaves the queue: the main one is kept as done, another one is forgotten.
JobEnds(b, which) ==
    IF which = "main" THEN job' = [job EXCEPT ![b].state = "done"] /\ UNCHANGED again
    ELSE again' = [again EXCEPT ![b] = "none"] /\ UNCHANGED job

\* Mutant: a scheduled broadcast is none of its business.
FanTakeNoScheduled(f, b) ==
    /\ fan[f].pc = "idle" /\ job[b].state = "ready"
    /\ IF status[b] \in {"paused", "cancelled", "deleted", "scheduled"}
       THEN job' = [job EXCEPT ![b].state = "done"] /\ UNCHANGED fan
       ELSE /\ job' = [job EXCEPT ![b].state = "active"]
            /\ ToFan(f, [pc |-> "promote", b |-> b, job |-> "main", old |-> status[b], n |-> 0])
    /\ UNCHANGED <<table, again, req, reaping, usage, ops, faults, seen>>

\* It reads the broadcast: a paused or cancelled one is left alone.
FanTake(f, b) ==
    /\ fan[f].pc = "idle"
    /\ \E which \in {"main", "again"} :
          /\ (IF which = "main" THEN job[b].state ELSE again[b]) = "ready"
          /\ IF status[b] \in {"paused", "cancelled", "deleted"}
             THEN JobEnds(b, which) /\ UNCHANGED fan
             ELSE /\ IF which = "main" THEN job' = [job EXCEPT ![b].state = "active"] /\ UNCHANGED again
                     ELSE again' = [again EXCEPT ![b] = "active"] /\ UNCHANGED job
                  /\ ToFan(f, [pc |-> "promote", b |-> b, job |-> which, old |-> status[b], n |-> 0])
    /\ UNCHANGED <<table, req, reaping, usage, ops, faults, seen>>

\* By what it has read: whoever paused or cancelled in between is overruled.
FanPromote(f) ==
    LET b == fan[f].b
    IN  /\ fan[f].pc = "promote"
        /\ CASE fan[f].old = "scheduled" -> /\ Show(b, IF status[b] = "deleted" THEN "deleted" ELSE "sending")
                                            /\ started' = [started EXCEPT ![b] = TRUE]
             [] fan[f].old = "sending"   -> started' = [started EXCEPT ![b] = TRUE] /\ UNCHANGED status
             [] OTHER                    -> UNCHANGED <<status, started>>
        /\ ToFan(f, [fan[f] EXCEPT !.pc = IF b \in Csv THEN "count" ELSE "page"])
        /\ UNCHANGED <<rows, released, queue, req, reaping, usage, ops, faults, seen>>

\* The CSV is read only where there is no recipient yet.
FanCount(f) ==
    /\ fan[f].pc = "count"
    /\ ToFan(f, [fan[f] EXCEPT !.pc = IF rows[fan[f].b] = 0 THEN "stream" ELSE "page"])
    /\ torn' = IF \E g \in FansAt(fan[f].b) : fan[g].pc = "stream" THEN torn \cup {fan[f].b} ELSE torn
    /\ UNCHANGED <<table, queue, req, reaping, usage, ops, faults, launched, uncounted, crossed>>

\* Mutant: one batch, counted from those that are there.
FanStreamOnce(f) ==
    /\ fan[f].pc = "stream"
    /\ rows' = [rows EXCEPT ![fan[f].b] = 1]
    /\ ToFan(f, [fan[f] EXCEPT !.pc = "page"])
    /\ UNCHANGED <<status, started, released, queue, req, reaping, usage, ops, faults, seen>>

\* One batch, in a transaction that skips duplicates.
FanStream(f) ==
    LET b == fan[f].b
        n == fan[f].n + 1
    IN  /\ fan[f].pc = "stream"
        /\ rows' = IF rows[b] < n THEN [rows EXCEPT ![b] = n] ELSE rows
        /\ ToFan(f, [fan[f] EXCEPT !.n = n, !.pc = IF n = Batches THEN "page" ELSE "stream"])
        /\ UNCHANGED <<status, started, released, queue, req, reaping, usage, ops, faults, seen>>

\* Every pending recipient gets its send job, whatever the broadcast's status is now.
FanPage(f) ==
    LET b == fan[f].b
    IN  /\ fan[f].pc = "page"
        /\ released' = [released EXCEPT ![b] = rows[b]]
        /\ JobEnds(b, fan[f].job)
        /\ ToFan(f, NoFan)
        /\ UNCHANGED <<status, started, rows, req, reaping, usage, ops, faults, seen>>

\* A throw or a crash: the job waits for its next attempt or is exhausted.
FanFault(f) ==
    LET b == fan[f].b
        left == IF fan[f].job = "main" THEN job[b].left - 1 ELSE 0
    IN  /\ fan[f].pc \notin {"idle", "failed"} /\ faults < MaxFaults
        /\ faults' = faults + 1
        /\ torn' = IF fan[f].pc = "stream" /\ rows[b] > 0 THEN torn \cup {b} ELSE torn
        /\ IF left > 0 THEN /\ job' = [job EXCEPT ![b] = [state |-> "ready", left |-> left]]
                            /\ ToFan(f, NoFan) /\ UNCHANGED again
           ELSE JobEnds(b, fan[f].job) /\ ToFan(f, [fan[f] EXCEPT !.pc = "failed"])
        /\ UNCHANGED <<table, req, reaping, usage, ops, launched, uncounted, crossed>>

\* The failed handler, whatever has become of the broadcast.
FanFail(f) ==
    LET b == fan[f].b
    IN  /\ fan[f].pc = "failed"
        /\ IF status[b] = "deleted" THEN UNCHANGED status ELSE Show(b, "failed")
        /\ ToFan(f, NoFan)
        /\ UNCHANGED <<started, rows, released, queue, req, reaping, usage, ops, faults, seen>>

-----------------------------------------------------------------------------
(* The send workers' completion (BroadcastSend) and the reaper.             *)

Complete(b) ==
    /\ status[b] = "sending" /\ released[b] > 0 /\ released[b] = rows[b]
    /\ Show(b, "completed")
    /\ UNCHANGED <<started, rows, released, queue, req, fan, reaping, usage, ops, faults, seen>>

ReaperFind(b) ==
    /\ status[b] = "sending" /\ started[b] /\ b \notin reaping
    /\ reaping' = reaping \cup {b}
    /\ UNCHANGED <<table, queue, req, fan, usage, ops, faults, seen>>

\* By id.
ReaperFinish(b) ==
    /\ b \in reaping
    /\ reaping' = reaping \ {b}
    /\ IF status[b] = "deleted" THEN UNCHANGED status ELSE Show(b, "completed")
    /\ UNCHANGED <<started, rows, released, queue, req, fan, usage, ops, faults, seen>>

-----------------------------------------------------------------------------
Handle(a) ==
    \/ SendWrite(a) \/ SendRollback(a)
    \/ SendDequeue(a) \/ SendEnqueue(a) \/ SendBump(a)
    \/ OpWrite(a) \/ ResumeEnqueue(a) \/ OpDequeue(a)

FanWork(f) ==
    \/ FanPromote(f) \/ FanCount(f) \/ FanStream(f) \/ FanPage(f) \/ FanFail(f)
    \/ \E b \in Broadcasts : FanTake(f, b)

Reap(b) == ReaperFind(b) \/ ReaperFinish(b)

Next ==
    \/ \E a \in Requests : \/ Handle(a) \/ RequestFault(a)
                           \/ \E b \in Broadcasts, op \in Sends \cup {"pause", "resume", "cancel", "delete"} :
                                 Receive(a, op, b)
    \/ \E f \in Fans : FanWork(f) \/ FanFault(f)
    \/ \E b \in Broadcasts : Due(b) \/ Complete(b) \/ Reap(b)

Spec == Init /\ [][Next]_vars

\* The servers go on with what they have begun, delays end, and the reaper ticks.
FairSpec ==
    /\ Spec
    /\ \A a \in Requests : WF_vars(Handle(a))
    /\ \A f \in Fans : WF_vars(FanWork(f))
    /\ \A b \in Broadcasts : WF_vars(Due(b)) /\ WF_vars(Reap(b))

-----------------------------------------------------------------------------
Statuses == {"draft", "scheduled", "sending", "paused", "cancelled", "completed", "failed", "deleted"}

(* Types of the table, the queue and the local records.                     *)
TypeOK ==
    /\ status \in [Broadcasts -> Statuses]
    /\ started \in [Broadcasts -> BOOLEAN]
    /\ rows \in [Broadcasts -> 0 .. Batches]
    /\ released \in [Broadcasts -> 0 .. Batches]
    /\ job \in [Broadcasts -> [state : {"none", "delayed", "ready", "active", "done"}, left : 0 .. FanoutAttempts]]
    /\ again \in [Broadcasts -> {"none", "ready", "active"}]
    /\ \A b \in Broadcasts : \A f, g \in FansAt(b) :
          fan[f].job = fan[g].job /\ fan[f].pc # "failed" /\ fan[g].pc # "failed" => f = g \/ fan[f].job = "again"
    /\ reaping \subseteq Broadcasts /\ usage \in Nat /\ launched \in Int /\ uncounted \in Nat

\* The month's launches stay within the plan's cap, but for those that were checked
\* while another one was still to be counted, or whose count was lost.
LaunchesWithinCap == launched <= Cap + uncounted

\* With no fanout at work or to come, a CSV's audience is whole or unread, and what a
\* broadcast that is sending has of it is released; unless a run died in the middle
\* of the CSV, or ran beside the one that read it, or a request was cut short.
AudienceIsWhole ==
    \A b \in Csv \ torn :
        FansAt(b) = {} /\ ~Waits(b) =>
            /\ rows[b] \in {0, Batches}
            /\ status[b] = "sending" /\ At(b) = {} /\ b \notin crossed => released[b] = rows[b]

\* A launch comes to an end: "a broadcast must never stay sending forever", even one
\* that was resumed before it had ever started, and a scheduled one is not forgotten;
\* unless its request was cut short or overlapped another one or the fanout.
LaunchesEnd ==
    \A b \in Broadcasts :
        status[b] \in {"scheduled", "sending"} ~> (status[b] \notin {"scheduled", "sending"} \/ b \in crossed)
=============================================================================
