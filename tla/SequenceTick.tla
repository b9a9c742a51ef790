---------------------------- MODULE SequenceTick ----------------------------
(***************************************************************************)
(* The drip sequence of one tenant: the tick that sends the steps that are *)
(* due, on every worker replica, against the operator's requests           *)
(* (apps/worker/src/jobs/sequence-tick.ts, sequences.routes.ts).           *)
(*                                                                         *)
(* A tick holds a Redis lock that expires and is never released; it sends, *)
(* records, charges and advances an enrollment in separate statements, and *)
(* writes its row by id.  A step here is what happens between two awaits.  *)
(***************************************************************************)
EXTENDS Wallet

CONSTANTS
    NoEnrollment,   \* no enrollment at hand
    Enrollments,    \* contacts that may be enrolled in the sequence
    Ticks,          \* worker replicas
    Take,           \* enrollments a tick takes (200)
    Overruns,       \* a tick may take longer than its lock (TICK_LOCK_TTL_S)
    Requests,       \* what operators, contacts and headquarters do in a run
    MaxSteps,       \* bound: steps of the sequence
    MaxMessages,    \* bound: messages Meta accepts per enrollment and step
    MaxFaults,      \* bound: crashes, throws and lost answers
    MaxOps          \* bound: requests

ASSUME TicksAssumption == /\ IsFiniteSet(Ticks)
                          /\ Ticks # {}
                          /\ NoEnrollment \notin Enrollments
                          /\ Take \in Nat \ {0}
                          /\ MaxSteps \in Nat \ {0}
                          /\ MaxMessages \in Nat

VARIABLES
    steps,          \* the number of sequence_steps
    optedOut,       \* contacts.opted_out_at or deleted_at is set
    est,            \* sequence_enrollments.status, "none" where there is no row
    idx,            \* .next_step_index
    due,            \* enrollments whose next_step_due_at has come
    older,          \* pairs of them, the one with the earlier date first
    lock,           \* lock:sequence-tick
    tick,           \* the replicas' local records
    sent            \* Meta: messages accepted per enrollment and step

(***************************************************************************)
(* Observations: faults and requests so far; attempts at a step that were  *)
(* interrupted after Meta accepted; messages accepted of metered attempts, *)
(* and those of them interrupted before their charge; enrollments that     *)
(* were over at some time, and messages accepted for them since.           *)
(***************************************************************************)
VARIABLES faults, ops, broken, out, lost, ended, late

rows == <<est, idx, due, older>>
counts == <<faults, ops, broken, lost>>
vars == <<walletVars, steps, optedOut, rows, lock, tick, sent, counts, out, ended, late>>

Indices == 0 .. MaxSteps - 1

Idle == [pc |-> "idle", batch |-> {}, e |-> NoEnrollment, i |-> 0, n |-> 0, unit |-> 0]

Init ==
    /\ WalletInit
    /\ steps \in 1 .. MaxSteps
    /\ optedOut = {}
    /\ est = [e \in Enrollments |-> "none"]
    /\ idx = [e \in Enrollments |-> 0]
    /\ due = {}
    /\ older = {}
    /\ lock = FALSE
    /\ tick = [p \in Ticks |-> Idle]
    /\ sent = [e \in Enrollments |-> [i \in Indices |-> 0]]
    /\ faults = 0 /\ ops = 0
    /\ broken = [e \in Enrollments |-> [i \in Indices |-> 0]]
    /\ out = 0 /\ lost = 0
    /\ ended = {}
    /\ late = [e \in Enrollments |-> 0]

Active(e) == est[e] = "active"

-----------------------------------------------------------------------------
(* The tick.                                                                *)

At(p, pc) == tick[p].pc = pc

Goto(p, pc) == tick' = [tick EXCEPT ![p].pc = pc]

\* A tick goes on with the enrollments it has left, or ends.
With(batch) == IF batch = {} THEN Idle ELSE [Idle EXCEPT !.pc = "read", !.batch = batch]

Continue(p) == tick' = [tick EXCEPT ![p] = With(@.batch)]

\* Mutant: the lock is set whether or not it is held.
TakeLockAnyway(p) ==
    /\ At(p, "idle")
    /\ lock' = TRUE
    /\ Goto(p, "scan")
    /\ UNCHANGED <<walletVars, steps, optedOut, rows, sent, counts, out>>

TakeLock(p) ==
    /\ At(p, "idle")
    /\ ~lock
    /\ lock' = TRUE
    /\ Goto(p, "scan")
    /\ UNCHANGED <<walletVars, steps, optedOut, rows, sent, counts, out>>

\* Mutant: the lock has no expiry.
ExpireNever ==
    /\ lock
    /\ FALSE
    /\ UNCHANGED <<walletVars, steps, optedOut, rows, lock, tick, sent, counts, out>>

Expire ==
    /\ lock
    /\ Overruns \/ \A p \in Ticks : At(p, "idle")
    /\ lock' = FALSE
    /\ UNCHANGED <<walletVars, steps, optedOut, rows, tick, sent, counts, out>>

\* Enrollments that are due, active, and among the Take oldest of these.
Oldest ==
    LET waits == {e \in due : Active(e)}
    IN  {e \in waits : Cardinality({d \in waits : <<d, e>> \in older}) < Take}

Scan(p) ==
    /\ At(p, "scan")
    /\ tick' = [tick EXCEPT ![p] = With(Oldest)]
    /\ UNCHANGED <<walletVars, steps, optedOut, rows, lock, sent, counts, out>>

\* Mutant: the number of steps is not compared.
ReadPastEnd(p) ==
    /\ At(p, "read")
    /\ \E e \in tick[p].batch :
          tick' = [tick EXCEPT ![p] =
              IF ~Active(e) THEN With(@.batch \ {e})
              ELSE [pc |-> IF e \in optedOut THEN "cancel" ELSE "gate",
                    batch |-> @.batch \ {e}, e |-> e, i |-> idx[e], n |-> steps, unit |-> 0]]
    /\ UNCHANGED <<walletVars, steps, optedOut, rows, lock, sent, counts, out>>

\* The batch is taken in some order; the code's is the order of their dates.
Read(p) ==
    /\ At(p, "read")
    /\ \E e \in tick[p].batch :
          tick' = [tick EXCEPT ![p] =
              IF ~Active(e) THEN With(@.batch \ {e})
              ELSE [pc |-> IF e \in optedOut THEN "cancel"
                           ELSE IF idx[e] >= steps THEN "complete" ELSE "gate",
                    batch |-> @.batch \ {e}, e |-> e, i |-> idx[e], n |-> steps, unit |-> 0]]
    /\ UNCHANGED <<walletVars, steps, optedOut, rows, lock, sent, counts, out>>

\* The channel may be unconfigured and the template gone; the price is the
\* wallet's, if the tenant is metered.
Gate(p) ==
    /\ At(p, "gate")
    /\ \/ Continue(p)
       \/ Goto(p, "cancel")
       \/ tick' = [tick EXCEPT ![p].pc = IF metering THEN "afford" ELSE "call",
                               ![p].unit = IF metering THEN price ELSE 0]
    /\ UNCHANGED <<walletVars, steps, optedOut, rows, lock, sent, counts, out>>

\* Mutant: the balance is not looked at.
AffordAnything(p) ==
    /\ At(p, "afford")
    /\ Goto(p, "call")
    /\ UNCHANGED <<walletVars, steps, optedOut, rows, lock, sent, counts, out>>

Afford(p) ==
    /\ At(p, "afford")
    /\ IF Affordable(tick[p].unit) THEN Goto(p, "call") ELSE Continue(p)
    /\ UNCHANGED <<walletVars, steps, optedOut, rows, lock, sent, counts, out>>

\* An attempt that Meta accepted goes no further.
Interrupt(p) ==
    /\ faults' = faults + 1
    /\ broken' = [broken EXCEPT ![tick[p].e][tick[p].i] = @ + 1]

\* Accepted, accepted with the answer lost, or refused: the tick goes on.
CallMeta(p) ==
    LET e == tick[p].e
        i == tick[p].i
        accepts == /\ sent[e][i] < MaxMessages
                   /\ sent' = [sent EXCEPT ![e][i] = @ + 1]
                   /\ out' = out + IF tick[p].unit > 0 THEN 1 ELSE 0
    IN  /\ At(p, "call")
        /\ \/ accepts /\ Goto(p, "record") /\ UNCHANGED <<faults, broken, lost>>
           \/ /\ accepts /\ faults < MaxFaults /\ Interrupt(p) /\ Continue(p)
              /\ lost' = lost + IF tick[p].unit > 0 THEN 1 ELSE 0
           \/ Continue(p) /\ UNCHANGED <<sent, out, faults, broken, lost>>
        /\ UNCHANGED <<walletVars, steps, optedOut, rows, lock, ops>>

Record(p) ==
    /\ At(p, "record")
    /\ Goto(p, IF tick[p].unit > 0 THEN "charge" ELSE "advance")
    /\ UNCHANGED <<walletVars, steps, optedOut, rows, lock, sent, counts, out>>

Charge(p) ==
    /\ At(p, "charge")
    /\ ChargeDirect(tick[p].unit, FALSE)
    /\ Goto(p, "advance")
    /\ UNCHANGED <<steps, optedOut, rows, lock, sent, counts, out>>

\* The date of the enrollment is moved to the future.
Postpone(e) ==
    /\ due' = due \ {e}
    /\ older' = {pair \in older : pair[1] # e /\ pair[2] # e}

\* The date of the enrollment has come, after that of all that wait.
FallDue(e) ==
    /\ due' = due \cup {e}
    /\ older' = older \cup (due \X {e})

\* Mutant: the row is written back as it was read, its status too.
AdvanceActive(p) ==
    LET e == tick[p].e
        last == tick[p].i + 1 >= tick[p].n
    IN  /\ At(p, "advance")
        /\ idx' = [idx EXCEPT ![e] = tick[p].i + 1]
        /\ est' = [est EXCEPT ![e] = IF last THEN "completed" ELSE "active"]
        /\ IF last THEN UNCHANGED <<due, older>> ELSE Postpone(e)
        /\ Continue(p)
        /\ UNCHANGED <<walletVars, steps, optedOut, lock, sent, counts, out>>

\* The next step, as the tick read them, or the end; written by id.
Advance(p) ==
    LET e == tick[p].e
        last == tick[p].i + 1 >= tick[p].n
    IN  /\ At(p, "advance")
        /\ idx' = [idx EXCEPT ![e] = tick[p].i + 1]
        /\ est' = IF last THEN [est EXCEPT ![e] = "completed"] ELSE est
        /\ IF last THEN UNCHANGED <<due, older>> ELSE Postpone(e)
        /\ Continue(p)
        /\ UNCHANGED <<walletVars, steps, optedOut, lock, sent, counts, out>>

CloseRow(p) ==
    /\ At(p, "cancel") \/ At(p, "complete")
    /\ est' = [est EXCEPT ![tick[p].e] = IF At(p, "cancel") THEN "cancelled" ELSE "completed"]
    /\ Continue(p)
    /\ UNCHANGED <<walletVars, steps, optedOut, idx, due, older, lock, sent, counts, out>>

AfterAccept == {"record", "charge", "advance"}

\* A statement throws, which costs the enrollment its turn, or the process dies.
Fault(p) ==
    /\ ~At(p, "idle")
    /\ faults < MaxFaults
    /\ \/ ~At(p, "read") /\ Continue(p)
       \/ At(p, "read") /\ \E e \in tick[p].batch :
                               tick' = [tick EXCEPT ![p] = With(@.batch \ {e})]
       \/ tick' = [tick EXCEPT ![p] = Idle]
    /\ IF tick[p].pc \in AfterAccept THEN Interrupt(p)
       ELSE faults' = faults + 1 /\ UNCHANGED broken
    /\ lost' = lost + IF tick[p].unit > 0 /\ tick[p].pc \in {"record", "charge"} THEN 1 ELSE 0
    /\ UNCHANGED <<walletVars, steps, optedOut, rows, lock, sent, ops, out>>

Run(p) ==
    \/ TakeLock(p) \/ Scan(p) \/ Read(p) \/ Gate(p) \/ Afford(p) \/ CallMeta(p)
    \/ Record(p) \/ Charge(p) \/ Advance(p) \/ CloseRow(p)

-----------------------------------------------------------------------------
(* Everyone else.                                                           *)

\* A contact has one enrollment in a sequence, whatever became of it.
Enroll(e) ==
    /\ est[e] = "none" /\ e \notin optedOut
    /\ est' = [est EXCEPT ![e] = "active"]
    /\ FallDue(e)
    /\ UNCHANGED <<walletVars, steps, optedOut, idx, lock, tick, sent, counts, out>>

\* The delay of the next step is over.
Elapse(e) ==
    /\ Active(e) /\ e \notin due
    /\ FallDue(e)
    /\ UNCHANGED <<walletVars, steps, optedOut, est, idx, lock, tick, sent, counts, out>>

Cancel(e) ==
    /\ est[e] # "none"
    /\ est' = [est EXCEPT ![e] = "cancelled"]
    /\ UNCHANGED <<walletVars, steps, optedOut, idx, due, older, lock, tick, sent, out>>

OptOut(e) ==
    /\ optedOut' = optedOut \cup {e}
    /\ UNCHANGED <<walletVars, steps, rows, lock, tick, sent, out>>

\* Mutant: replacing the steps starts every enrollment over.
ReplaceRestarts(n) ==
    /\ steps' = n
    /\ idx' = [e \in Enrollments |-> 0]
    /\ UNCHANGED <<walletVars, optedOut, est, due, older, lock, tick, sent, out>>

\* The set of steps is replaced, whoever is enrolled.
Replace(n) ==
    /\ steps' = n
    /\ UNCHANGED <<walletVars, optedOut, rows, lock, tick, sent, out>>

Headquarters ==
    /\ \/ \E amount \in TopUps : TopUp(amount)
       \/ \E asked \in Requested : SetPrice(asked)
       \/ \E enabled \in BOOLEAN : SetMetering(enabled)
    /\ UNCHANGED <<steps, optedOut, rows, lock, tick, sent, out>>

Request ==
    /\ ops < MaxOps
    /\ ops' = ops + 1
    /\ UNCHANGED <<faults, broken, lost>>
    /\ \/ "cancel" \in Requests /\ \E e \in Enrollments : Cancel(e)
       \/ "optout" \in Requests /\ \E e \in Enrollments : OptOut(e)
       \/ "replace" \in Requests /\ \E n \in 1 .. MaxSteps : Replace(n)
       \/ "wallet" \in Requests /\ Headquarters

-----------------------------------------------------------------------------
Over == {"completed", "cancelled"}

Observe ==
    /\ ended' = ended \cup {e \in Enrollments : est'[e] \in Over}
    /\ late' = [e \in Enrollments |->
                   late[e] + IF e \in ended /\ sent'[e] # sent[e] THEN 1 ELSE 0]

Step ==
    \/ \E p \in Ticks : Run(p) \/ Fault(p)
    \/ Expire
    \/ \E e \in Enrollments : Enroll(e) \/ Elapse(e)
    \/ Request

Next == Step /\ Observe

Spec == Init /\ [][Next]_vars

\* A replica's timer fires again and again and the lock expires; nobody need
\* ask for anything, and Meta need not accept.
Fairness ==
    /\ \A p \in Ticks : WF_vars(Run(p) /\ Observe)
    /\ WF_vars(Expire /\ Observe)

FairSpec == Spec /\ Fairness

-----------------------------------------------------------------------------
Working == {"gate", "afford", "call", "cancel", "complete"} \cup AfterAccept
Stage == {"idle", "scan", "read"} \cup Working

Slot == [pc : Stage, batch : SUBSET Enrollments, e : Enrollments \cup {NoEnrollment},
         i : 0 .. MaxSteps, n : 0 .. MaxSteps, unit : Nat]

\* A replica works on an enrollment, at a step its reading of the sequence has.
Holds(t) ==
    /\ t.pc \in Working => t.e \in Enrollments
    /\ t.pc \in {"gate", "afford", "call"} \cup AfterAccept => t.i < t.n
    /\ t.pc = "read" => t.batch # {}

(* Types of the rows, the lock and the replicas' records.                   *)
TypeOK ==
    /\ steps \in 1 .. MaxSteps
    /\ optedOut \subseteq Enrollments
    /\ est \in [Enrollments -> {"none", "active", "completed", "cancelled"}]
    /\ idx \in [Enrollments -> 0 .. MaxSteps]
    /\ due \subseteq Enrollments /\ older \subseteq due \X due
    /\ lock \in BOOLEAN
    /\ tick \in [Ticks -> Slot] /\ \A p \in Ticks : Holds(tick[p])
    /\ sent \in [Enrollments -> [Indices -> 0 .. MaxMessages]]
    /\ broken \in [Enrollments -> [Indices -> Nat]]
    /\ out \in Nat /\ lost \in Nat
    /\ ended \subseteq Enrollments
    /\ late \in [Enrollments -> Nat]

\* "Distributed lock so multiple worker replicas don't double-fire", and a step
\* is otherwise repeated only after an attempt that was interrupted once Meta
\* had accepted (sequence-tick.ts).
StepIsSentOnce ==
    \A e \in Enrollments, i \in Indices : sent[e][i] <= 1 + broken[e][i]

\* Replicas with a metered message that Meta accepted and that is yet to be charged.
Unpaid == {p \in Ticks : tick[p].pc \in {"record", "charge"} /\ tick[p].unit > 0}

\* Every debit pays for a step that Meta accepted; and where ticks do not
\* overlap and nobody else spends, every metered step is paid for.
StepsArePaid ==
    LET paid == direct + Cardinality(Unpaid) + lost
    IN  paid <= out /\ (Overruns \/ paid = out)

\* Replicas that found the enrollment active and may still message it.
Committed(e) == {p \in Ticks : tick[p].e = e /\ tick[p].pc \in {"gate", "afford", "call"}}

\* "Cancel an enrollment (no further steps will fire)" (sequences.routes.ts): but
\* for the attempt under way, of every replica if ticks overlap.
OverIsOver ==
    \A e \in ended :
        late[e] + Cardinality(Committed(e)) <= IF Overruns THEN Cardinality(Ticks) ELSE 1

\* An enrollment never goes back to a step it has behind it: its index is
\* written by id from what the tick read.
NeverGoesBack == [][\A e \in Enrollments : idx'[e] >= idx[e]]_vars

\* "Every 30 seconds, scan for active enrollments whose next_step_due_at has
\* arrived": whoever is due gets its turn, in spite of crashes and the lock.
DueIsServed ==
    \A e \in Enrollments :
        Active(e) /\ e \in due ~> ~Active(e) \/ e \notin due \/ \E p \in Ticks : tick[p].e = e
=============================================================================
