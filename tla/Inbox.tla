-------------------------------- MODULE Inbox --------------------------------
(***************************************************************************)
(* The conversations of one customer with one organization on WhatsApp:    *)
(* the webhook that stores what the customer writes, the bot's turn that   *)
(* follows it (api/src/modules/whatsapp/whatsapp.routes.ts, maybeReplyAsBot)*)
(* and the operators' requests (whatsapp-inbox/inbox.routes.ts).           *)
(*                                                                         *)
(* A conversation is one of the organization's numbers.  A webhook carries *)
(* one message.  A transaction is read committed: where it reads before it *)
(* writes it is two steps.                                                 *)
(***************************************************************************)
EXTENDS Integers, FiniteSets

CONSTANTS
    Numbers,        \* the organization's WhatsApp numbers
    Messages,       \* what the customer may write
    Stops,          \* those that read STOP
    Hooks,          \* webhook handlers, each with the turn it starts
    Ops,            \* handlers of PATCH /inbox/threads/:id
    NoNumber, NoMessage, NoHook,
    MaxOps,         \* bound: operators' requests
    MaxFaults       \* bound: crashes and failed statements

ASSUME InboxAssumption ==
    /\ Stops \subseteq Messages
    /\ MaxOps \in Nat /\ MaxFaults \in Nat
    /\ NoNumber \notin Numbers /\ NoMessage \notin Messages /\ NoHook \notin Hooks

VARIABLES
    mail,           \* Meta's side: the number a message was sent to, and whether it must be delivered
    kept,           \* rows of whatsapp_messages that hold the message
    thread,         \* whatsapp_threads, a row per number; "id" tells a row from the one before it
    contact,        \* opted_out_at and blocked_at of the customer's contact
    token,          \* botcoalesce:<org>:<phone> in Redis
    hook, op,       \* local records of the handlers
    ops, faults

(***************************************************************************)
(* Observations: messages stored while another delivery of theirs was      *)
(* being stored, messages a turn has read, messages that lost their turn,  *)
(* two replies to one burst.                                               *)
(***************************************************************************)
VARIABLES twins, heard, dropped, doubled

seen == <<twins, heard, dropped, doubled>>
tables == <<kept, thread, contact>>
vars == <<mail, tables, token, hook, op, ops, faults, seen>>

NoThread == [up |-> FALSE, id |-> 0, status |-> "open", human |-> FALSE]

Idle == [pc |-> "idle", m |-> NoMessage, found |-> FALSE, at |-> NoNumber, id |-> 0,
         hand |-> FALSE, short |-> FALSE, beat |-> FALSE]

NoPatch == [at |-> NoNumber, id |-> 0, open |-> FALSE]

\* The customer is new, or a human has the conversation already.
Init ==
    /\ mail = [m \in Messages |-> [to |-> NoNumber, due |-> FALSE]]
    /\ kept = [m \in Messages |-> 0]
    /\ thread \in [Numbers -> {NoThread, [NoThread EXCEPT !.up = TRUE, !.human = TRUE]}]
    /\ contact = [out |-> FALSE, blocked |-> FALSE]
    /\ token = NoHook
    /\ hook = [h \in Hooks |-> Idle]
    /\ op = [o \in Ops |-> NoPatch]
    /\ ops = 0 /\ faults = 0
    /\ twins = {} /\ heard = {} /\ dropped = {} /\ doubled = FALSE

At(h, pc) == hook[h].pc = pc
ToHook(h, rec) == hook' = [hook EXCEPT ![h] = rec]
Goto(h, pc) == hook' = [hook EXCEPT ![h].pc = pc]
To(h) == mail[hook[h].m].to
Fault == faults < MaxFaults /\ faults' = faults + 1

\* One customer who has talked to several of the numbers.
Several ==
    Cardinality({n \in Numbers : thread[n].up \/ thread[n].id > 0 \/ \E m \in Messages : mail[m].to = n}) > 1

-----------------------------------------------------------------------------
(* Meta.                                                                    *)

Write(m, n) ==
    /\ mail[m].to = NoNumber
    /\ mail' = [mail EXCEPT ![m] = [to |-> n, due |-> TRUE]]
    /\ UNCHANGED <<tables, token, hook, op, ops, faults, seen>>

\* Mutant: a message is stored whether or not it was before.
ReceiveAnyway(h, m) ==
    /\ At(h, "idle") /\ mail[m].due
    /\ ToHook(h, [Idle EXCEPT !.pc = "contact", !.m = m])
    /\ twins' = IF \E g \in Hooks : hook[g].m = m /\ hook[g].pc \in {"contact", "find", "store"}
                THEN twins \cup {m} ELSE twins
    /\ UNCHANGED <<mail, tables, token, op, ops, faults, heard, dropped, doubled>>

\* A delivery, or one more while no answer has come.  A message that is stored is
\* answered and nothing else: whoever stored it has its turn.
Receive(h, m) ==
    /\ At(h, "idle") /\ mail[m].due
    /\ IF kept[m] > 0
       THEN mail' = [mail EXCEPT ![m].due = FALSE] /\ UNCHANGED <<hook, twins>>
       ELSE /\ ToHook(h, [Idle EXCEPT !.pc = "contact", !.m = m])
            /\ twins' = IF \E g \in Hooks : hook[g].m = m /\ hook[g].pc \in {"contact", "find", "store"}
                        THEN twins \cup {m} ELSE twins
            /\ UNCHANGED mail
    /\ UNCHANGED <<tables, token, op, ops, faults, heard, dropped, doubled>>

-----------------------------------------------------------------------------
(* The webhook stores the message.  Its transactions' failures are logged.  *)

\* The contact, opted out by a STOP.
Contact(h) ==
    /\ At(h, "contact")
    /\ \/ contact' = [contact EXCEPT !.out = @ \/ hook[h].m \in Stops] /\ UNCHANGED faults
       \/ Fault /\ UNCHANGED contact
    /\ Goto(h, "find")
    /\ UNCHANGED <<mail, kept, thread, token, op, ops, seen>>

\* upsertWaThread looks for the number's thread.
FindThread(h) ==
    /\ At(h, "find")
    /\ ToHook(h, [hook[h] EXCEPT !.pc = "store", !.found = thread[To(h)].up, !.id = thread[To(h)].id])
    /\ UNCHANGED <<mail, tables, token, op, ops, faults, seen>>

\* The thread is opened again, or created, and the message is inserted.  A thread that was
\* deleted cannot be updated; one that was created meanwhile violates the unique index, and
\* PostgreSQL takes no further statement of the transaction.
StoreMessage(h) ==
    LET n == To(h)
        t == thread[n]
    IN  /\ At(h, "store")
        /\ ToHook(h, [hook[h] EXCEPT !.pc = "answer", !.found = FALSE, !.id = 0])
        /\ \/ /\ IF hook[h].found THEN t.up /\ t.id = hook[h].id ELSE ~t.up
              /\ thread' = [thread EXCEPT ![n] = IF hook[h].found THEN [@ EXCEPT !.status = "open"]
                                                 ELSE [NoThread EXCEPT !.up = TRUE, !.id = t.id]]
              /\ kept' = [kept EXCEPT ![hook[h].m] = @ + 1]
              /\ UNCHANGED faults
           \/ /\ IF hook[h].found THEN ~(t.up /\ t.id = hook[h].id) ELSE t.up
              /\ UNCHANGED <<thread, kept, faults>>
           \/ Fault /\ UNCHANGED <<thread, kept>>
        /\ UNCHANGED <<mail, contact, token, op, ops, seen>>

\* 200, and the turn goes on by itself.
Answer(h) ==
    /\ At(h, "answer")
    /\ mail' = [mail EXCEPT ![hook[h].m].due = FALSE]
    /\ Goto(h, "token")
    /\ UNCHANGED <<tables, token, op, ops, faults, seen>>

-----------------------------------------------------------------------------
(* The bot's turn.  The cap of twenty turns a minute is never met here.     *)

Leave(h) == ToHook(h, Idle)

\* Mutant: the token is taken as a lock is, by whoever comes first.
SetTokenOnce(h) ==
    /\ At(h, "token")
    /\ token' = IF token = NoHook THEN h ELSE token
    /\ Goto(h, "wait")
    /\ UNCHANGED <<mail, tables, op, ops, faults, seen>>

\* The latest message's token; without Redis the turn goes on at once.
SetToken(h) ==
    /\ At(h, "token")
    /\ \/ token' = h /\ Goto(h, "wait") /\ UNCHANGED faults
       \/ Fault /\ Goto(h, "gate") /\ UNCHANGED token
    /\ UNCHANGED <<mail, tables, op, ops, seen>>

Pass(h) ==
    /\ hook' = [g \in Hooks |-> IF g = h THEN [hook[g] EXCEPT !.pc = "gate", !.beat = FALSE]
                                ELSE [hook[g] EXCEPT !.beat = @ \/ hook[g].pc = "wait"]]
    /\ doubled' = (doubled \/ hook[h].beat)

\* Mutant: whoever has waited goes on.
CheckNothing(h) ==
    /\ At(h, "wait")
    /\ Pass(h)
    /\ UNCHANGED <<mail, tables, token, op, ops, faults, twins, heard, dropped>>

\* Two seconds later: a newer message takes the turn.  The token outlives every wait.
Check(h) ==
    /\ At(h, "wait")
    /\ IF token = h THEN Pass(h) ELSE Leave(h) /\ UNCHANGED doubled
    /\ UNCHANGED <<mail, tables, token, op, ops, faults, twins, heard, dropped>>

Stored(n) == {m \in Messages : mail[m].to = n /\ kept[m] > 0}

\* The turn reads one of the customer's threads, whichever comes first, and stops where a
\* human has it, where it waits for one, where the customer is blocked or has opted out, and
\* where the bot is switched off or the voice note cannot be read.
Gate(h) ==
    /\ At(h, "gate")
    /\ \/ (\A n \in Numbers : ~thread[n].up) /\ Leave(h) /\ UNCHANGED heard
       \/ \E n \in Numbers :
             /\ thread[n].up
             /\ heard' = heard \cup Stored(n)
             /\ \/ Leave(h)
                \/ /\ ~thread[n].human /\ thread[n].status # "escalated"
                   /\ ~contact.out /\ ~contact.blocked
                   /\ ToHook(h, [hook[h] EXCEPT !.pc = "send", !.at = n, !.id = thread[n].id])
    /\ UNCHANGED <<mail, tables, token, op, ops, faults, twins, dropped, doubled>>

\* The model is asked and the reply goes out, from the number the message came to.  "short":
\* the fast path and the confirmed handoff, which record whatever Meta answers.
Send(h) ==
    /\ At(h, "send")
    /\ \/ Leave(h)                         \* nothing to say, no connection, or refused
       \/ \E hand, short \in BOOLEAN :
             ToHook(h, [hook[h] EXCEPT !.pc = "record", !.hand = hand, !.short = short])
    /\ UNCHANGED <<mail, tables, token, op, ops, faults, twins, heard, dropped, doubled>>

Escalates(h, n) ==
    thread' = IF hook[h].hand THEN [thread EXCEPT ![n].status = "escalated"] ELSE thread

\* The short replies are recorded in the thread that was read, the others in the one that is
\* found now.
Record(h) ==
    /\ At(h, "record")
    /\ IF hook[h].short
       THEN LET n == hook[h].at
            IN  IF thread[n].up /\ thread[n].id = hook[h].id THEN Escalates(h, n)
                ELSE UNCHANGED thread
       ELSE \/ \E n \in Numbers : thread[n].up /\ Escalates(h, n)
            \/ (\A n \in Numbers : ~thread[n].up) /\ UNCHANGED thread
    /\ Leave(h)
    /\ UNCHANGED <<mail, kept, contact, token, op, ops, faults, twins, heard, dropped, doubled>>

\* The process ends, or a statement of the turn throws.
Crash(h) ==
    /\ ~At(h, "idle")
    /\ Fault
    /\ Leave(h)
    /\ dropped' = dropped \cup {m \in Messages : kept[m] > 0 /\ m \notin heard}
    /\ UNCHANGED <<mail, tables, token, op, ops, twins, heard, doubled>>

-----------------------------------------------------------------------------
(* The operators.                                                           *)

Counted == ops < MaxOps /\ ops' = ops + 1

\* A human takes the conversation: the status is read first, and the flag cleared.
TakeRead(o, n) ==
    /\ Counted
    /\ op[o].at = NoNumber /\ thread[n].up
    /\ op' = [op EXCEPT ![o] = [at |-> n, id |-> thread[n].id, open |-> thread[n].status = "escalated"]]
    /\ UNCHANGED <<mail, tables, token, hook, faults, seen>>

TakeWrite(o) ==
    LET n == op[o].at
    IN  /\ n # NoNumber
        /\ IF thread[n].up /\ thread[n].id = op[o].id
           THEN thread' = [thread EXCEPT ![n].human = TRUE, ![n].status = IF op[o].open THEN "open" ELSE @]
           ELSE UNCHANGED thread
        /\ op' = [op EXCEPT ![o] = NoPatch]
        /\ UNCHANGED <<mail, kept, contact, token, hook, ops, faults, twins, heard, dropped, doubled>>

\* The requests that write one thread at once: back to the bot, a status ("resolved" stands
\* for pending too), auto-assignment.
Settle(n, human, status) ==
    /\ Counted
    /\ thread[n].up
    /\ thread' = [thread EXCEPT ![n].human = human, ![n].status = status]
    /\ UNCHANGED <<mail, kept, contact, token, hook, op, faults, twins, heard, dropped, doubled>>

Release(n) == Settle(n, FALSE, thread[n].status)
SetStatus(n) == \E s \in {"open", "resolved", "escalated"} : Settle(n, thread[n].human, s)
AutoAssign(n) == Settle(n, TRUE, thread[n].status)

\* A reply of an operator, after Meta has taken it; nobody writes to who is blocked.
Reply(n) ==
    /\ Counted
    /\ ~contact.blocked
    /\ thread' = [thread EXCEPT ![n].up = TRUE, ![n].human = TRUE,
                                ![n].status = IF thread[n].up /\ @ # "escalated" THEN @ ELSE "open"]
    /\ UNCHANGED <<mail, kept, contact, token, hook, op, faults, twins, heard, dropped, doubled>>

\* The thread's messages are deleted, and with Delete the thread.
Forget(n, rec) ==
    /\ Counted
    /\ thread[n].up
    /\ thread' = [thread EXCEPT ![n] = rec]
    /\ kept' = [m \in Messages |-> IF mail[m].to = n THEN 0 ELSE kept[m]]
    /\ UNCHANGED <<mail, contact, token, hook, op, faults, twins, heard, dropped, doubled>>

Delete(n) == Forget(n, [NoThread EXCEPT !.id = thread[n].id + 1])
Reset(n) == Forget(n, [thread[n] EXCEPT !.status = "open"])

Block ==
    /\ Counted
    /\ \E n \in Numbers : thread[n].up
    /\ contact' = [contact EXCEPT !.blocked = ~@]
    /\ UNCHANGED <<mail, kept, thread, token, hook, op, faults, seen>>

-----------------------------------------------------------------------------
Handle(h) ==
    \/ Contact(h) \/ FindThread(h) \/ StoreMessage(h) \/ Answer(h)
    \/ SetToken(h) \/ Check(h) \/ Gate(h) \/ Send(h) \/ Record(h)

Operate ==
    \/ \E o \in Ops : TakeWrite(o) \/ \E n \in Numbers : TakeRead(o, n)
    \/ \E n \in Numbers : Release(n) \/ SetStatus(n) \/ AutoAssign(n) \/ Reply(n) \/ Delete(n) \/ Reset(n)
    \/ Block

Next ==
    \/ \E m \in Messages, n \in Numbers : Write(m, n)
    \/ \E h \in Hooks, m \in Messages : Receive(h, m)
    \/ \E h \in Hooks : Handle(h) \/ Crash(h)
    \/ Operate

Spec == Init /\ [][Next]_vars

\* A handler that has begun goes on; Meta, the customer and the operators owe nothing.
FairSpec == Spec /\ \A h \in Hooks : WF_vars(Handle(h))

-----------------------------------------------------------------------------
Pcs == {"idle", "contact", "find", "store", "answer", "token", "wait", "gate", "send", "record"}

(* Types of the tables and of the local records.                            *)
TypeOK ==
    /\ mail \in [Messages -> [to : Numbers \cup {NoNumber}, due : BOOLEAN]]
    /\ kept \in [Messages -> Nat]
    /\ thread \in [Numbers -> [up : BOOLEAN, id : Nat, human : BOOLEAN,
                               status : {"open", "resolved", "escalated"}]]
    /\ contact \in [out : BOOLEAN, blocked : BOOLEAN]
    /\ token \in Hooks \cup {NoHook}
    /\ hook \in [Hooks -> [pc : Pcs, m : Messages \cup {NoMessage}, found : BOOLEAN,
                           at : Numbers \cup {NoNumber}, id : Nat, hand : BOOLEAN,
                           short : BOOLEAN, beat : BOOLEAN]]
    /\ op \in [Ops -> [at : Numbers \cup {NoNumber}, id : Nat, open : BOOLEAN]]
    /\ ops \in 0 .. MaxOps /\ faults \in 0 .. MaxFaults

\* "Without this a retry re-persists the inbound message": deliveries that follow each other
\* store a message once.
KeptOnce == \A m \in Messages \ twins : kept[m] <= 1

\* "ONE reply per burst": of two turns whose waits overlapped one goes on, on however many
\* webhooks and processes they run.
OneReplyPerBurst == ~doubled

\* "The earlier messages are already in the thread history": what the customer wrote and the
\* webhook stored is read by a turn in the end, unless a turn crashed or the messages were
\* deleted, or the customer has talked to two numbers, which share one token.
MessagesAreHeard ==
    \A m \in Messages : kept[m] > 0 ~> (m \in heard \cup dropped \/ kept[m] = 0 \/ Several)

\* "Don't reply once the bot has escalated to a human - the thread is waiting for an operator
\* to step in. They'll un-escalate by resolving or re-opening the chat" (maybeReplyAsBot):
\* nothing but an operator's request ends an escalation.  The run inbox_escalated refutes it.
EscalatedUntilOperator ==
    [][\A n \in Numbers : thread[n].status = "escalated" /\ thread'[n].status # "escalated"
                             => op' # op \/ ops' # ops]_vars
=============================================================================
