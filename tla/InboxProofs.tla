---------------------------- MODULE InboxProofs ----------------------------
(***************************************************************************)
(* For any number of webhooks, messages, numbers and operators: a message  *)
(* is stored once, and a burst has one turn.                               *)
(***************************************************************************)
EXTENDS Inbox, TLAPS

\* What is at work on a message has it from Meta, and a turn that goes on has a thread.
Addressed ==
    /\ \A m \in Messages : mail[m].due => mail[m].to \in Numbers
    /\ \A h \in Hooks : ~At(h, "idle") => hook[h].m \in Messages /\ To(h) \in Numbers
    /\ \A h \in Hooks : hook[h].pc \in {"send", "record"} => hook[h].at \in Numbers

Types == TypeOK /\ Addressed

Hook == [pc : Pcs, m : Messages \cup {NoMessage}, found : BOOLEAN,
         at : Numbers \cup {NoNumber}, id : Nat, hand : BOOLEAN, short : BOOLEAN, beat : BOOLEAN]

Thread == [up : BOOLEAN, id : Nat, human : BOOLEAN, status : {"open", "resolved", "escalated"}]

\* Types of all but the handlers' records.
TableTypes ==
    /\ mail \in [Messages -> [to : Numbers \cup {NoNumber}, due : BOOLEAN]]
    /\ kept \in [Messages -> Nat]
    /\ thread \in [Numbers -> Thread]
    /\ contact \in [out : BOOLEAN, blocked : BOOLEAN]
    /\ token \in Hooks \cup {NoHook}
    /\ op \in [Ops -> [at : Numbers \cup {NoNumber}, id : Nat, open : BOOLEAN]]
    /\ ops \in 0 .. MaxOps /\ faults \in 0 .. MaxFaults

\* What a record says of its message and its thread.
Sound(r) ==
    /\ r.pc # "idle" => r.m \in Messages /\ mail[r.m].to \in Numbers
    /\ r.pc \in {"send", "record"} => r.at \in Numbers

\* A handler is between its look for the message and its storing it.
Storing(h, m) == hook[h].m = m /\ hook[h].pc \in {"contact", "find", "store"}

\* A message that was never stored by two at a time is stored, or is being stored by one.
StoredAlone ==
    \A m \in Messages \ twins :
        /\ kept[m] <= 1
        /\ kept[m] > 0 => \A h \in Hooks : ~Storing(h, m)
        /\ \A g, h \in Hooks : Storing(g, m) /\ Storing(h, m) => g = h

\* A wait that another turn's end has overlapped is in vain: the token is another's.
Beaten ==
    /\ ~doubled
    /\ \A h \in Hooks : hook[h].beat => At(h, "wait") /\ token # h

LEMMA InitTypes == Init => Types /\ StoredAlone /\ Beaten
<1> SUFFICES ASSUME Init PROVE Types /\ StoredAlone /\ Beaten
  OBVIOUS
<1>1. \A h \in Hooks : hook[h] = Idle
  BY DEF Init
<1>2. thread \in [Numbers -> Thread]
  <2>1. NoThread \in Thread /\ [NoThread EXCEPT !.up = TRUE, !.human = TRUE] \in Thread
    BY DEF NoThread, Thread
  <2> QED
    BY <2>1 DEF Init
<1>3. hook \in [Hooks -> Hook]
  BY DEF Init, Idle, Hook, Pcs
<1>4. op \in [Ops -> [at : Numbers \cup {NoNumber}, id : Nat, open : BOOLEAN]]
  BY DEF Init, NoPatch
<1>5. /\ mail \in [Messages -> [to : Numbers \cup {NoNumber}, due : BOOLEAN]]
      /\ kept \in [Messages -> Nat] /\ contact \in [out : BOOLEAN, blocked : BOOLEAN]
      /\ token \in Hooks \cup {NoHook} /\ ops \in 0 .. MaxOps /\ faults \in 0 .. MaxFaults
  BY InboxAssumption DEF Init
<1>6. TypeOK
  BY <1>2, <1>3, <1>4, <1>5 DEF TypeOK, Thread, Hook
<1>7. Addressed
  BY <1>1 DEF Init, Addressed, At, Idle
<1>8. StoredAlone
  BY <1>1 DEF Init, StoredAlone, Storing, Idle
<1>9. Beaten
  BY <1>1 DEF Init, Beaten, Idle
<1> QED
  BY <1>6, <1>7, <1>8, <1>9 DEF Types

-----------------------------------------------------------------------------
(* Types.                                                                   *)

LEMMA Known ==
    Types <=> /\ TableTypes /\ hook \in [Hooks -> Hook]
              /\ \A m \in Messages : mail[m].due => mail[m].to \in Numbers
              /\ \A h \in Hooks : Sound(hook[h])
  BY DEF Types, TypeOK, Addressed, TableTypes, Hook, Thread, Sound, At, To

LEMMA Retyped ==
    ASSUME TableTypes', hook' \in [Hooks -> Hook], \A h \in Hooks : Sound(hook[h])',
           \A m \in Messages : mail'[m].due => mail'[m].to \in Numbers
    PROVE  Types'
  BY DEF Types, TypeOK, Addressed, TableTypes, Hook, Thread, Sound, At, To

\* A handler's step gives its own record a new value.
LEMMA RecordStep ==
    ASSUME Types, NEW h \in Hooks, NEW r \in Hook, Sound(r), ToHook(h, r), TableTypes',
           \A m \in Messages : mail'[m].to = mail[m].to /\ (mail'[m].due => mail[m].due)
    PROVE  Types'
<1>1. hook' \in [Hooks -> Hook]
  BY Known DEF ToHook
<1>2. \A g \in Hooks : hook'[g] = r \/ hook'[g] = hook[g]
  BY Known DEF ToHook
<1>3. \A g \in Hooks : Sound(hook'[g])
  BY <1>2, Known DEF Sound
<1>4. \A g \in Hooks : Sound(hook[g])'
  BY <1>3 DEF Sound
<1>5. \A m \in Messages : mail'[m].due => mail'[m].to \in Numbers
  BY Known
<1> QED
  BY <1>1, <1>4, <1>5, Retyped

\* The tables change and the handlers do not.
LEMMA TableStep ==
    ASSUME Types, TableTypes', hook' = hook,
           \A m \in Messages : mail'[m].to = mail[m].to /\ (mail'[m].due => mail[m].due)
    PROVE  Types'
<1>1. \A g \in Hooks : Sound(hook[g])'
  BY Known DEF Sound
<1>2. hook' \in [Hooks -> Hook]
  BY Known
<1>3. \A m \in Messages : mail'[m].due => mail'[m].to \in Numbers
  BY Known
<1> QED
  BY <1>1, <1>2, <1>3, Retyped

LEMMA IdleIsSound == Idle \in Hook /\ Sound(Idle)
  BY DEF Idle, Hook, Pcs, Sound

LEMMA LeaveStep ==
    ASSUME Types, NEW h \in Hooks, Leave(h), TableTypes', mail' = mail
    PROVE  Types'
  BY RecordStep, IdleIsSound DEF Leave

\* A record at work that goes on keeps its message.
LEMMA GoesOn ==
    ASSUME Types, NEW h \in Hooks, ~At(h, "idle"), NEW pc \in Pcs
    PROVE  /\ [hook[h] EXCEPT !.pc = pc] \in Hook
           /\ pc \notin {"send", "record"} => Sound([hook[h] EXCEPT !.pc = pc])
<1>1. hook[h] \in Hook /\ Sound(hook[h])
  BY Known
<1>2. [hook[h] EXCEPT !.pc = pc] \in Hook
  BY <1>1 DEF Hook
<1>3. [hook[h] EXCEPT !.pc = pc].m = hook[h].m /\ [hook[h] EXCEPT !.pc = pc].pc = pc
  BY <1>1 DEF Hook
<1> QED
  BY <1>1, <1>2, <1>3 DEF Sound, At

LEMMA GotoStep ==
    ASSUME Types, NEW h \in Hooks, ~At(h, "idle"), NEW pc \in Pcs \ {"send", "record"}, Goto(h, pc), TableTypes',
           \A m \in Messages : mail'[m].to = mail[m].to /\ (mail'[m].due => mail[m].due)
    PROVE  Types'
<1> DEFINE r == [hook[h] EXCEPT !.pc = pc]
<1>1. r \in Hook /\ Sound(r)
  BY GoesOn
<1>2. ToHook(h, r)
  BY DEF Goto, ToHook
<1> HIDE DEF r
<1> QED
  BY <1>1, <1>2, RecordStep

LEMMA WriteTypes ==
    ASSUME Types, NEW m \in Messages, NEW n \in Numbers, Write(m, n)
    PROVE  Types'
<1>1. TableTypes'
  BY Known DEF Write, TableTypes, tables
<1>2. /\ hook' = hook
      /\ \A k \in Messages : k # m => mail'[k] = mail[k]
      /\ mail'[m] = [to |-> n, due |-> TRUE]
      /\ mail[m].to \notin Numbers
  BY InboxAssumption, Known DEF Write, TableTypes
<1>3. \A h \in Hooks : Sound(hook[h])'
  BY <1>2, Known DEF Sound
<1>4. hook' \in [Hooks -> Hook] /\ \A k \in Messages : mail'[k].due => mail'[k].to \in Numbers
  BY <1>2, Known
<1> QED
  BY <1>1, <1>3, <1>4, Retyped

LEMMA ReceiveTypes ==
    ASSUME Types, NEW h \in Hooks, NEW m \in Messages, Receive(h, m)
    PROVE  Types'
<1>1. CASE kept[m] > 0
  <2>0. mail' \in [Messages -> [to : Numbers \cup {NoNumber}, due : BOOLEAN]]
    <3>1. mail' = [mail EXCEPT ![m].due = FALSE]
      BY <1>1 DEF Receive
    <3>2. mail \in [Messages -> [to : Numbers \cup {NoNumber}, due : BOOLEAN]]
      BY Known DEF TableTypes
    <3>3. mail[m] \in [to : Numbers \cup {NoNumber}, due : BOOLEAN]
      BY <3>2
    <3>4. [mail[m] EXCEPT !.due = FALSE] \in [to : Numbers \cup {NoNumber}, due : BOOLEAN]
      BY <3>3
    <3> QED
      BY <3>1, <3>2, <3>4
  <2>1. TableTypes' /\ hook' = hook
    BY <1>1, <2>0, Known DEF Receive, TableTypes, tables
  <2>2. \A k \in Messages : mail'[k].to = mail[k].to /\ (mail'[k].due => mail[k].due)
    BY <1>1, Known DEF Receive, TableTypes
  <2> QED
    BY <2>1, <2>2, TableStep
<1>2. CASE ~(kept[m] > 0)
  <2> DEFINE r == [Idle EXCEPT !.pc = "contact", !.m = m]
  <2>1. TableTypes' /\ mail' = mail /\ ToHook(h, r) /\ mail[m].due
    BY <1>2, Known DEF Receive, TableTypes, tables
  <2>2. r \in Hook /\ r.pc = "contact" /\ r.m = m
    BY DEF Idle, Hook, Pcs
  <2>3. Sound(r)
    BY <2>1, <2>2, Known DEF Sound
  <2> HIDE DEF r
  <2> QED
    BY <2>1, <2>2, <2>3, RecordStep
<1> QED
  BY <1>1, <1>2

LEMMA StoreTypes ==
    ASSUME Types, NEW h \in Hooks
    PROVE  Contact(h) \/ FindThread(h) \/ StoreMessage(h) \/ Answer(h) => Types'
<1>1. ASSUME Contact(h) PROVE Types'
  <2>1. mail' = mail /\ Goto(h, "find") /\ ~At(h, "idle")
    BY <1>1 DEF Contact, At
  <2>2. contact' \in [out : BOOLEAN, blocked : BOOLEAN]
    <3>1. contact.out \in BOOLEAN /\ (hook[h].m \in Stops) \in BOOLEAN
      BY Known DEF TableTypes
    <3> QED
      BY <1>1, <3>1, Known DEF Contact, TableTypes
  <2>3. TableTypes'
    BY <1>1, <2>2, Known, InboxAssumption DEF Contact, TableTypes, Fault
  <2> QED
    BY <2>1, <2>3, GotoStep DEF Pcs
<1>2. ASSUME FindThread(h) PROVE Types'
  <2> DEFINE r == [hook[h] EXCEPT !.pc = "store", !.found = thread[To(h)].up, !.id = thread[To(h)].id]
  <2>1. TableTypes' /\ mail' = mail /\ ToHook(h, r) /\ ~At(h, "idle")
    BY <1>2, Known DEF FindThread, TableTypes, At, tables
  <2>2. hook[h] \in Hook /\ Sound(hook[h]) /\ thread[To(h)] \in Thread
    BY <2>1, Known DEF Sound, At, To, TableTypes
  <2>3. r \in Hook /\ r.pc = "store" /\ r.m = hook[h].m
    BY <2>2 DEF Hook, Thread, Pcs
  <2>4. Sound(r)
    BY <2>1, <2>2, <2>3 DEF Sound, At
  <2> HIDE DEF r
  <2> QED
    BY <2>1, <2>3, <2>4, RecordStep
<1>3. ASSUME StoreMessage(h) PROVE Types'
  <2> DEFINE r == [hook[h] EXCEPT !.pc = "answer", !.found = FALSE, !.id = 0]
             n == To(h)
  <2>1. mail' = mail /\ ToHook(h, r) /\ ~At(h, "idle")
    BY <1>3 DEF StoreMessage, At
  <2>2. hook[h] \in Hook /\ Sound(hook[h]) /\ n \in Numbers /\ hook[h].m \in Messages
    BY <2>1, Known DEF Sound, At, To
  <2>3. r \in Hook /\ r.pc = "answer" /\ r.m = hook[h].m
    BY <2>2 DEF Hook, Pcs
  <2>4. Sound(r)
    BY <2>1, <2>2, <2>3 DEF Sound, At
  <2>5. /\ [thread[n] EXCEPT !.status = "open"] \in Thread
        /\ [NoThread EXCEPT !.up = TRUE, !.id = thread[n].id] \in Thread
    BY <2>2, Known, ZenonT(40) DEF TableTypes, Thread, NoThread
  <2>6. thread' \in [Numbers -> Thread]
    <3> HIDE DEF n
    <3>1. \/ thread' = thread
          \/ thread' = [thread EXCEPT ![n] = [thread[n] EXCEPT !.status = "open"]]
          \/ thread' = [thread EXCEPT ![n] = [NoThread EXCEPT !.up = TRUE, !.id = thread[n].id]]
      BY <1>3, <2>2, Known DEF StoreMessage, TableTypes, n
    <3> QED
      BY <3>1, <2>5, <2>2, Known DEF TableTypes
  <2>7. kept' \in [Messages -> Nat] /\ faults' \in 0 .. MaxFaults
    BY <1>3, <2>2, Known, InboxAssumption DEF StoreMessage, TableTypes, Fault
  <2>8. TableTypes'
    BY <1>3, <2>6, <2>7, Known DEF StoreMessage, TableTypes
  <2> HIDE DEF r
  <2> QED
    BY <2>1, <2>3, <2>4, <2>8, RecordStep
<1>4. ASSUME Answer(h) PROVE Types'
  <2>1. Goto(h, "token") /\ ~At(h, "idle")
    BY <1>4 DEF Answer, At
  <2>2. hook[h].m \in Messages
    BY <2>1, Known DEF Sound, At
  <2>3. TableTypes' /\ \A m \in Messages : mail'[m].to = mail[m].to /\ (mail'[m].due => mail[m].due)
    BY <1>4, <2>2, Known, ZenonT(40) DEF Answer, TableTypes, tables
  <2> QED
    BY <2>1, <2>3, GotoStep DEF Pcs
<1> QED
  BY <1>1, <1>2, <1>3, <1>4

LEMMA TurnTypes ==
    ASSUME Types, NEW h \in Hooks
    PROVE  SetToken(h) \/ Check(h) \/ Gate(h) \/ Send(h) \/ Record(h) \/ Crash(h) => Types'
<1>1. ASSUME SetToken(h) PROVE Types'
  <2>1. /\ TableTypes' /\ mail' = mail /\ ~At(h, "idle")
        /\ Goto(h, "wait") \/ Goto(h, "gate")
    BY <1>1, Known, InboxAssumption DEF SetToken, TableTypes, Fault, At, tables
  <2> QED
    BY <2>1, GotoStep DEF Pcs
<1>2. ASSUME Check(h) PROVE Types'
  <2>1. TableTypes' /\ mail' = mail /\ At(h, "wait")
    BY <1>2, Known DEF Check, TableTypes, tables
  <2>2. CASE Leave(h)
    BY <2>1, <2>2, LeaveStep
  <2>3. CASE Pass(h)
    <3>1. \A g \in Hooks : hook[g] \in Hook /\ Sound(hook[g])
      BY Known
    <3>2. \A g \in Hooks : /\ hook'[g] \in Hook
                           /\ hook'[g].m = hook[g].m /\ hook'[g].at = hook[g].at
                           /\ hook'[g].pc = IF g = h THEN "gate" ELSE hook[g].pc
      <4> TAKE g \in Hooks
      <4>1. hook[g] \in Hook
        BY <3>1
      <4>2. (hook[g].beat \/ hook[g].pc = "wait") \in BOOLEAN
        OBVIOUS
      <4>3. CASE g = h
        BY <2>3, <4>1, <4>3 DEF Pass, Hook, Pcs
      <4>4. CASE g # h
        BY <2>3, <4>1, <4>2, <4>4 DEF Pass, Hook, Pcs
      <4> QED
        BY <4>3, <4>4
    <3>3. \A g \in Hooks : Sound(hook[g])'
      BY <2>1, <3>1, <3>2 DEF Sound, At
    <3>4. hook' \in [Hooks -> Hook]
      BY <2>3, <3>2 DEF Pass
    <3> QED
      BY <2>1, <3>3, <3>4, Known, Retyped
  <2> QED
    BY <1>2, <2>2, <2>3 DEF Check
<1>3. ASSUME Gate(h) PROVE Types'
  <2>1. TableTypes' /\ mail' = mail /\ At(h, "gate")
    BY <1>3, Known DEF Gate, TableTypes, tables
  <2>2. CASE Leave(h)
    BY <2>1, <2>2, LeaveStep
  <2>3. ASSUME NEW n \in Numbers,
               ToHook(h, [hook[h] EXCEPT !.pc = "send", !.at = n, !.id = thread[n].id])
        PROVE  Types'
    <3> DEFINE r == [hook[h] EXCEPT !.pc = "send", !.at = n, !.id = thread[n].id]
    <3>1. hook[h] \in Hook /\ Sound(hook[h]) /\ thread[n] \in Thread
      BY Known DEF TableTypes
    <3>2. r \in Hook /\ r.m = hook[h].m /\ r.at = n /\ r.pc = "send"
      BY <3>1 DEF Hook, Thread, Pcs
    <3>3. Sound(r)
      BY <2>1, <3>1, <3>2 DEF Sound, At
    <3> HIDE DEF r
    <3>4. ToHook(h, r)
      BY <2>3 DEF r
    <3> QED
      BY <2>1, <3>2, <3>3, <3>4, RecordStep
  <2> QED
    BY <1>3, <2>2, <2>3 DEF Gate
<1>4. ASSUME Send(h) PROVE Types'
  <2>1. TableTypes' /\ mail' = mail /\ At(h, "send")
    BY <1>4, Known DEF Send, TableTypes, tables
  <2>2. CASE Leave(h)
    BY <2>1, <2>2, LeaveStep
  <2>3. ASSUME NEW hand \in BOOLEAN, NEW short \in BOOLEAN,
               ToHook(h, [hook[h] EXCEPT !.pc = "record", !.hand = hand, !.short = short])
        PROVE  Types'
    <3> DEFINE r == [hook[h] EXCEPT !.pc = "record", !.hand = hand, !.short = short]
    <3>1. hook[h] \in Hook /\ Sound(hook[h])
      BY Known
    <3>2. r \in Hook /\ r.m = hook[h].m /\ r.at = hook[h].at /\ r.pc = "record"
      BY <3>1 DEF Hook, Pcs
    <3>3. Sound(r)
      BY <2>1, <3>1, <3>2 DEF Sound, At
    <3> HIDE DEF r
    <3>4. ToHook(h, r)
      BY <2>3 DEF r
    <3> QED
      BY <2>1, <3>2, <3>3, <3>4, RecordStep
  <2> QED
    BY <1>4, <2>2, <2>3 DEF Send
<1>5. ASSUME Record(h) PROVE Types'
  <2>1. /\ Leave(h) /\ mail' = mail
        /\ \/ thread' = thread
           \/ \E n \in Numbers : Escalates(h, n)
    <3>1. At(h, "record") /\ hook[h].at \in Numbers
      BY <1>5, Known DEF Record, Sound, At
    <3> QED
      BY <1>5, <3>1 DEF Record
  <2>2. \A n \in Numbers : [thread[n] EXCEPT !.status = "escalated"] \in Thread
    BY Known DEF TableTypes, Thread
  <2>3. thread' \in [Numbers -> Thread]
    BY <2>1, <2>2, Known DEF Escalates, TableTypes
  <2>4. TableTypes'
    BY <1>5, <2>3, Known DEF Record, TableTypes
  <2> QED
    BY <2>1, <2>4, LeaveStep
<1>6. ASSUME Crash(h) PROVE Types'
  <2>1. TableTypes' /\ mail' = mail /\ Leave(h)
    BY <1>6, Known, InboxAssumption DEF Crash, Fault, TableTypes, tables
  <2> QED
    BY <2>1, LeaveStep
<1> QED
  BY <1>1, <1>2, <1>3, <1>4, <1>5, <1>6

\* An operator's request gives a thread a new row at most.
LEMMA ThreadStep ==
    ASSUME Types, NEW n \in Numbers, NEW t \in Thread, thread' = [thread EXCEPT ![n] = t],
           UNCHANGED <<mail, contact, token, hook, op, faults>>,
           kept' \in [Messages -> Nat], ops' \in 0 .. MaxOps
    PROVE  Types'
<1>1. TableTypes'
  BY Known DEF TableTypes
<1> QED
  BY <1>1, Known, TableStep

LEMMA OperatorTypes ==
    ASSUME Types, Operate
    PROVE  Types'
<1>1. ASSUME NEW o \in Ops, NEW n \in Numbers, TakeRead(o, n) PROVE Types'
  <2>1. (thread[n].status = "escalated") \in BOOLEAN /\ thread[n] \in Thread
    BY Known DEF TableTypes
  <2>2. [at |-> n, id |-> thread[n].id, open |-> thread[n].status = "escalated"]
          \in [at : Numbers \cup {NoNumber}, id : Nat, open : BOOLEAN]
    BY <2>1 DEF Thread
  <2>3. TableTypes' /\ hook' = hook /\ mail' = mail
    BY <1>1, <2>2, Known, InboxAssumption DEF TakeRead, Counted, TableTypes, tables
  <2> QED
    BY <2>3, Known, TableStep
<1>2. ASSUME NEW o \in Ops, TakeWrite(o) PROVE Types'
  <2> DEFINE n == op[o].at
             t == [thread[n] EXCEPT !.human = TRUE, !.status = IF op[o].open THEN "open" ELSE @]
  <2>1. n \in Numbers
    BY <1>2, Known DEF TakeWrite, TableTypes
  <2>2. t \in Thread
    <3>1. thread[n] \in Thread /\ op[o].open \in BOOLEAN
      BY <2>1, Known DEF TableTypes
    <3> QED
      BY <3>1 DEF Thread
  <2>3. op' \in [Ops -> [at : Numbers \cup {NoNumber}, id : Nat, open : BOOLEAN]]
    BY <1>2, Known DEF TakeWrite, NoPatch, TableTypes
  <2>4. thread' = thread \/ thread' = [thread EXCEPT ![n] = t]
    BY <1>2, <2>1, Known DEF TakeWrite, TableTypes
  <2> HIDE DEF n, t
  <2>5. thread' \in [Numbers -> Thread]
    BY <2>1, <2>2, <2>4, Known DEF TableTypes
  <2>6. TableTypes' /\ hook' = hook /\ mail' = mail
    BY <1>2, <2>3, <2>5, Known DEF TakeWrite, TableTypes
  <2> QED
    BY <2>6, Known, TableStep
<1>3. ASSUME NEW n \in Numbers, NEW human \in BOOLEAN,
             NEW s \in {"open", "resolved", "escalated"}, Settle(n, human, s)
      PROVE  Types'
  <2> DEFINE t == [thread[n] EXCEPT !.human = human, !.status = s]
  <2>1. t \in Thread
    <3>1. thread[n] \in Thread
      BY Known DEF TableTypes
    <3> QED
      BY <3>1 DEF Thread
  <2>2. /\ thread' = [thread EXCEPT ![n] = t]
        /\ UNCHANGED <<mail, contact, token, hook, op, faults>>
        /\ kept' \in [Messages -> Nat] /\ ops' \in 0 .. MaxOps
    <3>1. thread \in [Numbers -> Thread]
      BY Known DEF TableTypes
    <3>2. thread' = [thread EXCEPT ![n] = t]
      BY <1>3, <3>1 DEF Settle, Thread
    <3>3. kept \in [Messages -> Nat] /\ ops \in 0 .. MaxOps
      BY Known DEF TableTypes
    <3> HIDE DEF t
    <3>4. /\ ops' = ops + 1 /\ ops < MaxOps /\ kept' = kept
          /\ UNCHANGED <<mail, contact, token, hook, op, faults>>
      BY <1>3, Zenon DEF Settle, Counted
    <3> QED
      BY <3>2, <3>3, <3>4, InboxAssumption
  <2> HIDE DEF t
  <2> QED
    BY <2>1, <2>2, ThreadStep
<1>4. ASSUME NEW n \in Numbers, Release(n) \/ SetStatus(n) \/ AutoAssign(n) PROVE Types'
  <2>1. thread[n].human \in BOOLEAN /\ thread[n].status \in {"open", "resolved", "escalated"}
    BY Known DEF TableTypes, Thread
  <2> QED
    BY <1>3, <1>4, <2>1 DEF Release, SetStatus, AutoAssign
<1>5. ASSUME NEW n \in Numbers, Reply(n) PROVE Types'
  <2> DEFINE t == [thread[n] EXCEPT !.up = TRUE, !.human = TRUE,
                       !.status = IF thread[n].up /\ thread[n].status # "escalated"
                                  THEN thread[n].status ELSE "open"]
  <2>1. t \in Thread
    <3>1. thread[n] \in Thread
      BY Known DEF TableTypes
    <3> QED
      BY <3>1 DEF Thread
  <2>2. /\ thread' = [thread EXCEPT ![n] = t]
        /\ UNCHANGED <<mail, contact, token, hook, op, faults>>
        /\ kept' \in [Messages -> Nat] /\ ops' \in 0 .. MaxOps
    <3>1. thread \in [Numbers -> Thread]
      BY Known DEF TableTypes
    <3>2. thread' = [thread EXCEPT ![n] = t]
      BY <1>5, <3>1 DEF Reply, Thread
    <3>3. kept \in [Messages -> Nat] /\ ops \in 0 .. MaxOps
      BY Known DEF TableTypes
    <3> HIDE DEF t
    <3>4. /\ ops' = ops + 1 /\ ops < MaxOps /\ kept' = kept
          /\ UNCHANGED <<mail, contact, token, hook, op, faults>>
      BY <1>5, Zenon DEF Reply, Counted
    <3> QED
      BY <3>2, <3>3, <3>4, InboxAssumption
  <2> HIDE DEF t
  <2> QED
    BY <2>1, <2>2, ThreadStep
<1>6. ASSUME NEW n \in Numbers, NEW t \in Thread, Forget(n, t) PROVE Types'
  <2>1. /\ thread' = [thread EXCEPT ![n] = t]
        /\ UNCHANGED <<mail, contact, token, hook, op, faults>>
        /\ kept' \in [Messages -> Nat] /\ ops' \in 0 .. MaxOps
    BY <1>6, Known, InboxAssumption DEF Forget, Counted, TableTypes
  <2> QED
    BY <2>1, ThreadStep
<1>7. ASSUME NEW n \in Numbers, Delete(n) \/ Reset(n) PROVE Types'
  <2>1. /\ [NoThread EXCEPT !.id = thread[n].id + 1] \in Thread
        /\ [thread[n] EXCEPT !.status = "open"] \in Thread
    <3>1. thread[n] \in Thread
      BY Known DEF TableTypes
    <3>2. thread[n].id + 1 \in Nat
      BY <3>1 DEF Thread
    <3>3. NoThread \in Thread /\ NoThread = [up |-> FALSE, id |-> 0, status |-> "open", human |-> FALSE]
      BY DEF NoThread, Thread
    <3> QED
      BY <3>1, <3>2, <3>3 DEF Thread
  <2> QED
    BY <1>6, <1>7, <2>1 DEF Delete, Reset
<1>8. ASSUME Block PROVE Types'
  <2>1. contact' \in [out : BOOLEAN, blocked : BOOLEAN]
    BY <1>8, Known DEF Block, TableTypes
  <2>2. TableTypes' /\ hook' = hook /\ mail' = mail
    BY <1>8, <2>1, Known, InboxAssumption DEF Block, Counted, TableTypes
  <2> QED
    BY <2>2, Known, TableStep
<1> QED
  BY <1>1, <1>2, <1>4, <1>5, <1>7, <1>8 DEF Operate

LEMMA TypesStep == Types /\ [Next]_vars => Types'
<1> SUFFICES ASSUME Types, [Next]_vars PROVE Types'
  OBVIOUS
<1>1. ASSUME NEW h \in Hooks, Handle(h) \/ Crash(h) PROVE Types'
  BY <1>1, StoreTypes, TurnTypes DEF Handle
<1>2. CASE UNCHANGED vars
  BY <1>2 DEF vars, tables, seen, Types, TypeOK, Addressed, At, To
<1> QED
  BY <1>1, <1>2, WriteTypes, ReceiveTypes, OperatorTypes DEF Next

-----------------------------------------------------------------------------
(* A message is stored once.                                                *)

\* Rows go, and nobody comes between the look and the row.
LEMMA Aside ==
    ASSUME Types, StoredAlone, twins' = twins,
           \A m \in Messages : kept'[m] = kept[m] \/ kept'[m] = 0,
           \A h \in Hooks, m \in Messages : Storing(h, m)' => Storing(h, m)
    PROVE  StoredAlone'
<1> SUFFICES ASSUME NEW m \in Messages \ twins
             PROVE  /\ kept'[m] <= 1
                    /\ kept'[m] > 0 => \A h \in Hooks : ~Storing(h, m)'
                    /\ \A g, h \in Hooks : Storing(g, m)' /\ Storing(h, m)' => g = h
  BY DEF StoredAlone
<1> QED
  BY DEF StoredAlone

\* A handler's record keeps its message while it is at work.
LEMMA AsideRecord ==
    ASSUME Types, StoredAlone, NEW h \in Hooks, NEW r \in Hook, ToHook(h, r),
           twins' = twins, \A m \in Messages : kept'[m] = kept[m] \/ kept'[m] = 0,
           r.pc \in {"contact", "find", "store"} =>
               r.m = hook[h].m /\ hook[h].pc \in {"contact", "find", "store"}
    PROVE  StoredAlone'
<1>1. \A g \in Hooks : hook'[g] = IF g = h THEN r ELSE hook[g]
  BY Known DEF ToHook
<1>2. \A g \in Hooks, m \in Messages : Storing(g, m)' => Storing(g, m)
  BY <1>1 DEF Storing
<1> QED
  BY <1>2, Aside

LEMMA AsideLeave ==
    ASSUME Types, StoredAlone, NEW h \in Hooks, Leave(h), twins' = twins, kept' = kept
    PROVE  StoredAlone'
<1>1. Idle.pc = "idle"
  BY DEF Idle
<1> QED
  BY <1>1, IdleIsSound, AsideRecord DEF Leave

LEMMA AsideGoto ==
    ASSUME Types, StoredAlone, NEW h \in Hooks, NEW pc \in Pcs, Goto(h, pc), twins' = twins, kept' = kept,
           pc \in {"contact", "find", "store"} => hook[h].pc \in {"contact", "find", "store"}
    PROVE  StoredAlone'
<1> DEFINE r == [hook[h] EXCEPT !.pc = pc]
<1>1. hook[h] \in Hook
  BY Known
<1>2. r \in Hook /\ r.pc = pc /\ r.m = hook[h].m
  BY <1>1 DEF Hook
<1>3. ToHook(h, r)
  BY DEF Goto, ToHook
<1> HIDE DEF r
<1> QED
  BY <1>2, <1>3, AsideRecord

LEMMA ReceiveAlone ==
    ASSUME Types, StoredAlone, NEW h \in Hooks, NEW m \in Messages, Receive(h, m)
    PROVE  StoredAlone'
<1>1. CASE kept[m] > 0
  BY <1>1, Aside DEF Receive, tables, Storing
<1>2. CASE ~(kept[m] > 0)
  <2> DEFINE r == [Idle EXCEPT !.pc = "contact", !.m = m]
  <2>1. r.pc = "contact" /\ r.m = m
    BY DEF Idle
  <2>2. \A g \in Hooks : hook'[g] = IF g = h THEN r ELSE hook[g]
    BY <1>2, Known DEF Receive, ToHook
  <2>3. /\ kept' = kept /\ kept[m] \in Nat
        /\ twins' = IF \E g \in Hooks : Storing(g, m) THEN twins \cup {m} ELSE twins
    BY <1>2, Known DEF Receive, tables, Storing, TableTypes
  <2> HIDE DEF r
  <2>4. \A g \in Hooks, k \in Messages : Storing(g, k)' => Storing(g, k) \/ (g = h /\ k = m)
    BY <2>1, <2>2 DEF Storing
  <2>5. \A k \in Messages \ twins' : k # m =>
            /\ kept'[k] <= 1
            /\ kept'[k] > 0 => \A g \in Hooks : ~Storing(g, k)'
            /\ \A f, g \in Hooks : Storing(f, k)' /\ Storing(g, k)' => f = g
    BY <2>3, <2>4 DEF StoredAlone
  <2>6. m \notin twins' =>
            /\ ~(kept'[m] > 0) /\ kept'[m] <= 1
            /\ \A f, g \in Hooks : Storing(f, m)' /\ Storing(g, m)' => f = g
    <3>1. ~(kept'[m] > 0) /\ kept'[m] <= 1
      BY <1>2, <2>3
    <3>2. m \notin twins' => \A g \in Hooks : ~Storing(g, m)
      BY <2>3
    <3>3. m \notin twins' => \A g \in Hooks : Storing(g, m)' => g = h
      BY <2>4, <3>2
    <3> QED
      BY <3>1, <3>3
  <2>7. \A k \in Messages \ twins' :
            /\ kept'[k] <= 1
            /\ kept'[k] > 0 => \A g \in Hooks : ~Storing(g, k)'
            /\ \A f, g \in Hooks : Storing(f, k)' /\ Storing(g, k)' => f = g
    BY <2>5, <2>6
  <2> QED
    BY <2>7 DEF StoredAlone
<1> QED
  BY <1>1, <1>2

LEMMA StoreAlone ==
    ASSUME Types, StoredAlone, NEW h \in Hooks, StoreMessage(h)
    PROVE  StoredAlone'
<1>1. hook[h] \in Hook /\ hook[h].m \in Messages /\ kept \in [Messages -> Nat]
  <2>1. hook[h].pc = "store"
    BY DEF StoreMessage, At
  <2>2. hook[h] \in Hook /\ Sound(hook[h]) /\ kept \in [Messages -> Nat]
    BY Known DEF TableTypes
  <2> QED
    BY <2>1, <2>2 DEF Sound
<1> SUFFICES ASSUME NEW m \in Messages, hook[h].m = m PROVE StoredAlone'
  BY <1>1
<1> DEFINE r == [hook[h] EXCEPT !.pc = "answer", !.found = FALSE, !.id = 0]
<1>2. ToHook(h, r) /\ Storing(h, m) /\ twins' = twins
  BY DEF StoreMessage, At, Storing, seen
<1>3. r \in Hook /\ r.pc = "answer"
  BY <1>1 DEF Hook, Pcs
<1>4. kept' = kept \/ kept' = [kept EXCEPT ![m] = @ + 1]
  BY DEF StoreMessage
<1> HIDE DEF r
<1>5. CASE kept' = kept
  BY <1>2, <1>3, <1>5, AsideRecord
<1>6. CASE kept' = [kept EXCEPT ![m] = @ + 1]
  <2>1. \A g \in Hooks : hook'[g] = IF g = h THEN r ELSE hook[g]
    BY <1>2, Known DEF ToHook
  <2>2. \A g \in Hooks, k \in Messages : Storing(g, k)' => g # h /\ Storing(g, k)
    BY <1>3, <2>1 DEF Storing
  <2>3. \A k \in Messages : kept'[k] = IF k = m THEN kept[m] + 1 ELSE kept[k]
    BY <1>6, <1>1
  <2>4. m \notin twins => kept[m] = 0 /\ \A g \in Hooks : Storing(g, m) => g = h
    BY <1>1, <1>2 DEF StoredAlone
  <2>5. \A k \in Messages \ twins : k # m =>
            /\ kept'[k] <= 1
            /\ kept'[k] > 0 => \A g \in Hooks : ~Storing(g, k)'
            /\ \A f, g \in Hooks : Storing(f, k)' /\ Storing(g, k)' => f = g
    BY <2>2, <2>3 DEF StoredAlone
  <2>6. m \notin twins => kept'[m] <= 1 /\ \A g \in Hooks : ~Storing(g, m)'
    <3>1. m \notin twins => kept'[m] <= 1
      BY <2>3, <2>4
    <3>2. m \notin twins => \A g \in Hooks : ~Storing(g, m)'
      BY <2>2, <2>4
    <3> QED
      BY <3>1, <3>2
  <2>7. \A k \in Messages \ twins' :
            /\ kept'[k] <= 1
            /\ kept'[k] > 0 => \A g \in Hooks : ~Storing(g, k)'
            /\ \A f, g \in Hooks : Storing(f, k)' /\ Storing(g, k)' => f = g
    BY <1>2, <2>5, <2>6
  <2> QED
    BY <2>7 DEF StoredAlone
<1> QED
  BY <1>4, <1>5, <1>6

LEMMA CheckAlone ==
    ASSUME Types, StoredAlone, NEW h \in Hooks, Check(h)
    PROVE  StoredAlone'
<1>1. CASE Leave(h)
  BY <1>1, AsideLeave DEF Check, tables
<1>2. CASE Pass(h)
  <2>1. \A g \in Hooks : hook[g] \in Hook
    BY Known
  <2>2. \A g \in Hooks : hook'[g].m = hook[g].m /\ (hook'[g].pc = hook[g].pc \/ hook'[g].pc = "gate")
    BY <1>2, <2>1 DEF Pass, Hook
  <2>3. \A g \in Hooks, m \in Messages : Storing(g, m)' => Storing(g, m)
    BY <2>2 DEF Storing
  <2> QED
    BY <2>3, Aside DEF Check, tables
<1> QED
  BY <1>1, <1>2 DEF Check

LEMMA StoredAloneStep == Types /\ StoredAlone /\ [Next]_vars => StoredAlone'
<1> SUFFICES ASSUME Types, StoredAlone, [Next]_vars PROVE StoredAlone'
  OBVIOUS
<1>1. ASSUME NEW h \in Hooks, Handle(h) \/ Crash(h) PROVE StoredAlone'
  <2>1. ASSUME Contact(h) PROVE StoredAlone'
    BY <2>1, AsideGoto DEF Contact, At, Pcs, seen
  <2>2. ASSUME FindThread(h) PROVE StoredAlone'
    <3> DEFINE r == [hook[h] EXCEPT !.pc = "store", !.found = thread[To(h)].up, !.id = thread[To(h)].id]
    <3>1. ToHook(h, r) /\ At(h, "find") /\ twins' = twins /\ kept' = kept
      BY <2>2 DEF FindThread, tables, seen
    <3>2. hook[h] \in Hook /\ thread[To(h)] \in Thread
      BY <3>1, Known DEF Sound, At, To, TableTypes
    <3>3. r \in Hook /\ r.m = hook[h].m
      BY <3>2 DEF Hook, Thread, Pcs
    <3> HIDE DEF r
    <3> QED
      BY <3>1, <3>3, AsideRecord DEF At
  <2>3. ASSUME Answer(h) PROVE StoredAlone'
    BY <2>3, AsideGoto DEF Answer, Pcs, seen, tables
  <2>4. ASSUME SetToken(h) PROVE StoredAlone'
    BY <2>4, AsideGoto DEF SetToken, Pcs, seen, tables
  <2>5. ASSUME Gate(h) PROVE StoredAlone'
    <3>1. ASSUME NEW n \in Numbers,
                 ToHook(h, [hook[h] EXCEPT !.pc = "send", !.at = n, !.id = thread[n].id])
          PROVE  StoredAlone'
      <4> DEFINE r == [hook[h] EXCEPT !.pc = "send", !.at = n, !.id = thread[n].id]
      <4>1. hook[h] \in Hook /\ thread[n] \in Thread
        BY Known DEF TableTypes
      <4>2. r \in Hook /\ r.pc = "send"
        BY <4>1 DEF Hook, Thread, Pcs
      <4>3. ToHook(h, r) /\ twins' = twins /\ kept' = kept
        BY <2>5, <3>1 DEF Gate, tables
      <4> HIDE DEF r
      <4> QED
        BY <4>2, <4>3, AsideRecord
    <3> QED
      BY <2>5, <3>1, AsideLeave DEF Gate, tables
  <2>6. ASSUME Send(h) PROVE StoredAlone'
    <3>1. ASSUME NEW hand \in BOOLEAN, NEW short \in BOOLEAN,
                 ToHook(h, [hook[h] EXCEPT !.pc = "record", !.hand = hand, !.short = short])
          PROVE  StoredAlone'
      <4> DEFINE r == [hook[h] EXCEPT !.pc = "record", !.hand = hand, !.short = short]
      <4>1. hook[h] \in Hook
        BY Known
      <4>2. r \in Hook /\ r.pc = "record"
        BY <4>1 DEF Hook, Pcs
      <4>3. ToHook(h, r) /\ twins' = twins /\ kept' = kept
        BY <2>6, <3>1 DEF Send, tables
      <4> HIDE DEF r
      <4> QED
        BY <4>2, <4>3, AsideRecord
    <3> QED
      BY <2>6, <3>1, AsideLeave DEF Send, tables
  <2>7. ASSUME Record(h) PROVE StoredAlone'
    BY <2>7, AsideLeave DEF Record
  <2>8. ASSUME Crash(h) PROVE StoredAlone'
    BY <2>8, AsideLeave DEF Crash, tables
  <2> QED
    BY <1>1, <2>1, <2>2, <2>3, <2>4, <2>5, <2>6, <2>7, <2>8, StoreAlone, CheckAlone DEF Handle
<1>2. CASE Operate
  <2>1. hook' = hook /\ twins' = twins
    BY <1>2 DEF Operate, TakeWrite, TakeRead, Release, SetStatus, AutoAssign, Settle, Reply,
                Delete, Reset, Forget, Block, seen
  <2>2. \A m \in Messages : kept'[m] = kept[m] \/ kept'[m] = 0
    BY <1>2 DEF Operate, TakeWrite, TakeRead, Release, SetStatus, AutoAssign, Settle, Reply,
                Delete, Reset, Forget, Block, tables
  <2> QED
    BY <2>1, <2>2, Aside DEF Storing
<1>3. ASSUME NEW m \in Messages, NEW n \in Numbers, Write(m, n) PROVE StoredAlone'
  BY <1>3, Aside DEF Write, tables, seen, Storing
<1>4. CASE UNCHANGED vars
  BY <1>4, Aside DEF vars, tables, seen, Storing
<1> QED
  BY <1>1, <1>2, <1>3, <1>4, ReceiveAlone DEF Next

\* KeptOnce: the webhook's look before the transaction keeps a message from a second row,
\* whatever the deliveries' order, unless two of them were at work on it at a time.
THEOREM InboxKeepsOnce == Spec => []KeptOnce
<1>1. Init => Types /\ StoredAlone
  BY InitTypes
<1>2. Types /\ StoredAlone /\ [Next]_vars => Types' /\ StoredAlone'
  BY TypesStep, StoredAloneStep
<1>3. StoredAlone => KeptOnce
  BY DEF StoredAlone, KeptOnce
<1> QED
  BY <1>1, <1>2, <1>3, PTL DEF Spec

-----------------------------------------------------------------------------
(* One reply per burst.                                                     *)

\* Nobody's wait is overlapped anew, and the token stays.
LEMMA NotBeaten ==
    ASSUME Beaten, token' = token, doubled' = doubled,
           \A g \in Hooks : hook'[g].beat => hook[g].beat /\ hook'[g].pc = hook[g].pc
    PROVE  Beaten'
  BY DEF Beaten, At

\* The record of a handler that is not waiting.
LEMMA NotBeatenRecord ==
    ASSUME Types, Beaten, NEW h \in Hooks, NEW r \in Hook, ToHook(h, r), ~r.beat,
           token' = token, doubled' = doubled
    PROVE  Beaten'
<1>1. \A g \in Hooks : hook'[g] = IF g = h THEN r ELSE hook[g]
  BY Known DEF ToHook
<1> QED
  BY <1>1, NotBeaten

LEMMA NotBeatenLeave ==
    ASSUME Types, Beaten, NEW h \in Hooks, Leave(h), token' = token, doubled' = doubled
    PROVE  Beaten'
<1>1. ~Idle.beat
  BY DEF Idle
<1> QED
  BY <1>1, IdleIsSound, NotBeatenRecord DEF Leave

LEMMA NotBeatenGoto ==
    ASSUME Types, Beaten, NEW h \in Hooks, NEW pc \in Pcs, ~At(h, "wait"), Goto(h, pc),
           token' = token, doubled' = doubled
    PROVE  Beaten'
<1> DEFINE r == [hook[h] EXCEPT !.pc = pc]
<1>1. hook[h] \in Hook /\ ~hook[h].beat
  BY Known DEF Beaten
<1>2. r \in Hook /\ ~r.beat
  BY <1>1 DEF Hook
<1>3. ToHook(h, r)
  BY DEF Goto, ToHook
<1> HIDE DEF r
<1> QED
  BY <1>2, <1>3, NotBeatenRecord

\* Whoever waited while this turn's wait ended came later or has lost the token already.
LEMMA CheckBeaten ==
    ASSUME Types, Beaten, NEW h \in Hooks, Check(h)
    PROVE  Beaten'
<1>1. CASE token = h
  <2>1. Pass(h) /\ token' = token
    BY <1>1 DEF Check
  <2>2. \A g \in Hooks : hook[g] \in Hook
    BY Known
  <2>3. ~doubled'
    BY <1>1, <2>1 DEF Beaten, Pass
  <2>4. ASSUME NEW g \in Hooks, hook'[g].beat PROVE hook'[g].pc = "wait" /\ token # g
    <3>1. g # h
      BY <2>1, <2>2, <2>4 DEF Pass, Hook
    <3>2. hook'[g] = [hook[g] EXCEPT !.beat = hook[g].beat \/ hook[g].pc = "wait"]
      BY <2>1, <3>1 DEF Pass
    <3>3. hook'[g].pc = hook[g].pc
      BY <2>2, <3>2 DEF Hook
    <3>4. hook[g].beat \/ hook[g].pc = "wait"
      BY <2>2, <2>4, <3>2 DEF Hook
    <3> QED
      BY <1>1, <3>1, <3>3, <3>4 DEF Beaten, At
  <2> QED
    BY <2>1, <2>3, <2>4 DEF Beaten, At
<1>2. CASE token # h
  BY <1>2, NotBeatenLeave DEF Check
<1> QED
  BY <1>1, <1>2

LEMMA SetTokenBeaten ==
    ASSUME Types, Beaten, NEW h \in Hooks, SetToken(h)
    PROVE  Beaten'
<1>1. At(h, "token") /\ doubled' = doubled
  BY DEF SetToken, seen
<1>2. CASE token' = token
  BY <1>1, <1>2, NotBeatenGoto DEF SetToken, At, Pcs
<1>3. CASE token' = h /\ Goto(h, "wait")
  <2>1. hook[h] \in Hook /\ ~hook[h].beat
    BY <1>1, Known DEF Beaten, At
  <2>2. hook'[h] = [hook[h] EXCEPT !.pc = "wait"] /\ \A g \in Hooks \ {h} : hook'[g] = hook[g]
    BY <1>3, Known DEF Goto
  <2>3. ~hook'[h].beat
    BY <2>1, <2>2 DEF Hook
  <2> QED
    BY <1>1, <1>3, <2>2, <2>3 DEF Beaten, At
<1> QED
  BY <1>2, <1>3 DEF SetToken

LEMMA BeatenStep == Types /\ Beaten /\ [Next]_vars => Beaten'
<1> SUFFICES ASSUME Types, Beaten, [Next]_vars PROVE Beaten'
  OBVIOUS
<1>1. ASSUME NEW h \in Hooks, Handle(h) \/ Crash(h) PROVE Beaten'
  <2>1. ASSUME Contact(h) PROVE Beaten'
    BY <2>1, NotBeatenGoto DEF Contact, At, Pcs, seen
  <2>2. ASSUME FindThread(h) PROVE Beaten'
    <3> DEFINE r == [hook[h] EXCEPT !.pc = "store", !.found = thread[To(h)].up, !.id = thread[To(h)].id]
    <3>1. ToHook(h, r) /\ At(h, "find") /\ token' = token /\ doubled' = doubled
      BY <2>2 DEF FindThread, seen
    <3>2. hook[h] \in Hook /\ thread[To(h)] \in Thread /\ ~hook[h].beat
      BY <3>1, Known DEF Sound, At, To, TableTypes, Beaten
    <3>3. r \in Hook /\ ~r.beat
      BY <3>2 DEF Hook, Thread, Pcs
    <3> HIDE DEF r
    <3> QED
      BY <3>1, <3>3, NotBeatenRecord
  <2>3. ASSUME StoreMessage(h) PROVE Beaten'
    <3> DEFINE r == [hook[h] EXCEPT !.pc = "answer", !.found = FALSE, !.id = 0]
    <3>1. ToHook(h, r) /\ At(h, "store") /\ token' = token /\ doubled' = doubled
      BY <2>3 DEF StoreMessage, seen
    <3>2. hook[h] \in Hook /\ ~hook[h].beat
      BY <3>1, Known DEF At, Beaten
    <3>3. r \in Hook /\ ~r.beat
      BY <3>2 DEF Hook, Pcs
    <3> HIDE DEF r
    <3> QED
      BY <3>1, <3>3, NotBeatenRecord
  <2>4. ASSUME Answer(h) PROVE Beaten'
    BY <2>4, NotBeatenGoto DEF Answer, At, Pcs, seen
  <2>5. ASSUME Gate(h) PROVE Beaten'
    <3>1. ASSUME NEW n \in Numbers,
                 ToHook(h, [hook[h] EXCEPT !.pc = "send", !.at = n, !.id = thread[n].id])
          PROVE  Beaten'
      <4> DEFINE r == [hook[h] EXCEPT !.pc = "send", !.at = n, !.id = thread[n].id]
      <4>1. hook[h] \in Hook /\ thread[n] \in Thread /\ ~hook[h].beat
        BY <2>5, Known DEF TableTypes, Beaten, Gate, At
      <4>2. r \in Hook /\ ~r.beat
        BY <4>1 DEF Hook, Thread, Pcs
      <4>3. ToHook(h, r) /\ token' = token /\ doubled' = doubled
        BY <2>5, <3>1 DEF Gate
      <4> HIDE DEF r
      <4> QED
        BY <4>2, <4>3, NotBeatenRecord
    <3> QED
      BY <2>5, <3>1, NotBeatenLeave DEF Gate
  <2>6. ASSUME Send(h) PROVE Beaten'
    <3>1. ASSUME NEW hand \in BOOLEAN, NEW short \in BOOLEAN,
                 ToHook(h, [hook[h] EXCEPT !.pc = "record", !.hand = hand, !.short = short])
          PROVE  Beaten'
      <4> DEFINE r == [hook[h] EXCEPT !.pc = "record", !.hand = hand, !.short = short]
      <4>1. hook[h] \in Hook /\ ~hook[h].beat
        BY <2>6, Known DEF Beaten, Send, At
      <4>2. r \in Hook /\ ~r.beat
        BY <4>1 DEF Hook, Pcs
      <4>3. ToHook(h, r) /\ token' = token /\ doubled' = doubled
        BY <2>6, <3>1 DEF Send
      <4> HIDE DEF r
      <4> QED
        BY <4>2, <4>3, NotBeatenRecord
    <3> QED
      BY <2>6, <3>1, NotBeatenLeave DEF Send
  <2>7. ASSUME Record(h) PROVE Beaten'
    BY <2>7, NotBeatenLeave DEF Record
  <2>8. ASSUME Crash(h) PROVE Beaten'
    BY <2>8, NotBeatenLeave DEF Crash
  <2> QED
    BY <1>1, <2>1, <2>2, <2>3, <2>4, <2>5, <2>6, <2>7, <2>8, SetTokenBeaten, CheckBeaten DEF Handle
<1>2. CASE Operate
  <2>1. hook' = hook /\ token' = token /\ doubled' = doubled
    BY <1>2 DEF Operate, TakeWrite, TakeRead, Release, SetStatus, AutoAssign, Settle, Reply,
                Delete, Reset, Forget, Block, seen
  <2> QED
    BY <2>1, NotBeaten
<1>3. ASSUME NEW m \in Messages, NEW n \in Numbers, Write(m, n) PROVE Beaten'
  BY <1>3, NotBeaten DEF Write, seen
<1>4. ASSUME NEW h \in Hooks, NEW m \in Messages, Receive(h, m) PROVE Beaten'
  <2>1. CASE kept[m] > 0
    BY <1>4, <2>1, NotBeaten DEF Receive
  <2>2. CASE ~(kept[m] > 0)
    <3> DEFINE r == [Idle EXCEPT !.pc = "contact", !.m = m]
    <3>1. r \in Hook /\ ~r.beat
      BY DEF Idle, Hook, Pcs
    <3>2. ToHook(h, r) /\ token' = token /\ doubled' = doubled
      BY <1>4, <2>2 DEF Receive
    <3> HIDE DEF r
    <3> QED
      BY <3>1, <3>2, NotBeatenRecord
  <2> QED
    BY <2>1, <2>2
<1>5. CASE UNCHANGED vars
  BY <1>5, NotBeaten DEF vars, seen
<1> QED
  BY <1>1, <1>2, <1>3, <1>4, <1>5 DEF Next

\* OneReplyPerBurst: of two turns whose waits overlap only the last to set the token goes on,
\* on however many webhooks, processes and numbers.
THEOREM InboxRepliesOnce == Spec => []OneReplyPerBurst
<1>1. Init => Types /\ Beaten
  BY InitTypes
<1>2. Types /\ Beaten /\ [Next]_vars => Types' /\ Beaten'
  BY TypesStep, BeatenStep
<1>3. Beaten => OneReplyPerBurst
  BY DEF Beaten, OneReplyPerBurst
<1> QED
  BY <1>1, <1>2, <1>3, PTL DEF Spec

\* TypeOK, with what is at work on a message having it from Meta.
THEOREM InboxTypes == Spec => [](TypeOK /\ Addressed)
<1>1. Init => Types
  BY InitTypes
<1> QED
  BY <1>1, TypesStep, PTL DEF Spec, Types
=============================================================================
