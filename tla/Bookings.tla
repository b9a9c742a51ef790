------------------------------ MODULE Bookings ------------------------------
(***************************************************************************)
(* Bookings of one organization: captures from conversations and calls     *)
(* (api/src/lib/cart-flow.ts, voice-booking.ts, whatsapp.routes.ts), the   *)
(* dashboard's requests (bookings.routes.ts) and the reminder tick         *)
(* (worker/src/jobs/booking-reminder-tick.ts).                             *)
(*                                                                         *)
(* An appointment is the number of the slot it is in; its reminder is due  *)
(* while the clock shows that number.  Transactions are read committed     *)
(* and lock nothing: a read and the write that follows it are two steps.   *)
(***************************************************************************)
EXTENDS Integers, FiniteSets

CONSTANTS
    Bookings,       \* ids, in no order
    Threads,        \* conversations
    Captures,       \* handlers of the captures
    Ops,            \* handlers of PATCH requests
    Ticks,          \* worker replicas
    NoThread, NoBooking,
    Capacity,       \* capacityPerSlot
    MaxTime,        \* bound: slots
    MaxEdits,       \* bound: dashboard requests
    MaxFaults       \* bound: crashes and late answers

ASSUME BookingsAssumption ==
    /\ Capacity \in Nat \ {0} /\ MaxTime \in Nat /\ MaxEdits \in Nat /\ MaxFaults \in Nat
    /\ NoThread \notin Threads /\ NoBooking \notin Bookings
    /\ IsFiniteSet(Bookings) /\ IsFiniteSet(Ticks)

Slots == 1 .. MaxTime
NoSlot == 0         \* appointmentAt is null

VARIABLES
    row,        \* the table
    turn,       \* the captures' local records
    edit,       \* the PATCH handlers' local records
    tick,       \* the replicas' local records
    lock,       \* lock:booking-reminder-tick is held
    now,
    edits, faults

(***************************************************************************)
(* Observations: reminders Meta accepted, stamps the dashboard cleared and *)
(* answers that came too late, per booking; captures that overlapped       *)
(* another one of their slot, or of their thread.                          *)
(***************************************************************************)
VARIABLES sent, cleared, late, raced, twins

seen == <<sent, cleared, late, raced, twins>>
counts == <<now, edits, faults>>
vars == <<row, turn, edit, tick, lock, counts, seen>>

NoRow == [state |-> "none", at |-> NoSlot, thread |-> NoThread, counted |-> FALSE, flag |-> FALSE,
          tpl |-> FALSE, stamp |-> FALSE, recent |-> FALSE, manual |-> FALSE]

NoTurn == [pc |-> "idle", thread |-> NoThread, at |-> NoSlot, full |-> FALSE]

NoPatch == [b |-> NoBooking, at |-> NoSlot, tpl |-> FALSE]

Rest == [pc |-> "rest", due |-> {}, b |-> NoBooking]

Init ==
    /\ row = [b \in Bookings |-> NoRow]
    /\ turn = [h \in Captures |-> NoTurn]
    /\ edit = [o \in Ops |-> NoPatch]
    /\ tick = [k \in Ticks |-> Rest]
    /\ lock = FALSE
    /\ now = 0 /\ edits = 0 /\ faults = 0
    /\ sent = [b \in Bookings |-> 0]
    /\ cleared = [b \in Bookings |-> 0]
    /\ late = [b \in Bookings |-> 0]
    /\ raced = {} /\ twins = {}

\* Two of a row's fields are observations: "counted", the room was counted for it where
\* it is, and "manual", the dashboard made it.  A completed booking is "new" here.
Exists(b) == row[b].state \notin {"none", "deleted"}
Booked(s) == {b \in Bookings : Exists(b) /\ row[b].state # "cancelled" /\ row[b].at = s}
Recent(t) == {b \in Bookings : Exists(b) /\ row[b].thread = t /\ row[b].recent}

\* Mutant: one more than the capacity has room.
HasRoomForOneMore(s) == Cardinality(Booked(s)) <= Capacity

HasRoom(s) == Cardinality(Booked(s)) < Capacity

Insert(b, rec) ==
    /\ row[b].state = "none"
    /\ row' = [row EXCEPT ![b] = rec]

ToTurn(h, rec) == turn' = [turn EXCEPT ![h] = rec]

-----------------------------------------------------------------------------
(* Captures.  The room in the slot is counted first, in a transaction of    *)
(* its own; the handlers of one slot that are between the two may all       *)
(* create.  WhatsApp's own capture does not count.                          *)

Checking(s) == {h \in Captures : turn[h].pc # "idle" /\ turn[h].at = s}

\* captureBooking, and a call's booking (NoThread); NoSlot where no label matches.
CountRoom(h, t, s) ==
    /\ turn[h].pc = "idle"
    /\ ToTurn(h, [pc |-> IF t = NoThread THEN "create" ELSE "dedupe", thread |-> t, at |-> s,
                  full |-> s # NoSlot /\ ~HasRoom(s)])
    /\ raced' = IF Checking(s) # {} THEN raced \cup {s} ELSE raced
    /\ UNCHANGED <<row, edit, tick, lock, counts, sent, cleared, late, twins>>

\* Mutant: what was booked before is not asked.
DedupeNothing(h, t) ==
    /\ turn[h].pc = "dedupe" /\ turn[h].thread = t
    /\ ToTurn(h, [turn[h] EXCEPT !.pc = "create"])
    /\ UNCHANGED <<row, edit, tick, lock, counts, seen>>

\* Any booking of the last thirty minutes; WhatsApp asks before the extractor runs.
Dedupe(h, t) ==
    /\ \/ turn[h].pc = "dedupe" /\ turn[h].thread = t
       \/ turn[h].pc = "idle"
    /\ IF Recent(t) # {} THEN ToTurn(h, NoTurn) /\ UNCHANGED twins
       ELSE /\ \/ turn[h].pc = "dedupe" /\ ToTurn(h, [turn[h] EXCEPT !.pc = "create"])
               \/ /\ turn[h].pc = "idle"
                  /\ \E s \in Slots \cup {NoSlot} :
                        ToTurn(h, [NoTurn EXCEPT !.pc = "create blind", !.thread = t, !.at = s])
            /\ twins' = IF \E g \in Captures \ {h} : turn[g].thread = t /\ turn[g].pc \in {"create", "create blind"}
                        THEN twins \cup {t} ELSE twins
    /\ UNCHANGED <<row, edit, tick, lock, counts, sent, cleared, late, raced>>

Create(h) ==
    LET t == turn[h]
    IN  /\ t.pc \in {"create", "create blind"}
        /\ \E b \in Bookings :
              Insert(b, [NoRow EXCEPT !.state = "new", !.at = t.at, !.thread = t.thread,
                                      !.counted = t.pc = "create", !.flag = t.full, !.recent = TRUE])
        /\ ToTurn(h, NoTurn)
        /\ UNCHANGED <<edit, tick, lock, counts, seen>>

CaptureFault(h) ==
    /\ turn[h].pc # "idle" /\ faults < MaxFaults
    /\ faults' = faults + 1
    /\ ToTurn(h, NoTurn)
    /\ UNCHANGED <<row, edit, tick, lock, now, edits, seen>>

\* Thirty minutes later.
Age(b) ==
    /\ row[b].recent
    /\ row' = [row EXCEPT ![b].recent = FALSE]
    /\ UNCHANGED <<turn, edit, tick, lock, counts, seen>>

-----------------------------------------------------------------------------
(* The dashboard.                                                           *)

Counted == edits < MaxEdits /\ edits' = edits + 1

\* A manual entry has no appointment yet, and may name a thread.
Post(b, status, t) ==
    /\ Counted
    /\ Insert(b, [NoRow EXCEPT !.state = status, !.thread = t, !.recent = t # NoThread,
                                !.manual = TRUE])
    /\ UNCHANGED <<turn, edit, tick, lock, now, faults, seen>>

PatchRead(o, b) ==
    /\ Counted
    /\ edit[o].b = NoBooking /\ Exists(b)
    /\ edit' = [edit EXCEPT ![o] = [b |-> b, at |-> row[b].at, tpl |-> row[b].tpl]]
    /\ UNCHANGED <<row, turn, tick, lock, now, faults, seen>>

\* The body: a status, an appointment, a template or none; a field it leaves out
\* stays what it is.
Bodies == [state : {"new", "confirmed", "cancelled", "keep"}, at : Slots \cup {NoSlot, -1}, tpl : {"on", "off", "keep"}]

\* The stamp is cleared by what the handler has read.
Clears(old, body) ==
    \/ body.tpl = "off" /\ old.tpl
    \/ body.at \in Slots /\ body.at # old.at

PatchWrite(o, body) ==
    LET b == edit[o].b
        clear == Clears(edit[o], body)
        new == [row[b] EXCEPT !.state = IF body.state = "keep" THEN @ ELSE body.state,
                              !.at = IF body.at = -1 THEN @ ELSE body.at,
                              !.counted = @ /\ body.at = -1 /\ row[b].state # "cancelled",
                              !.tpl = IF body.tpl = "keep" THEN @ ELSE body.tpl = "on",
                              !.stamp = @ /\ ~clear]
    IN  /\ b # NoBooking
        /\ edit' = [edit EXCEPT ![o] = NoPatch]
        /\ IF Exists(b)
           THEN /\ row' = [row EXCEPT ![b] = new]
                /\ cleared' = [cleared EXCEPT ![b] = @ + IF clear /\ row[b].stamp THEN 1 ELSE 0]
           ELSE UNCHANGED <<row, cleared>>
        /\ UNCHANGED <<turn, tick, lock, counts, sent, late, raced, twins>>

Delete(b) ==
    /\ Counted
    /\ Exists(b)
    /\ row' = [row EXCEPT ![b].state = "deleted"]
    /\ UNCHANGED <<turn, edit, tick, lock, now, faults, seen>>

-----------------------------------------------------------------------------
(* The reminder tick.                                                       *)

ToTick(k, rec) == tick' = [tick EXCEPT ![k] = rec]

\* Nobody releases the lock: it expires, however long the tick takes.
Start(k) ==
    /\ tick[k].pc = "rest" /\ ~lock
    /\ lock' = TRUE
    /\ ToTick(k, [Rest EXCEPT !.pc = "next",
                              !.due = {b \in Bookings : /\ row[b].state = "confirmed" /\ row[b].tpl
                                                        /\ ~row[b].stamp /\ row[b].at = now}])
    /\ UNCHANGED <<row, turn, edit, counts, seen>>

Expire ==
    /\ lock
    /\ lock' = FALSE
    /\ UNCHANGED <<row, turn, edit, tick, counts, seen>>

Done(k) ==
    /\ tick[k].pc = "next" /\ tick[k].due = {}
    /\ ToTick(k, Rest)
    /\ UNCHANGED <<row, turn, edit, lock, counts, seen>>

\* Mutant: the row stays at hand.
SkipOnly(k, b) == ToTick(k, [tick[k] EXCEPT !.pc = "next", !.due = @ \ {b}])

Skip(k, b) == ToTick(k, [tick[k] EXCEPT !.pc = "next", !.due = @ \ {b}, !.b = NoBooking])

\* The gates, once more; not whether the appointment is still near.
Due(b) == row[b].state = "confirmed" /\ row[b].tpl /\ ~row[b].stamp /\ row[b].at # NoSlot

Read(k, b) ==
    /\ tick[k].pc = "next" /\ b \in tick[k].due
    /\ \/ Due(b) /\ ToTick(k, [tick[k] EXCEPT !.pc = "claim", !.b = b])
       \/ Skip(k, b)        \* a gate is closed, Meta has unapproved the template, or the read throws
    /\ UNCHANGED <<row, turn, edit, lock, counts, seen>>

\* Mutant: the stamp is written whether or not there is one.
ClaimAnyway(k) ==
    LET b == tick[k].b
    IN  /\ tick[k].pc = "claim"
        /\ IF Exists(b)
           THEN /\ row' = [row EXCEPT ![b].stamp = TRUE]
                /\ ToTick(k, [tick[k] EXCEPT !.pc = "send"])
           ELSE Skip(k, b) /\ UNCHANGED row
        /\ UNCHANGED <<turn, edit, lock, counts, seen>>

\* Only the one who finds no stamp goes on, with a channel or without.
Claim(k) ==
    LET b == tick[k].b
    IN  /\ tick[k].pc = "claim"
        /\ IF Exists(b) /\ ~row[b].stamp
           THEN /\ row' = [row EXCEPT ![b].stamp = TRUE]
                /\ \E pc \in {"send", "undo"} : ToTick(k, [tick[k] EXCEPT !.pc = pc])
           ELSE Skip(k, b) /\ UNCHANGED row
        /\ UNCHANGED <<turn, edit, lock, counts, seen>>

Accepts(b) == sent' = [sent EXCEPT ![b] = @ + 1]

\* Meta accepts; it refuses; it accepts, and the answer is too late or unreadable.
Send(k) ==
    LET b == tick[k].b
    IN  /\ tick[k].pc = "send"
        /\ \/ Accepts(b) /\ Skip(k, b) /\ UNCHANGED <<late, faults>>
           \/ ToTick(k, [tick[k] EXCEPT !.pc = "undo"]) /\ UNCHANGED <<sent, late, faults>>
           \/ /\ faults < MaxFaults
              /\ faults' = faults + 1
              /\ Accepts(b)
              /\ late' = [late EXCEPT ![b] = @ + 1]
              /\ ToTick(k, [tick[k] EXCEPT !.pc = "undo"])
        /\ UNCHANGED <<row, turn, edit, lock, now, edits, cleared, raced, twins>>

\* Whoever's stamp it is by now.
Undo(k) ==
    LET b == tick[k].b
    IN  /\ tick[k].pc = "undo"
        /\ row' = IF Exists(b) THEN [row EXCEPT ![b].stamp = FALSE] ELSE row
        /\ Skip(k, b)
        /\ UNCHANGED <<turn, edit, lock, counts, seen>>

\* The replica dies; what it has claimed stays stamped.
TickFault(k) ==
    /\ tick[k].pc # "rest" /\ faults < MaxFaults
    /\ faults' = faults + 1
    /\ ToTick(k, Rest)
    /\ UNCHANGED <<row, turn, edit, lock, now, edits, seen>>

Advance ==
    /\ now < MaxTime
    /\ now' = now + 1
    /\ UNCHANGED <<row, turn, edit, tick, lock, edits, faults, seen>>

-----------------------------------------------------------------------------
Capture(h) ==
    \/ \E t \in Threads \cup {NoThread}, s \in Slots \cup {NoSlot} : CountRoom(h, t, s)
    \/ \E t \in Threads : Dedupe(h, t)
    \/ Create(h)
    \/ CaptureFault(h)

Dashboard ==
    \/ \E b \in Bookings, s \in {"new", "confirmed", "cancelled"}, t \in Threads \cup {NoThread} : Post(b, s, t)
    \/ \E o \in Ops, b \in Bookings : PatchRead(o, b)
    \/ \E o \in Ops, body \in Bodies : PatchWrite(o, body)
    \/ \E b \in Bookings : Delete(b)

Remind(k) ==
    \/ Start(k) \/ Done(k) \/ Claim(k) \/ Send(k) \/ Undo(k) \/ TickFault(k)
    \/ \E b \in Bookings : Read(k, b)

Next ==
    \/ \E h \in Captures : Capture(h)
    \/ Dashboard
    \/ \E k \in Ticks : Remind(k)
    \/ \E b \in Bookings : Age(b)
    \/ Expire \/ Advance

Spec == Init /\ [][Next]_vars

-----------------------------------------------------------------------------
Row == [state : {"none", "new", "confirmed", "cancelled", "deleted"}, at : 0 .. MaxTime,
        thread : Threads \cup {NoThread}, counted : BOOLEAN, flag : BOOLEAN,
        tpl : BOOLEAN, stamp : BOOLEAN, recent : BOOLEAN, manual : BOOLEAN]

Turn == [pc : {"idle", "dedupe", "create", "create blind"}, thread : Threads \cup {NoThread},
         at : 0 .. MaxTime, full : BOOLEAN]

Patch == [b : Bookings \cup {NoBooking}, at : 0 .. MaxTime, tpl : BOOLEAN]

Tick == [pc : {"rest", "next", "claim", "send", "undo"}, due : SUBSET Bookings, b : Bookings \cup {NoBooking}]

(* Types of the table and of the local records.                             *)
TypeOK ==
    /\ row \in [Bookings -> Row]
    /\ turn \in [Captures -> Turn]
    /\ edit \in [Ops -> Patch]
    /\ tick \in [Ticks -> Tick]
    /\ \A k \in Ticks : tick[k].b \in Bookings <=> tick[k].pc \in {"claim", "send", "undo"}
    /\ lock \in BOOLEAN
    /\ now \in 0 .. MaxTime /\ edits \in 0 .. MaxEdits /\ faults \in 0 .. MaxFaults
    /\ sent \in [Bookings -> Nat] /\ cleared \in [Bookings -> Nat] /\ late \in [Bookings -> Nat]

\* Two replicas, the lock's expiry and a rolled back stamp never make it two
\* reminders: one, one more for every time the dashboard cleared the stamp, and one
\* more for every answer of Meta that came too late.
RemindersAreCounted == \A b \in Bookings : sent[b] <= 1 + cleared[b] + late[b]

\* "Overshoots ... and gets flagged for the operator": the captures that count the
\* room never fill a slot beyond its capacity unseen, unless two of them overlapped.
OvershootIsFlagged ==
    \A s \in Slots \ raced :
        Cardinality({b \in Booked(s) : row[b].counted /\ ~row[b].flag}) <= Capacity

\* A follow-up does not book again: within thirty minutes a thread has one booking that
\* was captured, unless two turns overlapped.
OnePerThread == \A t \in Threads \ twins : Cardinality({b \in Recent(t) : ~row[b].manual}) <= 1
=============================================================================
