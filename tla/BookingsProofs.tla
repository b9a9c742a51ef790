--------------------------- MODULE BookingsProofs ---------------------------
(***************************************************************************)
(* What holds of bookings for any number of bookings, threads, captures,   *)
(* requests and replicas.                                                  *)
(***************************************************************************)
EXTENDS Bookings, FiniteSetTheorems, TLAPS

LEMMA Times == Slots \subseteq 0 .. MaxTime /\ NoSlot \in 0 .. MaxTime
  BY BookingsAssumption DEF Slots, NoSlot

LEMMA InitTypes == Init => TypeOK
<1> SUFFICES ASSUME Init PROVE TypeOK
  OBVIOUS
<1>1. row \in [Bookings -> Row] /\ turn \in [Captures -> Turn] /\ edit \in [Ops -> Patch]
  BY Times DEF Init, NoRow, NoTurn, NoPatch, Row, Turn, Patch
<1>2. /\ tick \in [Ticks -> Tick]
      /\ \A k \in Ticks : tick[k].b \in Bookings <=> tick[k].pc \in {"claim", "send", "undo"}
  BY BookingsAssumption DEF Init, Rest, Tick
<1>3. sent \in [Bookings -> Nat] /\ cleared \in [Bookings -> Nat] /\ late \in [Bookings -> Nat]
  BY DEF Init
<1>4. now \in 0 .. MaxTime /\ edits \in 0 .. MaxEdits /\ faults \in 0 .. MaxFaults
  BY BookingsAssumption DEF Init
<1>5. lock \in BOOLEAN
  BY DEF Init
<1> QED
  BY <1>1, <1>2, <1>3, <1>4, <1>5 DEF TypeOK

-----------------------------------------------------------------------------
(* Types: a capture, a request and a tick each leave the others' records     *)
(* alone.                                                                    *)

LEMMA StampType ==
    ASSUME TypeOK, NEW b \in Bookings, NEW x \in BOOLEAN
    PROVE  [row EXCEPT ![b].stamp = x] \in [Bookings -> Row]
<1>1. row[b] \in Row
  BY DEF TypeOK
<1>2. [row[b] EXCEPT !.stamp = x] \in Row
  BY <1>1 DEF Row
<1> QED
  BY <1>2 DEF TypeOK

LEMMA CaptureTypes == ASSUME TypeOK, NEW h \in Captures, Capture(h) PROVE TypeOK'
<1> USE BookingsAssumption, Times DEF TypeOK
<1>1. ASSUME NEW t \in Threads \cup {NoThread}, NEW s \in Slots \cup {NoSlot}, CountRoom(h, t, s) PROVE TypeOK'
  <2>1. turn' \in [Captures -> Turn]
    BY <1>1 DEF CountRoom, ToTurn, Turn
  <2> QED
    BY <1>1, <2>1 DEF CountRoom, counts
<1>2. ASSUME NEW t \in Threads, Dedupe(h, t) PROVE TypeOK'
  <2>1. NoTurn \in Turn /\ turn[h] \in Turn
    BY DEF NoTurn, Turn
  <2>2. [turn[h] EXCEPT !.pc = "create"] \in Turn
    BY <2>1 DEF Turn
  <2>3. \A s \in Slots \cup {NoSlot} : [NoTurn EXCEPT !.pc = "create blind", !.thread = t, !.at = s] \in Turn
    BY <2>1 DEF Turn
  <2>4. \E rec \in Turn : ToTurn(h, rec)
    BY <1>2, <2>1, <2>2, <2>3 DEF Dedupe
  <2>5. turn' \in [Captures -> Turn]
    BY <2>4 DEF ToTurn
  <2> QED
    BY <1>2, <2>5 DEF Dedupe, counts
<1>3. CASE Create(h)
  <2>1. turn[h].at \in 0 .. MaxTime /\ turn[h].thread \in Threads \cup {NoThread} /\ turn[h].full \in BOOLEAN
    BY DEF Turn
  <2>2. PICK b \in Bookings :
           row' = [row EXCEPT ![b] = [NoRow EXCEPT !.state = "new", !.at = turn[h].at, !.thread = turn[h].thread,
                                                   !.counted = turn[h].pc = "create", !.flag = turn[h].full,
                                                   !.recent = TRUE]]
    BY <1>3 DEF Create, Insert
  <2>3. (turn[h].pc = "create") \in BOOLEAN
    OBVIOUS
  <2>4. row'[b] \in Row
    BY <2>1, <2>2, <2>3 DEF NoRow, Row
  <2>5. row' \in [Bookings -> Row]
    BY <2>2, <2>4
  <2>6. turn' \in [Captures -> Turn]
    BY <1>3 DEF Create, ToTurn, NoTurn, Turn
  <2> QED
    BY <1>3, <2>5, <2>6 DEF Create, counts, seen
<1>4. CASE CaptureFault(h)
  <2>1. turn' \in [Captures -> Turn]
    BY <1>4 DEF CaptureFault, ToTurn, NoTurn, Turn
  <2> QED
    BY <1>4, <2>1 DEF CaptureFault, seen
<1> QED
  BY <1>1, <1>2, <1>3, <1>4 DEF Capture

LEMMA DashboardTypes == TypeOK /\ Dashboard => TypeOK'
<1> SUFFICES ASSUME TypeOK, Dashboard PROVE TypeOK'
  OBVIOUS
<1> USE BookingsAssumption, Times DEF TypeOK
<1>1. ASSUME NEW b \in Bookings, NEW s \in {"new", "confirmed", "cancelled"}, NEW t \in Threads \cup {NoThread}, 
             Post(b, s, t)
      PROVE  TypeOK'
  <2> DEFINE named == t # NoThread
             rec == [NoRow EXCEPT !.state = s, !.thread = t, !.recent = named, !.manual = TRUE]
  <2>1. named \in BOOLEAN
    OBVIOUS
  <2>2. row' = [row EXCEPT ![b] = rec]
    BY <1>1 DEF Post, Insert
  <2> HIDE DEF named
  <2>3. rec \in Row
    BY <2>1 DEF NoRow, Row
  <2> HIDE DEF rec
  <2>4. row' \in [Bookings -> Row]
    BY <2>2, <2>3
  <2> QED
    BY <1>1, <2>4 DEF Post, Counted, seen
<1>2. ASSUME NEW o \in Ops, NEW b \in Bookings, PatchRead(o, b) PROVE TypeOK'
  <2>1. [b |-> b, at |-> row[b].at, tpl |-> row[b].tpl] \in Patch
    BY DEF Patch, Row
  <2>2. edit' \in [Ops -> Patch]
    BY <1>2, <2>1 DEF PatchRead
  <2> QED
    BY <1>2, <2>2 DEF PatchRead, Counted, seen
<1>3. ASSUME NEW o \in Ops, NEW body \in Bodies, PatchWrite(o, body) PROVE TypeOK'
  <2> DEFINE b == edit[o].b
             clear == Clears(edit[o], body)
             on == body.tpl = "on"
             moved == body.at # -1
             void == row[b].state = "cancelled"
  <2>1. b \in Bookings
    BY <1>3 DEF PatchWrite, Patch
  <2>2. /\ body.state = "keep" \/ body.state \in {"new", "confirmed", "cancelled"}
        /\ body.at = -1 \/ body.at \in 0 .. MaxTime
    BY DEF Bodies
  <2>3. clear \in BOOLEAN /\ on \in BOOLEAN /\ (body.at = -1) \in BOOLEAN /\ (row[b].state # "cancelled") \in BOOLEAN
    BY DEF Clears
  <2>4. row' \in [Bookings -> Row]
    <3> HIDE DEF clear, on
    <3>1. CASE Exists(b)
      <4>1. row[b] \in Row
        BY <2>1
      <4>2. row' = [row EXCEPT ![b] = [row[b] EXCEPT !.state = IF body.state = "keep" THEN @ ELSE body.state,
                                   !.at = IF body.at = -1 THEN @ ELSE body.at,
                                   !.counted = @ /\ body.at = -1 /\ row[b].state # "cancelled",
                                   !.tpl = IF body.tpl = "keep" THEN @ ELSE on,
                                   !.stamp = @ /\ ~clear]]
        BY <1>3, <3>1 DEF PatchWrite, clear, on
      <4>3. row'[b] \in Row
        <5> DEFINE state == IF body.state = "keep" THEN row[b].state ELSE body.state
                   at == IF body.at = -1 THEN row[b].at ELSE body.at
                   counted == row[b].counted /\ body.at = -1 /\ row[b].state # "cancelled"
                   tpl == IF body.tpl = "keep" THEN row[b].tpl ELSE on
                   stamp == row[b].stamp /\ ~clear
        <5>1. state \in {"none", "new", "confirmed", "cancelled", "deleted"} /\ at \in 0 .. MaxTime
          BY <2>2, <4>1 DEF Row
        <5>2. counted \in BOOLEAN /\ stamp \in BOOLEAN
          BY <2>3, <4>1
        <5>3. tpl \in BOOLEAN
          BY <2>3, <4>1 DEF Row
        <5>4. row'[b] = [row[b] EXCEPT !.state = state, !.at = at, !.counted = counted, !.tpl = tpl, !.stamp = stamp]
          BY <2>1, <4>2
        <5> HIDE DEF state, at, counted, tpl, stamp
        <5> QED
          BY <4>1, <5>1, <5>2, <5>3, <5>4 DEF Row
      <4> QED
        BY <4>2, <4>3
    <3>2. CASE ~Exists(b)
      BY <1>3, <3>2 DEF PatchWrite
    <3> QED
      BY <3>1, <3>2
  <2>5. cleared' \in [Bookings -> Nat]
    BY <1>3, <2>1 DEF PatchWrite
  <2>6. edit' \in [Ops -> Patch]
    BY <1>3 DEF PatchWrite, NoPatch, Patch
  <2> QED
    BY <1>3, <2>4, <2>5, <2>6 DEF PatchWrite, counts
<1>4. ASSUME NEW b \in Bookings, Delete(b) PROVE TypeOK'
  <2>1. row' \in [Bookings -> Row]
    <3>1. row[b] \in Row
      BY <1>4
    <3>2. [row[b] EXCEPT !.state = "deleted"] \in Row
      BY <3>1 DEF Row
    <3>3. row' = [row EXCEPT ![b] = [row[b] EXCEPT !.state = "deleted"]]
      BY <1>4 DEF Delete
    <3> QED
      BY <1>4, <3>2, <3>3
  <2> QED
    BY <1>4, <2>1 DEF Delete, Counted, seen
<1> QED
  BY <1>1, <1>2, <1>3, <1>4 DEF Dashboard

LEMMA RemindTypes == ASSUME TypeOK, NEW k \in Ticks, Remind(k) PROVE TypeOK'
<1> USE BookingsAssumption DEF TypeOK
<1> DEFINE Good(r) == r \in Tick /\ (r.b \in Bookings <=> r.pc \in {"claim", "send", "undo"})
<1>0. /\ tick[k] \in Tick
      /\ Good(Rest)
      /\ \A due \in SUBSET Bookings : Good([Rest EXCEPT !.pc = "next", !.due = due])
  BY DEF Rest, Tick
<1>1. ASSUME NEW r, Good(r), ToTick(k, r)
      PROVE  /\ tick' \in [Ticks -> Tick]
             /\ \A i \in Ticks : tick'[i].b \in Bookings <=> tick'[i].pc \in {"claim", "send", "undo"}
  BY <1>1 DEF ToTick
<1>2. ASSUME NEW b \in Bookings, Skip(k, b) \/ tick' = tick
      PROVE  /\ tick' \in [Ticks -> Tick]
             /\ \A i \in Ticks : tick'[i].b \in Bookings <=> tick'[i].pc \in {"claim", "send", "undo"}
  <2>1. Good([tick[k] EXCEPT !.pc = "next", !.due = @ \ {b}, !.b = NoBooking])
    BY <1>0 DEF Tick
  <2> QED
    BY <1>1, <1>2, <2>1 DEF Skip
<1>3. ASSUME NEW b \in Bookings, Read(k, b) PROVE TypeOK'
  <2>1. Good([tick[k] EXCEPT !.pc = "claim", !.b = b])
    BY <1>0 DEF Tick
  <2> HIDE DEF Good
  <2> QED
    BY <1>1, <1>2, <1>3, <2>1 DEF Read, counts, seen
<1>4. CASE Start(k)
  <2> HIDE DEF Good
  <2> QED
    BY <1>0, <1>1, <1>4 DEF Start, counts, seen
<1>5. CASE Done(k) \/ TickFault(k)
  <2>1. faults' \in 0 .. MaxFaults
    BY <1>5 DEF Done, TickFault, counts
  <2> HIDE DEF Good
  <2>2. ToTick(k, Rest) /\ UNCHANGED <<row, turn, edit, lock, now, edits, seen>>
    BY <1>5 DEF Done, TickFault, counts
  <2> QED
    BY <1>0, <1>1, <2>1, <2>2 DEF seen
<1> DEFINE b == tick[k].b
<1>6. tick[k].pc \in {"claim", "send", "undo"} =>
         /\ b \in Bookings
         /\ \A pc \in {"send", "undo"} : Good([tick[k] EXCEPT !.pc = pc])
  BY <1>0 DEF Tick
<1>7. CASE Claim(k)
  <2>1. b \in Bookings /\ row' \in [Bookings -> Row]
    <3>1. CASE Exists(b) /\ ~row[b].stamp
      <4>1. row' = [row EXCEPT ![b].stamp = TRUE] /\ b \in Bookings
        BY <1>6, <1>7, <3>1 DEF Claim
      <4> HIDE DEF b
      <4> QED
        BY <4>1, StampType
    <3>2. CASE ~(Exists(b) /\ ~row[b].stamp)
      BY <1>6, <1>7, <3>2 DEF Claim
    <3> QED
      BY <3>1, <3>2
  <2> HIDE DEF Good
  <2>2. \/ Skip(k, b)
        \/ \E pc \in {"send", "undo"} : ToTick(k, [tick[k] EXCEPT !.pc = pc])
    BY <1>7 DEF Claim
  <2> HIDE DEF b
  <2> QED
    BY <1>1, <1>2, <1>6, <1>7, <2>1, <2>2 DEF Claim, counts, seen
<1>8. CASE Send(k)
  <2>1. b \in Bookings
    BY <1>6, <1>8 DEF Send
  <2>2. /\ sent' \in [Bookings -> Nat] /\ late' \in [Bookings -> Nat]
        /\ faults' \in 0 .. MaxFaults
    BY <1>8 DEF Send, Accepts
  <2> HIDE DEF Good
  <2>3. Skip(k, b) \/ ToTick(k, [tick[k] EXCEPT !.pc = "undo"])
    BY <1>8 DEF Send
  <2>4. UNCHANGED <<row, turn, edit, lock, now, edits, cleared>> /\ tick[k].pc = "send"
    BY <1>8 DEF Send
  <2> HIDE DEF b
  <2> QED
    BY <1>1, <1>2, <1>6, <2>1, <2>2, <2>3, <2>4
<1>9. CASE Undo(k)
  <2>1. b \in Bookings /\ row' \in [Bookings -> Row]
    BY <1>6, <1>9, StampType DEF Undo
  <2> HIDE DEF Good
  <2> QED
    BY <1>2, <1>9, <2>1 DEF Undo, counts, seen
<1> QED
  BY <1>3, <1>4, <1>5, <1>7, <1>8, <1>9 DEF Remind

LEMMA TypeStep == TypeOK /\ [Next]_vars => TypeOK'
<1> SUFFICES ASSUME TypeOK, [Next]_vars PROVE TypeOK'
  OBVIOUS
<1>1. CASE UNCHANGED vars
  BY <1>1 DEF vars, counts, seen, TypeOK
<1>2. ASSUME NEW b \in Bookings, Age(b) PROVE TypeOK'
  <2>1. row' \in [Bookings -> Row]
    BY <1>2, ZenonT(40) DEF Age, TypeOK, Row
  <2> QED
    BY <1>2, <2>1 DEF Age, counts, seen, TypeOK
<1>3. CASE Expire
  BY <1>3 DEF Expire, counts, seen, TypeOK
<1>4. CASE Advance
  <2>1. now' \in 0 .. MaxTime
    BY <1>4, BookingsAssumption DEF Advance, TypeOK
  <2> QED
    BY <1>4, <2>1 DEF Advance, seen, TypeOK
<1> QED
  BY <1>1, <1>2, <1>3, <1>4, CaptureTypes, DashboardTypes, RemindTypes DEF Next

LEMMA TypesHold == Spec => []TypeOK
  BY InitTypes, TypeStep, PTL DEF Spec

\* For any number of bookings, captures, requests and replicas the rows and the
\* records keep their types (bookings.routes.ts, booking-reminder-tick.ts).
THEOREM BookingTypes == Spec => []TypeOK
  BY TypesHold

-----------------------------------------------------------------------------
(* Reminders.  A booking's stamp is a token: it is with the row, where it    *)
(* can be claimed, or with a replica that may still send, or it is spent.    *)

Holding(b) == {k \in Ticks : tick[k].b = b /\ tick[k].pc \in {"send", "undo"}}

Unclaimed(b) == IF row[b].stamp THEN 0 ELSE 1

Tokens ==
    \A b \in Bookings :
        /\ row[b].state = "none" => ~row[b].stamp
        /\ sent[b] + Cardinality(Holding(b)) + Unclaimed(b) <= 1 + cleared[b] + late[b]

LEMMA HoldingFinite == \A b : IsFiniteSet(Holding(b)) /\ Cardinality(Holding(b)) \in Nat
  BY BookingsAssumption, FS_Subset, FS_CardinalityType DEF Holding

LEMMA InitTokens == Init => Tokens
<1> SUFFICES ASSUME Init PROVE Tokens
  OBVIOUS
<1>1. \A b \in Bookings : Holding(b) = {}
  BY DEF Init, Rest, Holding
<1>2. Cardinality({}) = 0
  BY FS_EmptySet
<1>3. \A b \in Bookings : ~row[b].stamp /\ row[b].state = "none"
  BY DEF Init, NoRow
<1>4. \A b \in Bookings : sent[b] = 0 /\ cleared[b] = 0 /\ late[b] = 0
  BY DEF Init
<1> QED
  BY <1>1, <1>2, <1>3, <1>4 DEF Tokens, Unclaimed

\* A stamp that is taken off a row is counted.
Tracked(b) ==
    /\ row'[b].state = "none" => ~row'[b].stamp
    /\ row'[b].stamp => row[b].stamp
    /\ cleared'[b] = cleared[b] + IF row[b].stamp /\ ~row'[b].stamp THEN 1 ELSE 0

LEMMA SameRowTracked ==
    ASSUME TypeOK, Tokens, NEW b \in Bookings, cleared'[b] = cleared[b],
           row'[b].state = "none" => ~row'[b].stamp, row'[b].stamp = row[b].stamp
    PROVE  Tracked(b)
<1>1. cleared[b] \in Nat
  BY DEF TypeOK
<1> QED
  BY <1>1 DEF Tracked

\* What does not touch the ticks keeps the tokens if a stamp it takes off is counted.
LEMMA RowsKeepTokens ==
    ASSUME TypeOK, TypeOK', Tokens, UNCHANGED <<tick, sent, late>>,
           \A b \in Bookings : Tracked(b)
    PROVE  Tokens'
<1> SUFFICES ASSUME NEW b \in Bookings
             PROVE  sent'[b] + Cardinality(Holding(b)') + Unclaimed(b)' <= 1 + cleared'[b] + late'[b]
  BY DEF Tokens, Tracked
<1>1. Holding(b)' = Holding(b) /\ Cardinality(Holding(b)) \in Nat
  BY HoldingFinite DEF Holding
<1>2. sent[b] \in Nat /\ late[b] \in Nat /\ cleared[b] \in Nat
  BY DEF TypeOK
<1>3. sent[b] + Cardinality(Holding(b)) + Unclaimed(b) <= 1 + cleared[b] + late[b]
  BY DEF Tokens
<1> USE DEF Tracked
<1>4. CASE row[b].stamp
  <2>1. CASE row'[b].stamp
    BY <1>1, <1>2, <1>3, <1>4, <2>1 DEF Unclaimed
  <2>2. CASE ~row'[b].stamp
    BY <1>1, <1>2, <1>3, <1>4, <2>2 DEF Unclaimed
  <2> QED
    BY <2>1, <2>2
<1>5. CASE ~row[b].stamp
  BY <1>1, <1>2, <1>3, <1>5 DEF Unclaimed
<1> QED
  BY <1>4, <1>5

\* A replica's step moves one token at most.
LEMMA TickMovesToken ==
    ASSUME NEW k \in Ticks, TypeOK, NEW r, ToTick(k, r), NEW b \in Bookings
    PROVE  LET holds == tick[k].b = b /\ tick[k].pc \in {"send", "undo"}
               keeps == r.b = b /\ r.pc \in {"send", "undo"}
           IN  Cardinality(Holding(b)') =
                   IF holds THEN IF keeps THEN Cardinality(Holding(b)) ELSE Cardinality(Holding(b)) - 1
                   ELSE IF keeps THEN Cardinality(Holding(b)) + 1 ELSE Cardinality(Holding(b))
<1> DEFINE holds == tick[k].b = b /\ tick[k].pc \in {"send", "undo"}
           keeps == r.b = b /\ r.pc \in {"send", "undo"}
<1>1. /\ k \in Holding(b) <=> holds
      /\ Holding(b)' = IF keeps THEN Holding(b) \cup {k} ELSE Holding(b) \ {k}
  BY DEF Holding, ToTick, TypeOK
<1>2. /\ IsFiniteSet(Holding(b)) /\ Cardinality(Holding(b)) \in Nat
      /\ Cardinality(Holding(b) \cup {k}) = IF k \in Holding(b) THEN Cardinality(Holding(b)) ELSE Cardinality(Holding(b)) + 1
      /\ Cardinality(Holding(b) \ {k}) = IF k \in Holding(b) THEN Cardinality(Holding(b)) - 1 ELSE Cardinality(Holding(b))
  BY HoldingFinite, FS_AddElement, FS_RemoveElement
<1> HIDE DEF holds, keeps
<1> QED
  BY <1>1, <1>2 DEF holds, keeps

\* A manual entry.
Manual(s, t) == [NoRow EXCEPT !.state = s, !.thread = t, !.recent = t # NoThread, !.manual = TRUE]

Posted(b) == \E s \in {"new", "confirmed", "cancelled"}, t \in Threads \cup {NoThread} : Post(b, s, t)

LEMMA CaptureTokens ==
    ASSUME TypeOK, TypeOK', Tokens, NEW h \in Captures, Capture(h)
    PROVE  Tokens'
<1>1. CASE Create(h)
  <2>1. PICK a \in Bookings, rec \in {[NoRow EXCEPT !.state = "new", !.at = turn[h].at, !.thread = turn[h].thread,
                                      !.counted = turn[h].pc = "create", !.flag = turn[h].full, !.recent = TRUE]} :
            Insert(a, rec)
    BY <1>1 DEF Create
  <2>2. ~rec.stamp /\ ~row[a].stamp
    BY <2>1 DEF NoRow, Insert, Tokens
  <2>3. UNCHANGED <<tick, sent, late, cleared>>
    BY <1>1 DEF Create, seen
  <2>4. ASSUME NEW c \in Bookings PROVE Tracked(c)
    <3>1. CASE c = a
      <4>1. row'[c] = rec
        BY <2>1, <3>1 DEF Insert, TypeOK
      <4>2. row'[c].stamp = FALSE /\ row[c].stamp = FALSE
        BY <2>2, <3>1, <4>1 DEF TypeOK, Row
      <4> QED
        BY <2>3, <4>2, SameRowTracked
    <3>2. CASE c # a
      <4>1. row'[c] = row[c]
        BY <2>1, <3>2 DEF Insert, TypeOK
      <4> QED
        BY <2>3, <4>1, SameRowTracked DEF Tokens
    <3> QED
      BY <3>1, <3>2
  <2> QED
    BY <2>3, <2>4, RowsKeepTokens
<1>2. CASE UNCHANGED <<row, tick, sent, cleared, late>>
  BY <1>2 DEF Tokens, Holding, Unclaimed
<1> QED
  BY <1>1, <1>2 DEF Capture, CountRoom, Dedupe, CaptureFault, seen

LEMMA PatchTokens ==
    ASSUME TypeOK, TypeOK', Tokens, NEW o \in Ops, NEW body \in Bodies, PatchWrite(o, body)
    PROVE  Tokens'
<1> DEFINE b == edit[o].b
           clear == Clears(edit[o], body)
<1>1. b \in Bookings
  BY DEF PatchWrite, TypeOK, Patch
<1>2. CASE Exists(b)
  <2> DEFINE new == [row[b] EXCEPT !.state = IF body.state = "keep" THEN @ ELSE body.state,
                                   !.at = IF body.at = -1 THEN @ ELSE body.at,
                                   !.counted = @ /\ body.at = -1 /\ row[b].state # "cancelled",
                                   !.tpl = IF body.tpl = "keep" THEN @ ELSE body.tpl = "on",
                                   !.stamp = @ /\ ~clear]
  <2>1. /\ row' = [row EXCEPT ![b] = new]
        /\ cleared' = [cleared EXCEPT ![b] = @ + IF clear /\ row[b].stamp THEN 1 ELSE 0]
        /\ UNCHANGED <<tick, sent, late>>
    BY <1>1, <1>2 DEF PatchWrite
  <2>2. row[b] \in Row /\ row'[b] = new
    BY <1>1, <2>1 DEF TypeOK
  <2>3. new.stamp = (row[b].stamp /\ ~clear)
    BY <2>2 DEF Row
  <2>4. new.state # "none"
    <3>1. new.state = IF body.state = "keep" THEN row[b].state ELSE body.state
      BY <2>2 DEF Row
    <3> QED
      BY <1>2, <3>1 DEF Exists, Bodies
  <2>5. \A c \in Bookings : cleared[c] \in Nat /\ cleared[c] + 0 = cleared[c]
    BY DEF TypeOK
  <2> HIDE DEF new, b, clear
  <2>6. ASSUME NEW c \in Bookings PROVE Tracked(c)
    <3>1. CASE c = b
      <4>1. /\ row'[b].state # "none"
            /\ row'[b].stamp = (row[b].stamp /\ ~clear)
        BY <2>2, <2>3, <2>4
      <4>2. cleared'[b] = cleared[b] + IF clear /\ row[b].stamp THEN 1 ELSE 0
        BY <1>1, <2>1 DEF TypeOK
      <4>3. row[b].stamp \in BOOLEAN
        BY <2>2 DEF Row
      <4> QED
        BY <3>1, <4>1, <4>2, <4>3, <2>5 DEF Tracked
    <3>2. CASE c # b
      <4>1. row'[c] = row[c] /\ cleared'[c] = cleared[c]
        BY <2>1, <3>2 DEF TypeOK
      <4> QED
        BY <4>1, SameRowTracked DEF Tokens
    <3> QED
      BY <3>1, <3>2
  <2> QED
    BY <2>1, <2>6, RowsKeepTokens
<1>3. CASE ~Exists(b)
  BY <1>3 DEF PatchWrite, Tokens, Holding, Unclaimed
<1> QED
  BY <1>2, <1>3

\* What changes a row and leaves its stamp.
LEMMA RowTokens ==
    ASSUME TypeOK, TypeOK', Tokens, NEW b \in Bookings,
           Delete(b) \/ Posted(b) \/ Age(b)
    PROVE  Tokens'
<1>1. UNCHANGED <<tick, sent, late, cleared>>
  BY DEF Delete, Posted, Post, Age, seen
<1>2. \A c \in Bookings \ {b} : row'[c] = row[c]
  BY DEF Delete, Posted, Post, Age, Insert, TypeOK
<1>3. row[b] \in Row /\ row'[b] \in Row
  BY DEF TypeOK
<1>4. row'[b].stamp = row[b].stamp /\ (row'[b].state = "none" => ~row'[b].stamp)
  <2>1. CASE Delete(b)
    <3>1. row'[b] = [row[b] EXCEPT !.state = "deleted"]
      BY <2>1 DEF Delete, TypeOK
    <3> QED
      BY <1>3, <3>1 DEF Row
  <2>2. CASE Age(b)
    <3>1. row'[b] = [row[b] EXCEPT !.recent = FALSE]
      BY <2>2 DEF Age, TypeOK
    <3>2. row'[b].stamp = row[b].stamp /\ row'[b].state = row[b].state
      BY <1>3, <3>1 DEF Row
    <3> QED
      BY <3>2 DEF Tokens
  <2>3. ASSUME NEW s \in {"new", "confirmed", "cancelled"}, NEW t \in Threads \cup {NoThread}, Post(b, s, t)
        PROVE  row'[b].stamp = row[b].stamp /\ (row'[b].state = "none" => ~row'[b].stamp)
    <3>1. row'[b] = Manual(s, t) /\ ~row[b].stamp
      BY <2>3 DEF Post, Insert, TypeOK, Tokens, Manual
    <3>2. row'[b].stamp = FALSE /\ row[b].stamp = FALSE
      BY <1>3, <3>1 DEF NoRow, Row, Manual
    <3> QED
      BY <3>2
  <2> QED
    BY <2>1, <2>2, <2>3 DEF Posted
<1>5. ASSUME NEW c \in Bookings PROVE Tracked(c)
  <2>1. cleared'[c] = cleared[c] /\ row'[c].stamp = row[c].stamp /\ (row'[c].state = "none" => ~row'[c].stamp)
    BY <1>1, <1>2, <1>4 DEF Tokens
  <2> QED
    BY <2>1, SameRowTracked
<1> QED
  BY <1>1, <1>5, RowsKeepTokens

\* What a step of the replica must show of a booking.
Balanced(b, held) ==
    /\ row'[b].state = "none" => ~row'[b].stamp
    /\ cleared'[b] = cleared[b]
    /\ sent'[b] + held + Unclaimed(b)' - late'[b] <= sent[b] + Cardinality(Holding(b)) + Unclaimed(b) - late[b]

LEMMA BalancedSteps ==
    ASSUME TypeOK, TypeOK', Tokens, \A b \in Bookings : Balanced(b, Cardinality(Holding(b)'))
    PROVE  Tokens'
<1> SUFFICES ASSUME NEW b \in Bookings
             PROVE  sent'[b] + Cardinality(Holding(b)') + Unclaimed(b)' <= 1 + cleared'[b] + late'[b]
  BY DEF Tokens, Balanced
<1>1. /\ sent[b] \in Nat /\ late[b] \in Nat /\ cleared[b] \in Nat
      /\ sent'[b] \in Nat /\ late'[b] \in Nat
  BY DEF TypeOK
<1>2. Cardinality(Holding(b)) \in Nat /\ Cardinality(Holding(b)') \in Nat
  <2>1. IsFiniteSet(Holding(b)')
    BY BookingsAssumption, FS_Subset DEF Holding
  <2> QED
    BY <2>1, HoldingFinite, FS_CardinalityType
<1>3. Unclaimed(b) \in Nat /\ Unclaimed(b)' \in Nat
  BY DEF Unclaimed
<1>4. sent[b] + Cardinality(Holding(b)) + Unclaimed(b) <= 1 + cleared[b] + late[b]
  BY DEF Tokens
<1>5. Balanced(b, Cardinality(Holding(b)'))
  OBVIOUS
<1> QED
  BY <1>1, <1>2, <1>3, <1>4, <1>5 DEF Balanced

LEMMA SkipEnds ==
    ASSUME TypeOK, NEW k \in Ticks, NEW b, Skip(k, b)
    PROVE  \E r : ToTick(k, r) /\ r.pc = "next"
<1> DEFINE r == [tick[k] EXCEPT !.pc = "next", !.due = @ \ {b}, !.b = NoBooking]
<1>1. tick[k] \in Tick
  BY DEF TypeOK
<1>2. r.pc = "next"
  BY <1>1 DEF Tick
<1>3. ToTick(k, r)
  BY DEF Skip
<1> HIDE DEF r
<1> QED
  BY <1>2, <1>3

LEMMA RemindTokens ==
    ASSUME TypeOK, TypeOK', Tokens, NEW k \in Ticks, Remind(k)
    PROVE  Tokens'
<1> DEFINE a == tick[k].b
<1>1. tick[k] \in Tick /\ (a \in Bookings <=> tick[k].pc \in {"claim", "send", "undo"})
  BY DEF TypeOK
<1>2. cleared' = cleared
  BY DEF Remind, Start, Done, Read, Claim, Send, Undo, TickFault, seen
<1>3. \A b \in Bookings : /\ sent[b] \in Nat /\ late[b] \in Nat /\ Cardinality(Holding(b)) \in Nat
                          /\ Unclaimed(b) \in Nat
  BY HoldingFinite DEF TypeOK, Unclaimed
<1>4. CASE Start(k) \/ Done(k) \/ (\E b \in Bookings : Read(k, b))
  <2>1. PICK r : ToTick(k, r) /\ r.pc \notin {"send", "undo"}
    <3>1. ASSUME NEW d PROVE [Rest EXCEPT !.pc = "next", !.due = d].pc = "next"
      BY DEF Rest
    <3>2. CASE Start(k) \/ Done(k)
      BY <3>1, <3>2 DEF Start, Done, Rest
    <3>3. ASSUME NEW b \in Bookings, Read(k, b), ~Skip(k, b)
          PROVE  \E r : ToTick(k, r) /\ r.pc \notin {"send", "undo"}
      <4> DEFINE r == [tick[k] EXCEPT !.pc = "claim", !.b = b]
      <4>1. r.pc = "claim" /\ ToTick(k, r)
        BY <1>1, <3>3 DEF Read, Tick
      <4> HIDE DEF r
      <4> QED
        BY <4>1
    <3> QED
      BY <1>4, <3>2, <3>3, SkipEnds
  <2>2. tick[k].pc \notin {"send", "undo"} /\ UNCHANGED <<row, sent, late>>
    BY <1>4 DEF Start, Done, Read, seen
  <2>3. ASSUME NEW b \in Bookings PROVE Balanced(b, Cardinality(Holding(b)'))
    <3>1. Cardinality(Holding(b)') = Cardinality(Holding(b))
      BY <2>1, <2>2, TickMovesToken
    <3> QED
      BY <1>2, <1>3, <2>2, <3>1 DEF Balanced, Unclaimed, Tokens
  <2> QED
    BY <2>3, BalancedSteps
<1>5. CASE Claim(k)
  <2>1. a \in Bookings /\ tick[k].pc = "claim" /\ UNCHANGED <<sent, late>>
    BY <1>1, <1>5 DEF Claim, seen
  <2>2. CASE Exists(a) /\ ~row[a].stamp
    <3>1. PICK r : ToTick(k, r) /\ r.b = a /\ r.pc \in {"send", "undo"}
      BY <1>1, <1>5, <2>2 DEF Claim, Tick
    <3>2. row' = [row EXCEPT ![a].stamp = TRUE] /\ row[a] \in Row
      BY <1>5, <2>1, <2>2 DEF Claim, TypeOK
    <3>3. row'[a].stamp = TRUE /\ row'[a].state = row[a].state
      BY <2>1, <3>2 DEF TypeOK, Row
    <3>4. ASSUME NEW b \in Bookings PROVE Balanced(b, Cardinality(Holding(b)'))
      <4>1. CASE b = a
        <5>1. Cardinality(Holding(b)') = Cardinality(Holding(b)) + 1
          BY <2>1, <3>1, <4>1, TickMovesToken
        <5>2. Unclaimed(b) = 1 /\ Unclaimed(b)' = 0
          BY <2>2, <3>3, <4>1 DEF Unclaimed
        <5> QED
          BY <1>2, <1>3, <2>1, <2>2, <3>3, <4>1, <5>1, <5>2 DEF Balanced, Exists
      <4>2. CASE b # a
        <5>1. Cardinality(Holding(b)') = Cardinality(Holding(b))
          BY <2>1, <3>1, <4>2, TickMovesToken
        <5>2. row'[b] = row[b]
          BY <3>2, <4>2 DEF TypeOK
        <5> QED
          BY <1>2, <1>3, <2>1, <5>1, <5>2 DEF Balanced, Unclaimed, Tokens
      <4> QED
        BY <4>1, <4>2
    <3> QED
      BY <3>4, BalancedSteps
  <2>3. CASE ~(Exists(a) /\ ~row[a].stamp)
    <3>1. PICK r : ToTick(k, r) /\ r.pc = "next"
      BY <1>5, <2>3, SkipEnds DEF Claim
    <3>2. row' = row
      BY <1>5, <2>3 DEF Claim
    <3>3. ASSUME NEW b \in Bookings PROVE Balanced(b, Cardinality(Holding(b)'))
      <4>1. Cardinality(Holding(b)') = Cardinality(Holding(b))
        BY <2>1, <3>1, TickMovesToken
      <4> QED
        BY <1>2, <1>3, <2>1, <3>2, <4>1 DEF Balanced, Unclaimed, Tokens
    <3> QED
      BY <3>3, BalancedSteps
  <2> QED
    BY <2>2, <2>3
<1>6. CASE Send(k)
  <2>1. a \in Bookings /\ tick[k].pc = "send" /\ UNCHANGED row
    BY <1>1, <1>6 DEF Send
  <2>2. PICK r : /\ ToTick(k, r)
                 /\ \/ r.pc = "next" /\ Accepts(a) /\ UNCHANGED late
                    \/ r.pc = "undo" /\ r.b = a /\ UNCHANGED <<sent, late>>
                    \/ r.pc = "undo" /\ r.b = a /\ Accepts(a) /\ late' = [late EXCEPT ![a] = @ + 1]
    <3>1. CASE Skip(k, a) /\ Accepts(a) /\ UNCHANGED late
      <4>1. [tick[k] EXCEPT !.pc = "next", !.due = @ \ {a}, !.b = NoBooking].pc = "next"
        BY <1>1 DEF Tick
      <4> QED
        BY <3>1, <4>1 DEF Skip
    <3>2. CASE ToTick(k, [tick[k] EXCEPT !.pc = "undo"])
      <4>1. [tick[k] EXCEPT !.pc = "undo"].pc = "undo" /\ [tick[k] EXCEPT !.pc = "undo"].b = a
        BY <1>1 DEF Tick
      <4> HIDE DEF a
      <4>2. (UNCHANGED <<sent, late>>) \/ (Accepts(a) /\ late' = [late EXCEPT ![a] = @ + 1]) \/ (Skip(k, a) /\ Accepts(a) /\ UNCHANGED late)
        BY <1>6 DEF Send, a
      <4> QED
        BY <3>1, <3>2, <4>1, <4>2
    <3> HIDE DEF a
    <3> QED
      BY <1>6, <3>1, <3>2 DEF Send, a
  <2>3. \A b \in Bookings \ {a} : sent'[b] = sent[b] /\ late'[b] = late[b]
    BY <2>2 DEF Accepts, TypeOK
  <2>4. \/ r.pc = "next" /\ sent'[a] = sent[a] + 1 /\ late'[a] = late[a]
        \/ r.pc = "undo" /\ r.b = a /\ sent'[a] = sent[a] /\ late'[a] = late[a]
        \/ r.pc = "undo" /\ r.b = a /\ sent'[a] = sent[a] + 1 /\ late'[a] = late[a] + 1
    BY <2>1, <2>2 DEF Accepts, TypeOK
  <2> HIDE DEF a
  <2>5. ASSUME NEW b \in Bookings PROVE Balanced(b, Cardinality(Holding(b)'))
    <3>1. CASE b # a
      <4>1. Cardinality(Holding(b)') = Cardinality(Holding(b))
        BY <2>1, <2>2, <2>4, <3>1, TickMovesToken DEF a
      <4> QED
        BY <1>2, <1>3, <2>1, <2>3, <3>1, <4>1 DEF Balanced, Unclaimed, Tokens
    <3>2. CASE b = a
      <4>1. Cardinality(Holding(b)') = IF r.pc = "next" THEN Cardinality(Holding(b)) - 1 ELSE Cardinality(Holding(b))
        BY <2>1, <2>2, <2>4, <3>2, TickMovesToken DEF a
      <4>2. Unclaimed(b)' = Unclaimed(b) /\ (row'[b].state = "none" => ~row'[b].stamp)
        BY <2>1 DEF Unclaimed, Tokens
      <4>3. sent[b] \in Nat /\ late[b] \in Nat /\ Cardinality(Holding(b)) \in Nat /\ Unclaimed(b) \in Nat
        BY <1>3
      <4> QED
        BY <1>2, <2>4, <3>2, <4>1, <4>2, <4>3 DEF Balanced
    <3> QED
      BY <3>1, <3>2
  <2> QED
    BY <2>5, BalancedSteps
<1>7. CASE Undo(k)
  <2>1. a \in Bookings /\ tick[k].pc = "undo" /\ UNCHANGED <<sent, late>> /\ row[a] \in Row
    BY <1>1, <1>7 DEF Undo, seen, TypeOK
  <2>2. PICK r : ToTick(k, r) /\ r.pc = "next"
    BY <1>7, SkipEnds DEF Undo
  <2>3. \A b \in Bookings \ {a} : row'[b] = row[b]
    BY <1>7 DEF Undo, TypeOK
  <2>4. row'[a].state = row[a].state /\ (row'[a].stamp => row[a].stamp)
    BY <1>7, <2>1 DEF Undo, TypeOK, Row
  <2>5. ASSUME NEW b \in Bookings PROVE Balanced(b, Cardinality(Holding(b)'))
    <3>1. CASE b # a
      <4>1. Cardinality(Holding(b)') = Cardinality(Holding(b))
        BY <2>1, <2>2, <3>1, TickMovesToken
      <4> QED
        BY <1>2, <1>3, <2>1, <2>3, <3>1, <4>1 DEF Balanced, Unclaimed, Tokens
    <3>2. CASE b = a
      <4>1. Cardinality(Holding(b)') = Cardinality(Holding(b)) - 1
        BY <2>1, <2>2, <3>2, TickMovesToken
      <4>2. Unclaimed(b)' <= Unclaimed(b) + 1 /\ Unclaimed(b)' \in Nat
        BY DEF Unclaimed
      <4>3. row'[b].state = "none" => ~row'[b].stamp
        BY <2>4, <3>2 DEF Tokens
      <4> QED
        BY <1>2, <1>3, <2>1, <4>1, <4>2, <4>3 DEF Balanced
    <3> QED
      BY <3>1, <3>2
  <2> QED
    BY <2>5, BalancedSteps
<1>8. CASE TickFault(k)
  <2>1. ToTick(k, Rest) /\ UNCHANGED <<row, sent, late>>
    BY <1>8 DEF TickFault, seen
  <2>2. ASSUME NEW b \in Bookings PROVE Balanced(b, Cardinality(Holding(b)'))
    <3>1. \/ Cardinality(Holding(b)') = Cardinality(Holding(b))
          \/ Cardinality(Holding(b)') = Cardinality(Holding(b)) - 1
      BY <2>1, TickMovesToken DEF Rest
    <3> QED
      BY <1>2, <1>3, <2>1, <3>1 DEF Balanced, Unclaimed, Tokens
  <2> QED
    BY <2>2, BalancedSteps
<1> QED
  BY <1>4, <1>5, <1>6, <1>7, <1>8 DEF Remind

LEMMA TokenStep == TypeOK /\ TypeOK' /\ Tokens /\ [Next]_vars => Tokens'
<1> SUFFICES ASSUME TypeOK, TypeOK', Tokens, [Next]_vars PROVE Tokens'
  OBVIOUS
<1>1. CASE UNCHANGED vars
  BY <1>1 DEF vars, seen, Tokens, Holding, Unclaimed
<1>2. CASE (\E o \in Ops, b \in Bookings : PatchRead(o, b)) \/ Expire \/ Advance
  BY <1>2 DEF PatchRead, Expire, Advance, seen, Tokens, Holding, Unclaimed
<1> QED
  BY <1>1, <1>2, CaptureTokens, PatchTokens, RowTokens, RemindTokens DEF Next, Dashboard, Posted

\* For any number of bookings and replicas a booking is reminded once, once more for
\* every stamp the dashboard clears and once more for every answer of Meta that comes
\* too late, whatever becomes of the lock (booking-reminder-tick.ts).
THEOREM RemindersCounted == Spec => []RemindersAreCounted
<1>1. TypeOK /\ Tokens => RemindersAreCounted
  <2> SUFFICES ASSUME TypeOK, Tokens, NEW b \in Bookings PROVE sent[b] <= 1 + cleared[b] + late[b]
    BY DEF RemindersAreCounted
  <2>1. sent[b] \in Nat /\ cleared[b] \in Nat /\ late[b] \in Nat
    BY DEF TypeOK
  <2>2. Cardinality(Holding(b)) \in Nat /\ Unclaimed(b) \in Nat
    BY HoldingFinite DEF Unclaimed
  <2>3. sent[b] + Cardinality(Holding(b)) + Unclaimed(b) <= 1 + cleared[b] + late[b]
    BY DEF Tokens
  <2> QED
    BY <2>1, <2>2, <2>3
<1> QED
  BY <1>1, InitTokens, TokenStep, TypesHold, PTL DEF Spec

-----------------------------------------------------------------------------
(* Captures.  Of a slot no two captures overlapped in at most one turn is    *)
(* between its count and its row, and of a thread at most one is about to    *)
(* create; no other step adds to what they have counted.                     *)

Counting(h, s) == turn[h].pc \in {"dedupe", "create"} /\ turn[h].at = s
Creating(h, t) == turn[h].pc \in {"create", "create blind"} /\ turn[h].thread = t

Captured(t) == {b \in Recent(t) : ~row[b].manual}

Unseen(s) == {b \in Booked(s) : row[b].counted /\ ~row[b].flag}

Room(s) ==
    /\ \A g, h \in Captures : Counting(g, s) /\ Counting(h, s) => g = h
    /\ Cardinality(Unseen(s)) <= Capacity
    /\ \A h \in Captures : Counting(h, s) /\ ~turn[h].full => Cardinality(Unseen(s)) < Capacity

Alone(t) ==
    /\ \A g, h \in Captures : Creating(g, t) /\ Creating(h, t) => g = h
    /\ \A h \in Captures : Creating(h, t) => Captured(t) = {}
    /\ \A b, c \in Captured(t) : b = c

Turns ==
    /\ \A s \in Slots \ raced : Room(s)
    /\ \A t \in Threads \ twins : Alone(t)

\* The row is in none of the sets that it was not in before.
Older(b) ==
    /\ Exists(b)' /\ row'[b].recent /\ ~row'[b].manual =>
           Exists(b) /\ row[b].recent /\ ~row[b].manual /\ row'[b].thread = row[b].thread
    /\ Exists(b)' /\ row'[b].state # "cancelled" /\ row'[b].counted /\ ~row'[b].flag =>
           /\ Exists(b) /\ row[b].state # "cancelled" /\ row[b].counted /\ ~row[b].flag
           /\ row'[b].at = row[b].at

LEMMA BookedFinite == \A s : IsFiniteSet(Booked(s)) /\ IsFiniteSet(Unseen(s)) /\ Cardinality(Unseen(s)) \in Nat
                             /\ Cardinality(Unseen(s)) <= Cardinality(Booked(s)) /\ Cardinality(Booked(s)) \in Nat
<1> TAKE s
<1>1. IsFiniteSet(Booked(s))
  BY BookingsAssumption, FS_Subset DEF Booked
<1>2. Unseen(s) \subseteq Booked(s)
  BY DEF Unseen
<1> QED
  BY <1>1, <1>2, FS_Subset, FS_CardinalityType

LEMMA IdleTurn == NoTurn.pc = "idle"
  BY DEF NoTurn

LEMMA OlderRowsKeepTurns ==
    ASSUME Turns, \A b \in Bookings : Older(b),
           raced \subseteq raced', twins \subseteq twins',
           \A h \in Captures : turn'[h] = turn[h] \/ turn'[h] = NoTurn
    PROVE  Turns'
<1>1. ASSUME NEW s \in Slots \ raced' PROVE Room(s)'
  <2>1. Room(s)
    BY <1>1 DEF Turns
  <2>2. Unseen(s)' \subseteq Unseen(s)
    BY DEF Unseen, Booked, Older
  <2>3. /\ Cardinality(Unseen(s)') <= Cardinality(Unseen(s)) /\ Cardinality(Unseen(s)') \in Nat
        /\ Cardinality(Unseen(s)) \in Nat
    BY <2>2, BookedFinite, FS_Subset, FS_CardinalityType
  <2>4. \A h \in Captures : Counting(h, s)' => Counting(h, s) /\ turn'[h] = turn[h]
    BY IdleTurn DEF Counting
  <2>5. Cardinality(Unseen(s)') <= Capacity
    BY <2>1, <2>3, BookingsAssumption DEF Room
  <2>6. ASSUME NEW h \in Captures, Counting(h, s)', ~turn'[h].full PROVE Cardinality(Unseen(s)') < Capacity
    <3>1. Cardinality(Unseen(s)) < Capacity
      BY <2>1, <2>4, <2>6 DEF Room
    <3> QED
      BY <2>3, <3>1, BookingsAssumption
  <2>7. ASSUME NEW g \in Captures, NEW h \in Captures, Counting(g, s)', Counting(h, s)' PROVE g = h
    BY <2>1, <2>4, <2>7 DEF Room
  <2> QED
    BY <2>5, <2>6, <2>7 DEF Room
<1>2. ASSUME NEW t \in Threads \ twins' PROVE Alone(t)'
  <2>1. Alone(t)
    BY <1>2 DEF Turns
  <2>2. Captured(t)' \subseteq Captured(t)
    BY <1>2 DEF Captured, Recent, Older
  <2>3. ASSUME NEW h \in Captures, Creating(h, t)' PROVE Creating(h, t)
    <3>1. turn'[h].pc # "idle" /\ turn'[h] = turn[h]
      BY <2>3, IdleTurn DEF Creating
    <3> QED
      BY <2>3, <3>1 DEF Creating
  <2> QED
    BY <2>1, <2>2, <2>3 DEF Alone
<1> QED
  BY <1>1, <1>2 DEF Turns

LEMMA SameRowOlder == ASSUME NEW b, row'[b] = row[b] PROVE Older(b)
  BY DEF Older, Exists

LEMMA CountKeepsTurns ==
    ASSUME TypeOK, Turns, NEW h \in Captures, NEW t \in Threads \cup {NoThread}, NEW s \in Slots \cup {NoSlot},
           CountRoom(h, t, s)
    PROVE  Turns'
<1> DEFINE r == [pc |-> IF t = NoThread THEN "create" ELSE "dedupe", thread |-> t, at |-> s,
                 full |-> s # NoSlot /\ ~HasRoom(s)]
<1>1. /\ turn[h].pc = "idle" /\ turn'[h] = r
      /\ \A g \in Captures \ {h} : turn'[g] = turn[g]
      /\ UNCHANGED <<row, twins>>
      /\ raced' = IF Checking(s) # {} THEN raced \cup {s} ELSE raced
  BY DEF CountRoom, ToTurn, TypeOK
<1>2. ASSUME NEW q \in Slots \ raced' PROVE Room(q)'
  <2>1. Room(q) /\ Unseen(q)' = Unseen(q)
    BY <1>1, <1>2 DEF Turns, Unseen, Booked, Exists
  <2>2. \A g \in Captures \ {h} : (Counting(g, q)' <=> Counting(g, q)) /\ turn'[g] = turn[g]
    BY <1>1 DEF Counting
  <2>3. CASE q # s
    <3>1. ~Counting(h, q)'
      BY <1>1, <2>3 DEF Counting
    <3> QED
      BY <2>1, <2>2, <3>1 DEF Room
  <2>4. CASE q = s
    <3>1. \A g \in Captures \ {h} : ~Counting(g, q)'
      BY <1>1, <1>2, <2>2, <2>4 DEF Checking, Counting
    <3>2. ~turn'[h].full => Cardinality(Unseen(q)) < Capacity
      <4>1. turn'[h].full = ~HasRoom(q)
        BY <1>1, <1>2, <2>4 DEF Slots, NoSlot
      <4>2. /\ Cardinality(Unseen(q)) <= Cardinality(Booked(q))
            /\ Cardinality(Unseen(q)) \in Nat /\ Cardinality(Booked(q)) \in Nat
        BY BookedFinite
      <4>3. CASE HasRoom(q)
        <5>1. Cardinality(Booked(q)) < Capacity
          BY <4>3 DEF HasRoom
        <5> QED
          BY <4>2, <5>1, BookingsAssumption
      <4>4. CASE ~HasRoom(q)
        BY <4>1, <4>4
      <4> QED
        BY <4>3, <4>4
    <3> QED
      BY <2>1, <3>1, <3>2 DEF Room
  <2> QED
    BY <2>3, <2>4
<1>3. ASSUME NEW u \in Threads \ twins' PROVE Alone(u)'
  <2>1. Alone(u) /\ Captured(u)' = Captured(u)
    BY <1>1, <1>3 DEF Turns, Captured, Recent, Exists
  <2>2. \A g \in Captures : Creating(g, u)' => Creating(g, u)
    <3>1. ~Creating(h, u)'
      <4>1. turn'[h].pc = "create" => t = NoThread
        BY <1>1
      <4>2. turn'[h].thread = t /\ turn'[h].pc # "create blind"
        BY <1>1
      <4>3. u # NoThread
        BY <1>3, BookingsAssumption
      <4> QED
        BY <4>1, <4>2, <4>3 DEF Creating
    <3>2. \A g \in Captures \ {h} : Creating(g, u)' <=> Creating(g, u)
      BY <1>1 DEF Creating
    <3> QED
      BY <3>1, <3>2
  <2> QED
    BY <2>1, <2>2 DEF Alone
<1> QED
  BY <1>2, <1>3 DEF Turns

LEMMA DedupeKeepsTurns ==
    ASSUME TypeOK, Turns, NEW h \in Captures, NEW t \in Threads, Dedupe(h, t)
    PROVE  Turns'
<1>0. UNCHANGED <<row, raced>> /\ \A b \in Bookings : Older(b)
  BY SameRowOlder DEF Dedupe
<1>1. CASE Recent(t) # {}
  BY <1>0, <1>1, OlderRowsKeepTurns DEF Dedupe, ToTurn, TypeOK
<1>2. CASE Recent(t) = {}
  <2>1. PICK r : /\ ToTurn(h, r)
                 /\ \/ turn[h].pc = "dedupe" /\ turn[h].thread = t /\ r.pc = "create" /\ r.thread = t
                       /\ r.at = turn[h].at /\ r.full = turn[h].full
                    \/ r.pc = "create blind" /\ r.thread = t
    <3>1. CASE turn[h].pc = "dedupe" /\ ToTurn(h, [turn[h] EXCEPT !.pc = "create"])
      <4> DEFINE r == [turn[h] EXCEPT !.pc = "create"]
      <4>1. turn[h] \in Turn /\ turn[h].thread = t
        BY <3>1 DEF TypeOK, Dedupe
      <4>2. r.pc = "create" /\ r.thread = t /\ r.at = turn[h].at /\ r.full = turn[h].full
        BY <4>1 DEF Turn
      <4>3. ToTurn(h, r)
        BY <3>1
      <4> HIDE DEF r
      <4> QED
        BY <3>1, <4>1, <4>2, <4>3
    <3>2. ASSUME NEW s \in Slots \cup {NoSlot}, ToTurn(h, [NoTurn EXCEPT !.pc = "create blind", !.thread = t, !.at = s])
          PROVE  \E r : ToTurn(h, r) /\ r.pc = "create blind" /\ r.thread = t
      <4> DEFINE r == [NoTurn EXCEPT !.pc = "create blind", !.thread = t, !.at = s]
      <4>1. r.pc = "create blind" /\ r.thread = t
        BY DEF NoTurn
      <4>2. ToTurn(h, r)
        BY <3>2
      <4> HIDE DEF r
      <4> QED
        BY <4>1, <4>2
    <3>3. \/ turn[h].pc = "dedupe" /\ ToTurn(h, [turn[h] EXCEPT !.pc = "create"])
          \/ \E s \in Slots \cup {NoSlot} : ToTurn(h, [NoTurn EXCEPT !.pc = "create blind", !.thread = t, !.at = s])
      BY <1>2 DEF Dedupe
    <3> QED
      BY <3>1, <3>2, <3>3
  <2>2. /\ turn'[h] = r
        /\ \A g \in Captures \ {h} : turn'[g] = turn[g]
    BY <2>1 DEF ToTurn, TypeOK
  <2>3. twins' = IF \E g \in Captures \ {h} : turn[g].thread = t /\ turn[g].pc \in {"create", "create blind"}
                 THEN twins \cup {t} ELSE twins
    BY <1>2 DEF Dedupe
  <2>4. ASSUME NEW s \in Slots \ raced' PROVE Room(s)'
    <3>1. Room(s) /\ Unseen(s)' = Unseen(s)
      BY <1>0, <2>4 DEF Turns, Unseen, Booked, Exists
    <3>2. \A g \in Captures : Counting(g, s)' => Counting(g, s) /\ turn'[g].full = turn[g].full
      BY <2>1, <2>2 DEF Counting
    <3> QED
      BY <3>1, <3>2 DEF Room
  <2>5. ASSUME NEW u \in Threads \ twins' PROVE Alone(u)'
    <3>1. Alone(u) /\ Captured(u)' = Captured(u)
      BY <1>0, <2>3, <2>5 DEF Turns, Captured, Recent, Exists
    <3>2. \A g \in Captures \ {h} : Creating(g, u)' <=> Creating(g, u)
      BY <2>2 DEF Creating
    <3>3. CASE u # t
      <4>1. ~Creating(h, u)'
        BY <2>1, <2>2, <3>3 DEF Creating
      <4> QED
        BY <3>1, <3>2, <4>1 DEF Alone
    <3>4. CASE u = t
      <4>1. \A g \in Captures \ {h} : ~Creating(g, u)'
        BY <2>3, <2>5, <3>2, <3>4 DEF Creating
      <4> QED
        BY <1>2, <3>1, <3>4, <4>1 DEF Alone, Captured
    <3> QED
      BY <3>3, <3>4
  <2> QED
    BY <2>4, <2>5 DEF Turns
<1> QED
  BY <1>1, <1>2

LEMMA CreateKeepsTurns ==
    ASSUME TypeOK, TypeOK', Turns, NEW h \in Captures, Create(h)
    PROVE  Turns'
<1> DEFINE rec == [NoRow EXCEPT !.state = "new", !.at = turn[h].at, !.thread = turn[h].thread,
                                !.counted = turn[h].pc = "create", !.flag = turn[h].full, !.recent = TRUE]
<1>1. PICK a \in Bookings : Insert(a, rec)
  BY DEF Create
<1>2. /\ row[a].state = "none" /\ row'[a] = rec
      /\ \A c \in Bookings \ {a} : row'[c] = row[c]
  BY <1>1 DEF Insert, TypeOK
<1>3. /\ rec.state = "new" /\ rec.at = turn[h].at /\ rec.thread = turn[h].thread
      /\ rec.counted = (turn[h].pc = "create") /\ rec.flag = turn[h].full
  BY DEF NoRow
<1> HIDE DEF rec
<1>4. /\ turn'[h] = NoTurn
      /\ \A g \in Captures \ {h} : turn'[g] = turn[g]
      /\ turn[h].pc \in {"create", "create blind"}
      /\ UNCHANGED <<raced, twins>>
  BY DEF Create, ToTurn, TypeOK, seen
<1>5. ASSUME NEW s \in Slots \ raced' PROVE Room(s)'
  <2>1. Room(s)
    BY <1>4, <1>5 DEF Turns
  <2>2. \A g \in Captures : Counting(g, s)' => g # h /\ Counting(g, s) /\ turn'[g] = turn[g]
    <3> SUFFICES ASSUME NEW g \in Captures, Counting(g, s)'
                 PROVE  g # h /\ Counting(g, s) /\ turn'[g] = turn[g]
      OBVIOUS
    <3>1. g # h
      BY <1>4, IdleTurn DEF Counting
    <3> QED
      BY <1>4, <3>1 DEF Counting
  <2>3. CASE Counting(h, s) /\ ~turn[h].full
    <3>1. Unseen(s)' \subseteq Unseen(s) \cup {a} /\ a \notin Unseen(s)
      BY <1>2 DEF Unseen, Booked, Exists
    <3>2. Cardinality(Unseen(s)') <= Cardinality(Unseen(s)) + 1 /\ Cardinality(Unseen(s)') \in Nat
      <4>1. /\ IsFiniteSet(Unseen(s) \cup {a})
            /\ Cardinality(Unseen(s) \cup {a}) = Cardinality(Unseen(s)) + 1
        BY <3>1, BookedFinite, FS_AddElement
      <4> QED
        BY <3>1, <4>1, FS_Subset, FS_CardinalityType
    <3>3. Cardinality(Unseen(s)) < Capacity /\ Cardinality(Unseen(s)) \in Nat
      BY <2>1, <2>3, BookedFinite DEF Room
    <3>4. \A g \in Captures : ~Counting(g, s)'
      BY <2>1, <2>2, <2>3 DEF Room
    <3>5. Cardinality(Unseen(s)') <= Capacity
      BY <3>2, <3>3, BookingsAssumption
    <3> QED
      BY <3>4, <3>5 DEF Room
  <2>4. CASE ~(Counting(h, s) /\ ~turn[h].full)
    <3>1. Unseen(s)' = Unseen(s)
      BY <1>2, <1>3, <1>4, <2>4, ZenonT(40) DEF Unseen, Booked, Exists, Counting
    <3> QED
      BY <2>1, <2>2, <3>1 DEF Room
  <2> QED
    BY <2>3, <2>4
<1>6. ASSUME NEW t \in Threads \ twins' PROVE Alone(t)'
  <2>1. Alone(t)
    BY <1>4, <1>6 DEF Turns
  <2>2. \A g \in Captures : Creating(g, t)' => g # h /\ Creating(g, t)
    <3> SUFFICES ASSUME NEW g \in Captures, Creating(g, t)'
                 PROVE  g # h /\ Creating(g, t)
      OBVIOUS
    <3>1. g # h
      BY <1>4, IdleTurn DEF Creating
    <3> QED
      BY <1>4, <3>1 DEF Creating
  <2>3. CASE turn[h].thread = t
    <3>1. Creating(h, t) /\ Captured(t) = {}
      BY <1>4, <2>1, <2>3 DEF Creating, Alone
    <3>2. Captured(t)' \subseteq {a}
      BY <1>2, <3>1 DEF Captured, Recent, Exists
    <3>3. \A g \in Captures : ~Creating(g, t)'
      BY <2>1, <2>2, <3>1 DEF Alone
    <3> QED
      BY <3>2, <3>3 DEF Alone
  <2>4. CASE turn[h].thread # t
    <3>1. Captured(t)' = Captured(t)
      BY <1>2, <1>3, <2>4 DEF Captured, Recent, Exists
    <3> QED
      BY <2>1, <2>2, <3>1 DEF Alone
  <2> QED
    BY <2>3, <2>4
<1> QED
  BY <1>5, <1>6 DEF Turns

\* No write of the dashboard or of a replica adds to what the captures count.
LEMMA OthersOlder ==
    ASSUME TypeOK, NEW b \in Bookings,
           \/ \E o \in Ops, body \in Bodies : PatchWrite(o, body)
           \/ \E c \in Bookings : Delete(c) \/ Age(c) \/ Posted(c)
           \/ \E k \in Ticks : Claim(k) \/ Undo(k)
    PROVE  Older(b)
<1>1. row[b] \in Row
  BY DEF TypeOK
<1>2. ASSUME NEW o \in Ops, NEW body \in Bodies, PatchWrite(o, body) PROVE Older(b)
  <2> DEFINE clear == Clears(edit[o], body)
             new == [row[b] EXCEPT !.state = IF body.state = "keep" THEN @ ELSE body.state,
                                   !.at = IF body.at = -1 THEN @ ELSE body.at,
                                   !.counted = @ /\ body.at = -1 /\ row[b].state # "cancelled",
                                   !.tpl = IF body.tpl = "keep" THEN @ ELSE body.tpl = "on",
                                   !.stamp = @ /\ ~clear]
  <2>1. row'[b] = row[b] \/ (row'[b] = new /\ Exists(b))
    <3>1. CASE Exists(edit[o].b)
      <4>1. row' = [row EXCEPT ![edit[o].b] = [row[edit[o].b] EXCEPT
                       !.state = IF body.state = "keep" THEN @ ELSE body.state,
                       !.at = IF body.at = -1 THEN @ ELSE body.at,
                       !.counted = @ /\ body.at = -1 /\ row[edit[o].b].state # "cancelled",
                       !.tpl = IF body.tpl = "keep" THEN @ ELSE body.tpl = "on",
                       !.stamp = @ /\ ~clear]]
        BY <1>2, <3>1 DEF PatchWrite
      <4> HIDE DEF clear
      <4>2. CASE edit[o].b = b
        BY <3>1, <4>1, <4>2 DEF TypeOK
      <4>3. CASE edit[o].b # b
        BY <4>1, <4>3 DEF TypeOK
      <4> QED
        BY <4>2, <4>3
    <3>2. CASE ~Exists(edit[o].b)
      BY <1>2, <3>2 DEF PatchWrite
    <3> QED
      BY <3>1, <3>2
  <2>2. /\ new.thread = row[b].thread /\ new.recent = row[b].recent /\ new.flag = row[b].flag
        /\ new.manual = row[b].manual
        /\ new.counted = (row[b].counted /\ body.at = -1 /\ row[b].state # "cancelled")
        /\ new.at = IF body.at = -1 THEN row[b].at ELSE body.at
    BY <1>1 DEF Row
  <2> HIDE DEF new
  <2> QED
    BY <2>1, <2>2, SameRowOlder DEF Older
<1>3. ASSUME NEW c \in Bookings, Delete(c) PROVE Older(b)
  <2>1. row'[b] = row[b] \/ (row'[b] = [row[b] EXCEPT !.state = "deleted"])
    BY <1>3 DEF Delete, TypeOK
  <2> QED
    BY <1>1, <2>1, SameRowOlder DEF Older, Exists, Row
<1>4. ASSUME NEW c \in Bookings, Age(c) PROVE Older(b)
  <2>1. row'[b] = row[b] \/ (row'[b] = [row[b] EXCEPT !.recent = FALSE])
    BY <1>4 DEF Age, TypeOK
  <2> QED
    BY <1>1, <2>1, SameRowOlder DEF Older, Exists, Row
<1>5. ASSUME NEW c \in Bookings, NEW s \in {"new", "confirmed", "cancelled"}, NEW t \in Threads \cup {NoThread}, Post(c, s, t) PROVE Older(b)
  <2>1. row'[b] = row[b] \/ row'[b] = Manual(s, t)
    BY <1>5 DEF Post, Insert, TypeOK, Manual
  <2>2. Manual(s, t).counted = FALSE /\ Manual(s, t).manual = TRUE
    BY DEF NoRow, Manual
  <2> QED
    BY <2>1, <2>2, SameRowOlder DEF Older
<1>6. ASSUME NEW k \in Ticks, Claim(k) \/ Undo(k) PROVE Older(b)
  <2>1. row'[b] = row[b] \/ \E x \in BOOLEAN : row'[b] = [row[b] EXCEPT !.stamp = x]
    BY <1>6 DEF Claim, Undo, TypeOK
  <2> QED
    BY <1>1, <2>1, SameRowOlder DEF Older, Exists, Row
<1> QED
  BY <1>2, <1>3, <1>4, <1>5, <1>6 DEF Posted

LEMMA TurnStep == TypeOK /\ TypeOK' /\ Turns /\ [Next]_vars => Turns'
<1> SUFFICES ASSUME TypeOK, TypeOK', Turns, [Next]_vars PROVE Turns'
  OBVIOUS
<1>1. CASE UNCHANGED <<row, turn, raced, twins>>
  <2>1. \A b \in Bookings : Older(b)
    BY <1>1, SameRowOlder
  <2> QED
    BY <1>1, <2>1, OlderRowsKeepTurns
<1>2. ASSUME NEW h \in Captures, Capture(h) PROVE Turns'
  <2>1. CASE CaptureFault(h)
    <3>1. \A b \in Bookings : Older(b)
      BY <2>1, SameRowOlder DEF CaptureFault
    <3> QED
      BY <2>1, <3>1, OlderRowsKeepTurns DEF CaptureFault, ToTurn, TypeOK, seen
  <2> QED
    BY <1>2, <2>1, CountKeepsTurns, DedupeKeepsTurns, CreateKeepsTurns DEF Capture
<1>3. CASE \/ \E o \in Ops, body \in Bodies : PatchWrite(o, body)
           \/ \E c \in Bookings : Delete(c) \/ Age(c) \/ Posted(c)
           \/ \E k \in Ticks : Claim(k) \/ Undo(k)
  <2>1. \A b \in Bookings : Older(b)
    BY <1>3, OthersOlder
  <2>2. UNCHANGED <<turn, raced, twins>>
    BY <1>3 DEF PatchWrite, Delete, Age, Posted, Post, Claim, Undo, seen
  <2> QED
    BY <2>1, <2>2, OlderRowsKeepTurns
<1>4. CASE \/ \E o \in Ops, b \in Bookings : PatchRead(o, b)
           \/ \E k \in Ticks : Start(k) \/ Done(k) \/ Send(k) \/ TickFault(k) \/ (\E b \in Bookings : Read(k, b))
           \/ Expire \/ Advance \/ UNCHANGED vars
  BY <1>1, <1>4 DEF PatchRead, Start, Done, Send, TickFault, Read, Expire, Advance, vars, seen
<1> QED
  BY <1>2, <1>3, <1>4 DEF Next, Dashboard, Remind, Posted

LEMMA InitTurns == Init => Turns
<1> SUFFICES ASSUME Init PROVE Turns
  OBVIOUS
<1>1. \A s : Unseen(s) = {}
  BY DEF Init, NoRow, Unseen, Booked, Exists
<1>2. \A t : Captured(t) = {}
  BY DEF Init, NoRow, Captured, Recent, Exists
<1>3. \A h \in Captures : turn[h].pc = "idle"
  BY DEF Init, NoTurn
<1>4. Cardinality({}) = 0
  BY FS_EmptySet
<1>5. \A s : Room(s)
  BY <1>1, <1>3, <1>4, BookingsAssumption DEF Room, Counting
<1>6. \A t : Alone(t)
  BY <1>2, <1>3 DEF Alone, Creating
<1> QED
  BY <1>5, <1>6 DEF Turns

LEMMA TurnsHold == Spec => []Turns
  BY InitTurns, TurnStep, TypesHold, PTL DEF Spec

\* For any capacity and any number of captures a slot is never filled beyond its
\* capacity by unflagged bookings whose room was counted, unless two captures of the
\* slot overlapped (cart-flow.ts, voice-booking.ts, booking-slots.ts).
THEOREM OvershootsAreFlagged == Spec => []OvershootIsFlagged
<1>1. Turns => OvershootIsFlagged
  BY DEF Turns, Room, Unseen, OvershootIsFlagged
<1> QED
  BY <1>1, TurnsHold, PTL

\* For any number of captures a thread has one captured booking of the last thirty
\* minutes, unless two turns of the thread overlapped (whatsapp.routes.ts, cart-flow.ts).
THEOREM OneBookingPerThread == Spec => []OnePerThread
<1>1. Turns => OnePerThread
  <2> SUFFICES ASSUME Turns, NEW t \in Threads \ twins PROVE Cardinality(Captured(t)) <= 1
    BY DEF OnePerThread, Captured
  <2>1. \A b, c \in Captured(t) : b = c
    BY DEF Turns, Alone
  <2> HIDE DEF Captured
  <2>2. CASE Captured(t) = {}
    BY <2>2, FS_EmptySet
  <2>3. CASE Captured(t) # {}
    <3>1. PICK b : Captured(t) = {b}
      BY <2>1, <2>3
    <3>2. Cardinality({b}) = 1
      BY FS_Singleton
    <3> QED
      BY <3>1, <3>2
  <2> QED
    BY <2>2, <2>3
<1> QED
  BY <1>1, TurnsHold, PTL
=============================================================================
