--------------------------- MODULE SequenceProofs ---------------------------
(* Proofs, for any number of replicas, enrollments and steps, of what the    *)
(* sequence tick keeps.  What holds only where no tick outlives its lock has *)
(* ~Overruns as its assumption.                                              *)
EXTENDS SequenceTick, FiniteSetTheorems, TLAPS

-----------------------------------------------------------------------------
(* How a replica's record moves.                                             *)

OthersKept(p) == \A q \in Ticks \ {p} : tick'[q] = tick[q]

LEMMA SetMoves ==
    ASSUME tick \in [Ticks -> Slot], NEW p \in Ticks, NEW t \in Slot,
           tick' = [tick EXCEPT ![p] = t]
    PROVE  tick' \in [Ticks -> Slot] /\ tick'[p] = t /\ OthersKept(p)
    BY DEF OthersKept

LEMMA GotoMoves ==
    ASSUME tick \in [Ticks -> Slot], NEW p \in Ticks, NEW pc \in Stage, Goto(p, pc)
    PROVE  /\ tick' \in [Ticks -> Slot] /\ OthersKept(p)
           /\ tick'[p] = [tick[p] EXCEPT !.pc = pc]
           /\ tick'[p].pc = pc
           /\ tick'[p].e = tick[p].e /\ tick'[p].i = tick[p].i
           /\ tick'[p].n = tick[p].n /\ tick'[p].unit = tick[p].unit
           /\ tick'[p].batch = tick[p].batch
<1> DEFINE t == [tick[p] EXCEPT !.pc = pc]
<1>1. t \in Slot
    BY DEF Slot
<1>2. tick' = [tick EXCEPT ![p] = t]
    BY DEF Goto
<1>3. t.pc = pc /\ t.e = tick[p].e /\ t.i = tick[p].i /\ t.n = tick[p].n
      /\ t.unit = tick[p].unit /\ t.batch = tick[p].batch
    BY DEF Slot
<1> HIDE DEF t
<1>4. tick' \in [Ticks -> Slot] /\ tick'[p] = t /\ OthersKept(p)
    BY <1>1, <1>2, SetMoves
<1> QED
    BY <1>3, <1>4 DEF t

\* A replica that is done with its enrollment holds none.
Free(t) == t.pc \in {"idle", "read"} /\ t.e = NoEnrollment /\ t.unit = 0 /\ Holds(t)

LEMMA IdleFact == Idle \in Slot /\ Idle.pc = "idle" /\ Idle.e = NoEnrollment /\ Free(Idle)
    BY TicksAssumption DEF Idle, Slot, Stage, Working, AfterAccept, Free, Holds

LEMMA WithFact ==
    ASSUME NEW batch \in SUBSET Enrollments
    PROVE  With(batch) \in Slot /\ Free(With(batch))
<1> DEFINE t == [pc |-> "read", batch |-> batch, e |-> NoEnrollment, i |-> 0, n |-> 0, unit |-> 0]
<1>1. CASE batch = {}
    BY <1>1, IdleFact DEF With
<1>2. CASE batch # {}
  <2>1. With(batch) = t
      BY <1>2 DEF With, Idle
  <2>2. t \in Slot
      BY TicksAssumption DEF Slot, Stage
  <2>3. Free(t)
      BY <1>2 DEF Free, Holds, Working, AfterAccept
  <2> HIDE DEF t
  <2> QED BY <2>1, <2>2, <2>3
<1> QED
    BY <1>1, <1>2

LEMMA ContinueMoves ==
    ASSUME tick \in [Ticks -> Slot], NEW p \in Ticks, Continue(p)
    PROVE  tick' \in [Ticks -> Slot] /\ OthersKept(p) /\ Free(tick'[p])
<1>1. tick[p].batch \in SUBSET Enrollments
    BY DEF Slot
<1>2. tick' = [tick EXCEPT ![p] = With(tick[p].batch)]
    BY DEF Continue
<1> QED
    BY <1>1, <1>2, WithFact, SetMoves

-----------------------------------------------------------------------------
(* Types.  A charge carries a price of the wallet.                           *)

Units ==
    /\ price \in Prices
    /\ \A p \in Ticks : /\ tick[p].unit \in Prices \cup {0}
                        /\ tick[p].pc = "charge" => tick[p].unit > 0

LEMMA PricesFact ==
    ASSUME NEW u \in Prices
    PROVE  u \in Nat /\ u > 0
<1>1. ASSUME NEW asked \in Requested PROVE /\ Larger(MinPrice, asked) \in Nat
                                           /\ Larger(MinPrice, asked) > 0
    BY PricesAssumption DEF Larger
<1>2. DefaultPrice \in Nat /\ DefaultPrice > 0
    BY PricesAssumption
<1> QED
    BY <1>1, <1>2 DEF Prices

Inv == TypeOK /\ Units

LEMMA InitInv == Init => Inv
<1> SUFFICES ASSUME Init PROVE Inv
    OBVIOUS
<1>1. TypeOK
  <2>1. tick \in [Ticks -> Slot] /\ \A p \in Ticks : Holds(tick[p])
      BY IdleFact DEF Init, Free
  <2>2. sent \in [Enrollments -> [Indices -> 0 .. MaxMessages]]
      BY TicksAssumption DEF Init
  <2>3. idx \in [Enrollments -> 0 .. MaxSteps] /\ steps \in 1 .. MaxSteps
      BY TicksAssumption DEF Init
  <2>4. broken \in [Enrollments -> [Indices -> Nat]] /\ late \in [Enrollments -> Nat]
      BY DEF Init
  <2>5. /\ optedOut \subseteq Enrollments /\ due \subseteq Enrollments /\ older \subseteq due \X due
        /\ est \in [Enrollments -> {"none", "active", "completed", "cancelled"}]
        /\ lock \in BOOLEAN /\ out \in Nat /\ lost \in Nat /\ ended \subseteq Enrollments
      BY DEF Init
  <2> QED BY <2>1, <2>2, <2>3, <2>4, <2>5 DEF TypeOK
<1>2. Units
    BY DEF Init, Units, Idle, WalletInit, Prices
<1> QED
    BY <1>1, <1>2 DEF Inv

\* What the replicas' own steps do to the records.
Replica(p) ==
    /\ tick' \in [Ticks -> Slot] /\ OthersKept(p) /\ Holds(tick'[p])
    /\ tick'[p].unit \in Prices \cup {0}
    /\ tick'[p].pc = "charge" => tick'[p].unit > 0

LEMMA FreeReplica ==
    ASSUME NEW p \in Ticks, tick' \in [Ticks -> Slot], OthersKept(p), Free(tick'[p])
    PROVE  Replica(p)
    BY DEF Replica, Free

\* Statuses in which the replica has an enrollment and a step of it at hand.
Stepping == {"gate", "afford", "call"} \cup AfterAccept

LEMMA GotoReplica ==
    ASSUME Inv, NEW p \in Ticks, NEW pc \in Working, Goto(p, pc),
           tick[p].pc \in Stepping, pc = "charge" => tick[p].unit > 0
    PROVE  Replica(p)
<1>1. tick[p].pc \in Working /\ tick[p].e \in Enrollments /\ tick[p].i < tick[p].n
    BY DEF Inv, TypeOK, Holds, Stepping, Working
<1>2. pc \in Stage
    BY DEF Stage
<1>3. /\ tick' \in [Ticks -> Slot] /\ OthersKept(p)
      /\ tick'[p].pc = pc
      /\ tick'[p].e = tick[p].e /\ tick'[p].i = tick[p].i
      /\ tick'[p].n = tick[p].n /\ tick'[p].unit = tick[p].unit
    BY <1>2, GotoMoves DEF Inv, TypeOK
<1>4. pc # "read"
    BY DEF Working, AfterAccept
<1>5. Holds(tick'[p])
    BY <1>1, <1>3, <1>4 DEF Holds
<1> QED
    BY <1>3, <1>5 DEF Replica, Inv, Units

LEMMA RunMoves ==
    ASSUME Inv, NEW p \in Ticks, Run(p) \/ Fault(p)
    PROVE  Replica(p)
<1> USE DEF Inv, TypeOK, Units
<1>0. tick[p] \in Slot /\ Holds(tick[p]) /\ tick[p].batch \in SUBSET Enrollments
    BY DEF Slot
<1>1. CASE TakeLock(p)
    BY <1>0, <1>1, GotoMoves DEF TakeLock, Replica, Holds, Stage, Working, AfterAccept
<1>2. CASE Scan(p)
  <2>1. Oldest \in SUBSET Enrollments
      BY DEF Oldest
  <2> QED BY <1>2, <2>1, WithFact, SetMoves, FreeReplica DEF Scan
<1>3. CASE Read(p)
  <2>1. PICK e \in tick[p].batch :
           tick' = [tick EXCEPT ![p] =
              IF ~Active(e) THEN With(@.batch \ {e})
              ELSE [pc |-> IF e \in optedOut THEN "cancel"
                           ELSE IF idx[e] >= steps THEN "complete" ELSE "gate",
                    batch |-> @.batch \ {e}, e |-> e, i |-> idx[e], n |-> steps, unit |-> 0]]
      BY <1>3 DEF Read
  <2> DEFINE rest == tick[p].batch \ {e}
             pc == IF e \in optedOut THEN "cancel"
                   ELSE IF idx[e] >= steps THEN "complete" ELSE "gate"
             t == [pc |-> pc, batch |-> rest, e |-> e, i |-> idx[e], n |-> steps, unit |-> 0]
  <2>2. CASE ~Active(e)
      BY <1>0, <2>1, <2>2, WithFact, SetMoves, FreeReplica
  <2>3. CASE Active(e)
    <3>1. t \in Slot
        BY <1>0 DEF Slot, Stage, Working, AfterAccept
    <3>2. Holds(t) /\ t.unit = 0 /\ t.pc # "charge"
      <4>1. pc = "gate" => idx[e] < steps
          BY <1>0
      <4> QED BY <1>0, <4>1 DEF Holds, Working, AfterAccept
    <3>3. tick' = [tick EXCEPT ![p] = t]
        BY <2>1, <2>3
    <3> HIDE DEF t
    <3> QED BY <3>1, <3>2, <3>3, SetMoves DEF Replica
  <2> QED BY <2>2, <2>3
<1>4. CASE Gate(p)
  <2>1. CASE Continue(p)
      BY <2>1, ContinueMoves, FreeReplica
  <2>2. CASE Goto(p, "cancel")
    <3>1. tick[p].pc \in Stepping /\ "cancel" \in Working
        BY <1>4 DEF Gate, At, Stepping, Working
    <3> QED BY <2>2, <3>1, GotoReplica
  <2>3. CASE tick' = [tick EXCEPT ![p].pc = IF metering THEN "afford" ELSE "call",
                                  ![p].unit = IF metering THEN price ELSE 0]
    <3> DEFINE t == [tick[p] EXCEPT !.pc = IF metering THEN "afford" ELSE "call",
                                    !.unit = IF metering THEN price ELSE 0]
    <3>1. t \in Slot
        BY <1>0, PricesFact DEF Slot, Stage, Working, AfterAccept
    <3>2. Holds(t) /\ t.unit \in Prices \cup {0} /\ t.pc # "charge"
        BY <1>0, <1>4 DEF Gate, At, Slot, Holds, Working, AfterAccept
    <3>3. tick' = [tick EXCEPT ![p] = t]
        BY <2>3
    <3> HIDE DEF t
    <3> QED BY <3>1, <3>2, <3>3, SetMoves DEF Replica
  <2> QED BY <1>4, <2>1, <2>2, <2>3 DEF Gate
<1>5. CASE Afford(p)
  <2>1. tick[p].pc \in Stepping /\ "call" \in Working
      BY <1>5 DEF Afford, At, Stepping, Working
  <2>2. CASE Goto(p, "call")
      BY <2>1, <2>2, GotoReplica
  <2>3. CASE Continue(p)
      BY <2>3, ContinueMoves, FreeReplica
  <2> QED BY <1>5, <2>2, <2>3 DEF Afford
<1>6. CASE CallMeta(p)
  <2>1. tick[p].pc \in Stepping /\ "record" \in Working
      BY <1>6 DEF CallMeta, At, Stepping, Working, AfterAccept
  <2>2. CASE Goto(p, "record")
      BY <2>1, <2>2, GotoReplica
  <2>3. CASE Continue(p)
      BY <2>3, ContinueMoves, FreeReplica
  <2> QED BY <1>6, <2>2, <2>3 DEF CallMeta
<1>7. CASE Record(p)
  <2>1. /\ tick[p].pc \in Stepping
        /\ "charge" \in Working /\ "advance" \in Working
      BY <1>7 DEF Record, At, Stepping, Working, AfterAccept
  <2>2. CASE tick[p].unit > 0
      BY <1>7, <2>1, <2>2, GotoReplica DEF Record
  <2>3. CASE ~(tick[p].unit > 0)
      BY <1>7, <2>1, <2>3, GotoReplica DEF Record
  <2> QED BY <2>2, <2>3
<1>8. CASE Charge(p)
  <2>1. tick[p].pc \in Stepping /\ "advance" \in Working
      BY <1>8 DEF Charge, At, Stepping, Working, AfterAccept
  <2> QED BY <1>8, <2>1, GotoReplica DEF Charge
<1>9. CASE Advance(p)
    BY <1>9, ContinueMoves, FreeReplica DEF Advance
<1>10. CASE CloseRow(p)
    BY <1>10, ContinueMoves, FreeReplica DEF CloseRow
<1>11. CASE Fault(p)
  <2>1. CASE Continue(p)
      BY <2>1, ContinueMoves, FreeReplica
  <2>2. CASE \E e \in tick[p].batch : tick' = [tick EXCEPT ![p] = With(@.batch \ {e})]
    <3>1. PICK e \in tick[p].batch : tick' = [tick EXCEPT ![p] = With(tick[p].batch \ {e})]
        BY <2>2
    <3>2. With(tick[p].batch \ {e}) \in Slot /\ Free(With(tick[p].batch \ {e}))
        BY <1>0, WithFact
    <3>3. /\ tick' \in [Ticks -> Slot] /\ OthersKept(p)
          /\ tick'[p] = With(tick[p].batch \ {e})
        BY <3>1, <3>2, SetMoves
    <3> QED BY <3>2, <3>3, FreeReplica
  <2>3. CASE tick' = [tick EXCEPT ![p] = Idle]
      BY <2>3, IdleFact, SetMoves, FreeReplica
  <2> QED BY <1>11, <2>1, <2>2, <2>3 DEF Fault
<1> QED
    BY <1>1, <1>2, <1>3, <1>4, <1>5, <1>6, <1>7, <1>8, <1>9, <1>10, <1>11 DEF Run

-----------------------------------------------------------------------------
(* The rows, what Meta accepted, and the observations keep their types.      *)

RowsOK ==
    /\ steps \in 1 .. MaxSteps
    /\ optedOut \subseteq Enrollments
    /\ est \in [Enrollments -> {"none", "active", "completed", "cancelled"}]
    /\ idx \in [Enrollments -> 0 .. MaxSteps]
    /\ due \subseteq Enrollments /\ older \subseteq due \X due
    /\ lock \in BOOLEAN

CountsOK ==
    /\ sent \in [Enrollments -> [Indices -> 0 .. MaxMessages]]
    /\ broken \in [Enrollments -> [Indices -> Nat]]
    /\ out \in Nat /\ lost \in Nat

\* Where a replica is, and what that says of the index it works at.
LEMMA AtStep ==
    ASSUME Inv, NEW p \in Ticks, tick[p].pc \in Stepping
    PROVE  /\ tick[p].e \in Enrollments /\ tick[p].i \in Indices
           /\ tick[p].i + 1 \in 0 .. MaxSteps /\ tick[p].i \in Nat
<1>1. tick[p] \in Slot /\ Holds(tick[p])
    BY DEF Inv, TypeOK
<1>2. tick[p].i \in 0 .. MaxSteps /\ tick[p].n \in 0 .. MaxSteps
    BY <1>1 DEF Slot
<1>3. tick[p].e \in Enrollments /\ tick[p].i < tick[p].n
    BY <1>1 DEF Holds, Stepping, Working
<1> QED
    BY <1>2, <1>3, TicksAssumption DEF Indices

LEMMA PostponeTyped ==
    ASSUME RowsOK, NEW e, Postpone(e)
    PROVE  due' \subseteq Enrollments /\ older' \subseteq due' \X due'
    BY DEF RowsOK, Postpone

LEMMA FallDueTyped ==
    ASSUME RowsOK, NEW e \in Enrollments, FallDue(e)
    PROVE  due' \subseteq Enrollments /\ older' \subseteq due' \X due'
    BY DEF RowsOK, FallDue

LEMMA InterruptTyped ==
    ASSUME Inv, NEW p \in Ticks, tick[p].pc \in Stepping, Interrupt(p)
    PROVE  broken' \in [Enrollments -> [Indices -> Nat]]
<1>1. tick[p].e \in Enrollments /\ tick[p].i \in Indices
    BY AtStep
<1> QED
    BY <1>1 DEF Inv, TypeOK, Interrupt

LEMMA RunRows ==
    ASSUME Inv, NEW p \in Ticks, Run(p) \/ Fault(p)
    PROVE  RowsOK' /\ CountsOK'
<1>0. RowsOK /\ CountsOK
    BY DEF Inv, TypeOK, RowsOK, CountsOK
<1> DEFINE RowsKept == UNCHANGED <<steps, optedOut, rows, lock>>
           CountsKept == UNCHANGED <<sent, broken, out, lost>>
<1>1. ASSUME RowsKept PROVE RowsOK'
    BY <1>0, <1>1 DEF RowsOK, rows
<1>2. ASSUME CountsKept PROVE CountsOK'
    BY <1>0, <1>2 DEF CountsOK
<1>3. CASE TakeLock(p)
  <2>1. RowsOK'
      BY <1>0, <1>3 DEF TakeLock, RowsOK, rows
  <2> QED BY <1>2, <1>3, <2>1 DEF TakeLock, counts
<1>4. CASE Scan(p) \/ Read(p) \/ Gate(p) \/ Afford(p) \/ Record(p) \/ Charge(p)
    BY <1>1, <1>2, <1>4 DEF Scan, Read, Gate, Afford, Record, Charge, counts
<1>5. CASE CallMeta(p)
  <2>1. tick[p].pc \in Stepping
      BY <1>5 DEF CallMeta, At, Stepping
  <2>2. tick[p].e \in Enrollments /\ tick[p].i \in Indices
      BY <2>1, AtStep
  <2>3. RowsOK'
      BY <1>1, <1>5 DEF CallMeta
  <2> DEFINE e == tick[p].e
             i == tick[p].i
             accepts == /\ sent[e][i] < MaxMessages
                        /\ sent' = [sent EXCEPT ![e][i] = @ + 1]
                        /\ out' = out + IF tick[p].unit > 0 THEN 1 ELSE 0
  <2>4. ASSUME accepts
        PROVE  sent' \in [Enrollments -> [Indices -> 0 .. MaxMessages]] /\ out' \in Nat
    <3>1. sent[e][i] + 1 \in 0 .. MaxMessages
        BY <1>0, <2>2, <2>4, TicksAssumption DEF CountsOK
    <3> QED BY <1>0, <2>2, <2>4, <3>1 DEF CountsOK
  <2>5. CASE accepts /\ UNCHANGED <<faults, broken, lost>>
      BY <1>0, <2>3, <2>4, <2>5 DEF CountsOK
  <2>6. CASE accepts /\ Interrupt(p) /\ lost' = lost + IF tick[p].unit > 0 THEN 1 ELSE 0
    <3>1. broken' \in [Enrollments -> [Indices -> Nat]]
        BY <2>1, <2>6, InterruptTyped
    <3>2. lost' \in Nat
        BY <1>0, <2>6 DEF CountsOK
    <3> QED BY <1>0, <2>3, <2>4, <2>6, <3>1, <3>2 DEF CountsOK
  <2>7. CASE CountsKept
      BY <1>2, <2>3, <2>7
  <2> HIDE DEF accepts
  <2>8. \/ accepts /\ UNCHANGED <<faults, broken, lost>>
        \/ accepts /\ Interrupt(p) /\ lost' = lost + IF tick[p].unit > 0 THEN 1 ELSE 0
        \/ CountsKept
      BY <1>5 DEF CallMeta, accepts
  <2> QED BY <2>5, <2>6, <2>7, <2>8
<1>6. CASE Advance(p)
  <2>1. tick[p].e \in Enrollments /\ tick[p].i + 1 \in 0 .. MaxSteps
      BY <1>6, AtStep DEF Advance, At, Stepping, AfterAccept
  <2>2. idx' \in [Enrollments -> 0 .. MaxSteps]
      BY <1>0, <1>6, <2>1 DEF Advance, RowsOK
  <2>3. est' \in [Enrollments -> {"none", "active", "completed", "cancelled"}]
      BY <1>0, <1>6, <2>1 DEF Advance, RowsOK
  <2>4. due' \subseteq Enrollments /\ older' \subseteq due' \X due'
      BY <1>0, <1>6, PostponeTyped DEF Advance, RowsOK
  <2>5. RowsOK'
      BY <1>0, <1>6, <2>2, <2>3, <2>4 DEF Advance, RowsOK
  <2> QED BY <1>2, <1>6, <2>5 DEF Advance, counts
<1>7. CASE CloseRow(p)
  <2>1. RowsOK'
      BY <1>0, <1>7 DEF CloseRow, RowsOK
  <2> QED BY <1>2, <1>7, <2>1 DEF CloseRow, counts
<1>8. CASE Fault(p)
  <2>1. RowsOK'
      BY <1>1, <1>8 DEF Fault
  <2>2. broken' \in [Enrollments -> [Indices -> Nat]]
    <3>1. CASE tick[p].pc \in AfterAccept
        BY <1>8, <3>1, InterruptTyped DEF Fault, Stepping
    <3>2. CASE tick[p].pc \notin AfterAccept
        BY <1>0, <1>8, <3>2 DEF Fault, CountsOK
    <3> QED BY <3>1, <3>2
  <2>3. lost' \in Nat
      BY <1>0, <1>8 DEF Fault, CountsOK
  <2> QED BY <1>0, <1>8, <2>1, <2>2, <2>3 DEF Fault, CountsOK
<1> QED
    BY <1>3, <1>4, <1>5, <1>6, <1>7, <1>8 DEF Run

LEMMA RequestRows ==
    ASSUME Inv,
           \/ Expire
           \/ \E e \in Enrollments : Enroll(e) \/ Elapse(e)
           \/ Request
    PROVE  RowsOK' /\ CountsOK' /\ tick' = tick
<1>0. RowsOK /\ CountsOK
    BY DEF Inv, TypeOK, RowsOK, CountsOK
<1>1. CASE Expire
    BY <1>0, <1>1 DEF Expire, RowsOK, CountsOK, rows, counts
<1>2. ASSUME NEW e \in Enrollments, Enroll(e) PROVE RowsOK' /\ CountsOK' /\ tick' = tick
  <2>1. due' \subseteq Enrollments /\ older' \subseteq due' \X due'
      BY <1>0, <1>2, FallDueTyped DEF Enroll
  <2> QED BY <1>0, <1>2, <2>1 DEF Enroll, RowsOK, CountsOK, counts
<1>3. ASSUME NEW e \in Enrollments, Elapse(e) PROVE RowsOK' /\ CountsOK' /\ tick' = tick
  <2>1. due' \subseteq Enrollments /\ older' \subseteq due' \X due'
      BY <1>0, <1>3, FallDueTyped DEF Elapse
  <2> QED BY <1>0, <1>3, <2>1 DEF Elapse, RowsOK, CountsOK, counts
<1>4. CASE Request
  <2>1. CountsOK'
    <3>1. UNCHANGED <<sent, broken, out, lost>>
        BY <1>4 DEF Request, Cancel, OptOut, Replace, Headquarters
    <3> QED BY <1>0, <3>1 DEF CountsOK
  <2>2. ASSUME NEW e \in Enrollments, Cancel(e) PROVE RowsOK' /\ tick' = tick
      BY <1>0, <2>2 DEF Cancel, RowsOK
  <2>3. ASSUME NEW e \in Enrollments, OptOut(e) PROVE RowsOK' /\ tick' = tick
      BY <1>0, <2>3 DEF OptOut, RowsOK, rows
  <2>4. ASSUME NEW n \in 1 .. MaxSteps, Replace(n) PROVE RowsOK' /\ tick' = tick
      BY <1>0, <2>4 DEF Replace, RowsOK, rows
  <2>5. CASE Headquarters
    <3>1. UNCHANGED <<steps, optedOut, rows, lock, tick>>
        BY <2>5 DEF Headquarters
    <3> QED BY <1>0, <2>1, <3>1 DEF RowsOK, rows
  <2> QED BY <1>4, <2>1, <2>2, <2>3, <2>4, <2>5 DEF Request
<1> QED
    BY <1>1, <1>2, <1>3, <1>4

\* The price changes by a request of headquarters only, to one at the floor or above.
LEMMA PriceKept ==
    ASSUME price \in Prices, Step
    PROVE  price' \in Prices
<1>1. CASE Request
  <2>1. ASSUME NEW amount \in TopUps, TopUp(amount) PROVE price' = price
      BY <2>1 DEF TopUp
  <2>2. ASSUME NEW asked \in Requested, SetPrice(asked) PROVE price' \in Prices
      BY <2>2 DEF SetPrice, Prices
  <2>3. ASSUME NEW enabled \in BOOLEAN, SetMetering(enabled) PROVE price' = price
      BY <2>3 DEF SetMetering
  <2>4. Headquarters \/ UNCHANGED walletVars
      BY <1>1 DEF Request, Cancel, OptOut, Replace
  <2> QED BY <2>1, <2>2, <2>3, <2>4 DEF Headquarters, walletVars, funds, settings, stamps, observed
<1>2. CASE \E p \in Ticks : Charge(p)
    BY <1>2 DEF Charge, ChargeDirect, settings, walletVars, funds, stamps, observed
<1>3. CASE UNCHANGED walletVars
    BY <1>3 DEF walletVars, funds, settings, stamps, observed
<1> QED
    BY <1>1, <1>2, <1>3
    DEF Step, Run, TakeLock, Scan, Read, Gate, Afford, CallMeta, Record, Advance, CloseRow,
        Fault, Expire, Enroll, Elapse

LEMMA InvNext ==
    ASSUME Inv, [Next]_vars
    PROVE  Inv'
<1>1. CASE Next
  <2>1. Step /\ Observe
      BY <1>1 DEF Next
  <2>2. price' \in Prices
      BY <2>1, PriceKept DEF Inv, Units
  <2>3. ended' \subseteq Enrollments /\ late' \in [Enrollments -> Nat]
      BY <2>1 DEF Observe, Inv, TypeOK
  <2>4. CASE \E p \in Ticks : Run(p) \/ Fault(p)
    <3>1. PICK p \in Ticks : Run(p) \/ Fault(p)
        BY <2>4
    <3>2. Replica(p) /\ RowsOK' /\ CountsOK'
        BY <3>1, RunMoves, RunRows
    <3>3. \A q \in Ticks : Holds(tick'[q])
        BY <3>2 DEF Replica, OthersKept, Inv, TypeOK
    <3>4. Units'
        BY <2>2, <3>2 DEF Replica, OthersKept, Inv, Units
    <3> QED BY <2>3, <3>2, <3>3, <3>4 DEF Replica, Inv, TypeOK, RowsOK, CountsOK
  <2>5. CASE \/ Expire
             \/ \E e \in Enrollments : Enroll(e) \/ Elapse(e)
             \/ Request
    <3>1. RowsOK' /\ CountsOK' /\ tick' = tick
        BY <2>5, RequestRows
    <3> QED BY <2>2, <2>3, <3>1 DEF Inv, TypeOK, Units, RowsOK, CountsOK
  <2> QED BY <2>1, <2>4, <2>5 DEF Step
<1>2. CASE UNCHANGED vars
    BY <1>2 DEF vars, walletVars, funds, settings, stamps, observed, rows, counts, Inv, TypeOK, Units, Indices
<1> QED
    BY <1>1, <1>2

(* The types of TypeOK hold in every behaviour; in particular a replica that *)
(* is past its reading works on an enrollment at a step the sequence had.    *)
THEOREM SequenceTypes == Spec => []TypeOK
<1>1. Init => Inv
    BY InitInv
<1>2. Inv /\ [Next]_vars => Inv'
    BY InvNext
<1>3. Inv => TypeOK
    BY DEF Inv
<1> QED
    BY <1>1, <1>2, <1>3, PTL DEF Spec

-----------------------------------------------------------------------------
(* Where no tick outlives its lock, at most one replica is at work.          *)

Busy(p) == tick[p].pc # "idle"

Solo == \A p \in Ticks : Busy(p) => lock /\ \A q \in Ticks \ {p} : ~Busy(q)

\* A replica's step starts with the lock or belongs to a tick that is under way.
LEMMA RunFrom ==
    ASSUME Inv, NEW p \in Ticks, Run(p) \/ Fault(p)
    PROVE  TakeLock(p) \/ (Busy(p) /\ lock' = lock)
    BY DEF Run, Fault, At, Busy, Scan, Read, Gate, Afford, CallMeta, Record, Charge,
           Advance, CloseRow, AfterAccept, rows

LEMMA SoloNext ==
    ASSUME Inv, Solo, ~Overruns, [Next]_vars
    PROVE  Solo'
<1>1. ASSUME NEW p \in Ticks, Run(p) \/ Fault(p) PROVE Solo'
  <2>1. OthersKept(p)
      BY <1>1, RunMoves DEF Replica
  <2>2. \A q \in Ticks \ {p} : ~Busy(q)
      BY <1>1, RunFrom DEF Solo, TakeLock, At, Busy
  <2>3. \A q \in Ticks \ {p} : ~Busy(q)'
      BY <2>1, <2>2 DEF OthersKept, Busy
  <2>4. Busy(p)' => lock'
    <3>1. CASE TakeLock(p)
        BY <3>1 DEF TakeLock
    <3>2. CASE Busy(p) /\ lock' = lock
        BY <3>2 DEF Solo
    <3> QED BY <1>1, <3>1, <3>2, RunFrom
  <2> QED BY <2>3, <2>4 DEF Solo, Busy
<1>2. CASE Expire
    BY <1>2 DEF Expire, At, Solo, Busy
<1>3. CASE (\E e \in Enrollments : Enroll(e) \/ Elapse(e)) \/ Request
  <2>1. lock' = lock /\ tick' = tick
      BY <1>3 DEF Enroll, Elapse, Request, Cancel, OptOut, Replace, Headquarters
  <2> QED BY <2>1 DEF Solo, Busy
<1>4. CASE UNCHANGED vars
    BY <1>4 DEF vars, Solo, Busy
<1> QED
    BY <1>1, <1>2, <1>3, <1>4 DEF Next, Step

-----------------------------------------------------------------------------
(* A step is sent once.  What Meta accepted of a step that was not           *)
(* interrupted is behind the enrollment's index or in the hands of a replica *)
(* that will move the index past it.                                         *)

InHand(t, e, i) == t.pc \in AfterAccept /\ t.e = e /\ t.i = i

Covered(e, i) == i < idx[e] \/ \E p \in Ticks : InHand(tick[p], e, i)

SentInv ==
    /\ \A p \in Ticks : tick[p].pc \in Stepping => tick[p].i = idx[tick[p].e]
    /\ \A e \in Enrollments, i \in Indices :
          sent[e][i] <= broken[e][i] + IF Covered(e, i) THEN 1 ELSE 0

\* The same where p is the only replica at work.
Lone(p) ==
    /\ tick[p].pc \in Stepping => tick[p].i = idx[tick[p].e]
    /\ \A e \in Enrollments, i \in Indices :
          sent[e][i] <= broken[e][i] + IF i < idx[e] \/ InHand(tick[p], e, i) THEN 1 ELSE 0

\* A step that sends nothing, and leaves in hand what is in hand.
LEMMA QuietStep ==
    ASSUME Inv, NEW p \in Ticks, Lone(p), UNCHANGED <<sent, broken, idx>>,
           \A e \in Enrollments, i \in Indices : InHand(tick[p], e, i) => InHand(tick'[p], e, i),
           tick'[p].pc \in Stepping => tick'[p].i = idx'[tick'[p].e]
    PROVE  Lone(p)'
<1>1. ASSUME NEW e \in Enrollments, NEW i \in Indices
      PROVE  sent'[e][i] <= broken'[e][i]
                 + IF i < idx'[e] \/ InHand(tick'[p], e, i) THEN 1 ELSE 0
  <2>1. sent[e][i] <= broken[e][i] + IF i < idx[e] \/ InHand(tick[p], e, i) THEN 1 ELSE 0
      BY DEF Lone
  <2>2. sent[e][i] \in Int /\ broken[e][i] \in Int
      BY DEF Inv, TypeOK
  <2>3. InHand(tick[p], e, i) => InHand(tick'[p], e, i)
      OBVIOUS
  <2> QED BY <2>1, <2>2, <2>3
<1> QED
    BY <1>1 DEF Lone, InHand

LEMMA FreeQuiet ==
    ASSUME Inv, NEW p \in Ticks, Lone(p), UNCHANGED <<sent, broken, idx>>,
           tick[p].pc \notin AfterAccept, tick'[p].pc \notin Stepping
    PROVE  Lone(p)'
    BY QuietStep DEF InHand

LEMMA GotoQuiet ==
    ASSUME Inv, NEW p \in Ticks, Lone(p), UNCHANGED <<sent, broken, idx>>,
           NEW pc \in Working, Goto(p, pc), tick[p].pc \in Stepping,
           tick[p].pc \in AfterAccept => pc \in AfterAccept
    PROVE  Lone(p)'
<1>1. /\ tick'[p].pc = pc
      /\ tick'[p].e = tick[p].e /\ tick'[p].i = tick[p].i
    BY GotoMoves DEF Inv, TypeOK, Stage
<1>2. tick[p].i = idx[tick[p].e]
    BY DEF Lone
<1> QED
    BY <1>1, <1>2, QuietStep DEF InHand

LEMMA ContinueFrees ==
    ASSUME Inv, NEW p \in Ticks, Continue(p)
    PROVE  tick'[p].pc \notin Stepping
    BY ContinueMoves DEF Inv, TypeOK, Free, Stepping, AfterAccept

\* Meta accepts the step at hand, which nobody else has sent: it is the one at
\* the enrollment's index.  The attempt is in hand now, or counted as broken.
LEMMA AcceptStep ==
    ASSUME Inv, NEW p \in Ticks, Lone(p), At(p, "call"), UNCHANGED idx,
           sent' = [sent EXCEPT ![tick[p].e][tick[p].i] = @ + 1],
           \/ Goto(p, "record") /\ UNCHANGED broken
           \/ Continue(p) /\ Interrupt(p)
    PROVE  Lone(p)'
<1> DEFINE d == tick[p].e
           j == tick[p].i
<1>1. d \in Enrollments /\ j \in Indices /\ j = idx[d] /\ j \in Nat
    BY AtStep DEF At, Stepping, Lone
<1>2. \A e \in Enrollments, i \in Indices : ~InHand(tick[p], e, i)
    BY DEF At, InHand, AfterAccept
<1>3. \A e \in Enrollments, i \in Indices :
         sent'[e][i] = IF e = d /\ i = j THEN sent[e][i] + 1 ELSE sent[e][i]
    BY <1>1 DEF Inv, TypeOK
<1>4. \A e \in Enrollments, i \in Indices :
         sent[e][i] \in Int /\ broken[e][i] \in Int
    BY DEF Inv, TypeOK
<1>5. \A e \in Enrollments, i \in Indices :
         sent[e][i] <= broken[e][i] + IF i < idx[e] THEN 1 ELSE 0
    BY <1>2 DEF Lone
<1>6. sent[d][j] <= broken[d][j]
    BY <1>1, <1>4, <1>5
<1>7. CASE Goto(p, "record") /\ UNCHANGED broken
  <2>1. tick'[p].pc = "record" /\ tick'[p].e = d /\ tick'[p].i = j
      BY <1>7, GotoMoves DEF Inv, TypeOK, Stage, Working, AfterAccept
  <2>2. InHand(tick'[p], d, j)
      BY <2>1 DEF InHand, AfterAccept
  <2>3. ASSUME NEW e \in Enrollments, NEW i \in Indices
        PROVE  sent'[e][i] <= broken'[e][i]
                   + IF i < idx'[e] \/ InHand(tick'[p], e, i) THEN 1 ELSE 0
    <3>1. CASE e = d /\ i = j
        BY <1>3, <1>4, <1>6, <1>7, <2>2, <3>1
    <3>2. CASE ~(e = d /\ i = j)
        BY <1>3, <1>4, <1>5, <1>7, <3>2
    <3> QED BY <3>1, <3>2
  <2> QED BY <1>1, <2>1, <2>3 DEF Lone
<1>8. CASE Continue(p) /\ Interrupt(p)
  <2>1. tick'[p].pc \notin Stepping
      BY <1>8, ContinueFrees
  <2>2. \A e \in Enrollments, i \in Indices :
           broken'[e][i] = IF e = d /\ i = j THEN broken[e][i] + 1 ELSE broken[e][i]
      BY <1>1, <1>8 DEF Interrupt, Inv, TypeOK
  <2>3. ASSUME NEW e \in Enrollments, NEW i \in Indices
        PROVE  sent'[e][i] <= broken'[e][i]
                   + IF i < idx'[e] \/ InHand(tick'[p], e, i) THEN 1 ELSE 0
    <3>1. CASE e = d /\ i = j
        BY <1>3, <1>4, <1>6, <2>2, <3>1
    <3>2. CASE ~(e = d /\ i = j)
        BY <1>3, <1>4, <1>5, <2>2, <3>2
    <3> QED BY <3>1, <3>2
  <2> QED BY <2>1, <2>3 DEF Lone
<1> QED
    BY <1>7, <1>8

\* The index moves past the step in hand.
LEMMA AdvanceStep ==
    ASSUME Inv, NEW p \in Ticks, Lone(p), Advance(p)
    PROVE  Lone(p)' /\ \A e \in Enrollments : idx'[e] >= idx[e]
<1> DEFINE d == tick[p].e
           j == tick[p].i
<1>1. d \in Enrollments /\ j \in Indices /\ j = idx[d] /\ j \in Nat
    BY AtStep DEF Advance, At, Stepping, AfterAccept, Lone
<1>2. /\ idx' = [idx EXCEPT ![d] = j + 1]
      /\ UNCHANGED <<sent, broken>>
      /\ tick'[p].pc \notin Stepping
    BY ContinueFrees DEF Advance, counts
<1>3. \A e \in Enrollments : /\ idx[e] \in Nat
                             /\ idx'[e] = IF e = d THEN idx[e] + 1 ELSE idx[e]
    BY <1>1, <1>2 DEF Inv, TypeOK
<1>4. ASSUME NEW e \in Enrollments, NEW i \in Indices
      PROVE  sent'[e][i] <= broken'[e][i]
                 + IF i < idx'[e] \/ InHand(tick'[p], e, i) THEN 1 ELSE 0
  <2>0. i \in Int
      BY TicksAssumption DEF Indices
  <2>1. sent[e][i] <= broken[e][i] + IF i < idx[e] \/ InHand(tick[p], e, i) THEN 1 ELSE 0
      BY DEF Lone
  <2>2. sent[e][i] \in Int /\ broken[e][i] \in Int
      BY DEF Inv, TypeOK
  <2>3. i < idx[e] \/ InHand(tick[p], e, i) => i < idx'[e]
      BY <1>1, <1>3, <2>0 DEF InHand
  <2> QED BY <1>2, <2>1, <2>2, <2>3
<1> QED
    BY <1>2, <1>3, <1>4 DEF Lone

\* What was in hand is counted as broken.
LEMMA FaultStep ==
    ASSUME Inv, NEW p \in Ticks, Lone(p), Fault(p)
    PROVE  Lone(p)'
<1>1. UNCHANGED <<sent, idx>>
    BY DEF Fault, rows
<1>2. tick'[p].pc \notin Stepping
  <2>1. tick[p].batch \in SUBSET Enrollments
      BY DEF Inv, TypeOK, Slot
  <2>2. CASE Continue(p)
      BY <2>2, ContinueFrees
  <2>3. ASSUME NEW e \in tick[p].batch, tick' = [tick EXCEPT ![p] = With(@.batch \ {e})]
        PROVE  tick'[p].pc \notin Stepping
    <3>1. tick'[p] = With(tick[p].batch \ {e})
        BY <2>3 DEF Inv, TypeOK
    <3> QED BY <2>1, <3>1, WithFact DEF Free, Stepping, AfterAccept
  <2>4. CASE tick' = [tick EXCEPT ![p] = Idle]
      BY <2>4, IdleFact DEF Inv, TypeOK, Stepping, AfterAccept
  <2> QED BY <2>2, <2>3, <2>4 DEF Fault
<1>3. CASE tick[p].pc \notin AfterAccept
    BY <1>1, <1>2, <1>3, FreeQuiet DEF Fault
<1>4. CASE tick[p].pc \in AfterAccept
  <2> DEFINE d == tick[p].e
             j == tick[p].i
  <2>1. d \in Enrollments /\ j \in Indices
      BY <1>4, AtStep DEF Stepping
  <2>2. \A e \in Enrollments, i \in Indices :
           broken'[e][i] = IF e = d /\ i = j THEN broken[e][i] + 1 ELSE broken[e][i]
      BY <1>4, <2>1 DEF Fault, Interrupt, Inv, TypeOK
  <2>3. ASSUME NEW e \in Enrollments, NEW i \in Indices
        PROVE  sent'[e][i] <= broken'[e][i]
                   + IF i < idx'[e] \/ InHand(tick'[p], e, i) THEN 1 ELSE 0
    <3>1. sent[e][i] <= broken[e][i] + IF i < idx[e] \/ InHand(tick[p], e, i) THEN 1 ELSE 0
        BY DEF Lone
    <3>2. sent[e][i] \in Int /\ broken[e][i] \in Int
        BY DEF Inv, TypeOK
    <3>3. CASE e = d /\ i = j
        BY <1>1, <2>2, <3>1, <3>2, <3>3
    <3>4. CASE ~(e = d /\ i = j)
      <4>1. ~InHand(tick[p], e, i)
          BY <3>4 DEF InHand
      <4> QED BY <1>1, <2>2, <3>1, <3>2, <3>4, <4>1
    <3> QED BY <3>3, <3>4
  <2> QED BY <1>2, <2>3 DEF Lone
<1> QED
    BY <1>3, <1>4

LEMMA RunLone ==
    ASSUME Inv, NEW p \in Ticks, Lone(p), Run(p) \/ Fault(p)
    PROVE  Lone(p)' /\ \A e \in Enrollments : idx'[e] >= idx[e]
<1>0. ASSUME UNCHANGED idx PROVE \A e \in Enrollments : idx'[e] >= idx[e]
    BY <1>0 DEF Inv, TypeOK
<1> DEFINE Kept == UNCHANGED <<sent, broken, idx>>
<1>1. CASE TakeLock(p)
  <2>1. tick'[p].pc = "scan"
      BY <1>1, GotoMoves DEF TakeLock, Inv, TypeOK, Stage
  <2> QED BY <1>0, <1>1, <2>1, FreeQuiet DEF TakeLock, At, Stepping, AfterAccept, rows, counts
<1>2. CASE Scan(p)
  <2>1. With(Oldest).pc \notin Stepping
    <3>1. Oldest \in SUBSET Enrollments
        BY DEF Oldest, Inv, TypeOK
    <3> QED BY <3>1, WithFact DEF Free, Stepping, AfterAccept
  <2>2. tick'[p].pc \notin Stepping
      BY <1>2, <2>1 DEF Scan, Inv, TypeOK
  <2> QED BY <1>0, <1>2, <2>2, FreeQuiet DEF Scan, At, AfterAccept, rows, counts
<1>3. CASE Read(p)
  <2>1. tick[p].pc = "read" /\ Kept /\ tick[p].batch \in SUBSET Enrollments
      BY <1>3 DEF Read, At, rows, counts, Inv, TypeOK, Slot
  <2>2. PICK e \in tick[p].batch :
           tick' = [tick EXCEPT ![p] =
              IF ~Active(e) THEN With(@.batch \ {e})
              ELSE [pc |-> IF e \in optedOut THEN "cancel"
                           ELSE IF idx[e] >= steps THEN "complete" ELSE "gate",
                    batch |-> @.batch \ {e}, e |-> e, i |-> idx[e], n |-> steps, unit |-> 0]]
      BY <1>3 DEF Read
  <2>3. CASE ~Active(e)
    <3>1. tick'[p] = With(tick[p].batch \ {e})
        BY <2>2, <2>3 DEF Inv, TypeOK
    <3>2. tick'[p].pc \notin Stepping
        BY <2>1, <3>1, WithFact DEF Free, Stepping, AfterAccept
    <3> QED BY <1>0, <2>1, <3>2, FreeQuiet DEF AfterAccept
  <2>4. CASE Active(e)
    <3>1. tick'[p].e = e /\ tick'[p].i = idx[e]
        BY <2>2, <2>4 DEF Inv, TypeOK
    <3>2. \A f \in Enrollments, i \in Indices : ~InHand(tick[p], f, i)
        BY <2>1 DEF InHand, AfterAccept
    <3> QED BY <1>0, <2>1, <3>1, <3>2, QuietStep
  <2> QED BY <2>3, <2>4
<1>4. CASE Gate(p)
  <2>1. tick[p].pc = "gate" /\ Kept
      BY <1>4 DEF Gate, At, rows, counts
  <2>2. CASE Continue(p)
      BY <1>0, <2>1, <2>2, ContinueFrees, FreeQuiet DEF AfterAccept
  <2>3. CASE Goto(p, "cancel")
      BY <1>0, <2>1, <2>3, GotoQuiet DEF Stepping, Working, AfterAccept
  <2>4. CASE tick' = [tick EXCEPT ![p].pc = IF metering THEN "afford" ELSE "call",
                                  ![p].unit = IF metering THEN price ELSE 0]
    <3>1. tick'[p].e = tick[p].e /\ tick'[p].i = tick[p].i
        BY <2>4 DEF Inv, TypeOK, Slot
    <3>2. tick[p].i = idx[tick[p].e]
        BY <2>1 DEF Lone, Stepping
    <3>3. \A f \in Enrollments, i \in Indices : ~InHand(tick[p], f, i)
        BY <2>1 DEF InHand, AfterAccept
    <3> QED BY <1>0, <2>1, <3>1, <3>2, <3>3, QuietStep
  <2> QED BY <1>4, <2>2, <2>3, <2>4 DEF Gate
<1>5. CASE Afford(p)
  <2>1. tick[p].pc = "afford" /\ Kept
      BY <1>5 DEF Afford, At, rows, counts
  <2>2. CASE Continue(p)
      BY <1>0, <2>1, <2>2, ContinueFrees, FreeQuiet DEF AfterAccept
  <2>3. CASE Goto(p, "call")
      BY <1>0, <2>1, <2>3, GotoQuiet DEF Stepping, Working, AfterAccept
  <2> QED BY <1>5, <2>2, <2>3 DEF Afford
<1>6. CASE CallMeta(p)
  <2>1. At(p, "call") /\ UNCHANGED idx
      BY <1>6 DEF CallMeta, rows
  <2>2. CASE Continue(p) /\ UNCHANGED <<sent, broken>>
      BY <1>0, <2>1, <2>2, ContinueFrees, FreeQuiet DEF At, AfterAccept
  <2>3. CASE /\ sent' = [sent EXCEPT ![tick[p].e][tick[p].i] = @ + 1]
             /\ \/ Goto(p, "record") /\ UNCHANGED broken
                \/ Continue(p) /\ Interrupt(p)
      BY <1>0, <2>1, <2>3, AcceptStep
  <2> QED BY <1>6, <2>2, <2>3 DEF CallMeta
<1>7. CASE Record(p)
  <2>1. tick[p].pc = "record" /\ Kept
      BY <1>7 DEF Record, At, rows, counts
  <2>2. Goto(p, "charge") \/ Goto(p, "advance")
      BY <1>7 DEF Record
  <2> QED BY <1>0, <2>1, <2>2, GotoQuiet DEF Stepping, Working, AfterAccept
<1>8. CASE Charge(p)
  <2>1. tick[p].pc = "charge" /\ Kept /\ Goto(p, "advance")
      BY <1>8 DEF Charge, At, rows, counts
  <2> QED BY <1>0, <2>1, GotoQuiet DEF Stepping, Working, AfterAccept
<1>9. CASE Advance(p)
    BY <1>9, AdvanceStep
<1>10. CASE CloseRow(p)
  <2>1. tick[p].pc \notin AfterAccept /\ Kept /\ Continue(p)
      BY <1>10 DEF CloseRow, At, AfterAccept, counts
  <2> QED BY <1>0, <2>1, ContinueFrees, FreeQuiet
<1>11. CASE Fault(p)
    BY <1>0, <1>11, FaultStep DEF Fault, rows
<1> QED
    BY <1>1, <1>2, <1>3, <1>4, <1>5, <1>6, <1>7, <1>8, <1>9, <1>10, <1>11 DEF Run

LEMMA SentNext ==
    ASSUME Inv, Solo, SentInv, [Next]_vars
    PROVE  SentInv' /\ \A e \in Enrollments : idx'[e] >= idx[e]
<1>1. ASSUME NEW p \in Ticks, Run(p) \/ Fault(p)
      PROVE  SentInv' /\ \A e \in Enrollments : idx'[e] >= idx[e]
  <2>1. OthersKept(p)
      BY <1>1, RunMoves DEF Replica
  <2>2. \A q \in Ticks \ {p} : tick[q].pc = "idle" /\ tick'[q].pc = "idle"
      BY <1>1, <2>1, RunFrom DEF Solo, TakeLock, At, Busy, OthersKept
  <2>3. Lone(p)
    <3>1. \A e \in Enrollments, i \in Indices :
             Covered(e, i) => i < idx[e] \/ InHand(tick[p], e, i)
        BY <2>2 DEF Covered, InHand, AfterAccept
    <3>2. \A e \in Enrollments, i \in Indices :
             i < idx[e] \/ InHand(tick[p], e, i) => Covered(e, i)
        BY DEF Covered
    <3>3. \A e \in Enrollments, i \in Indices :
             Covered(e, i) <=> i < idx[e] \/ InHand(tick[p], e, i)
        BY <3>1, <3>2
    <3> QED BY <3>3 DEF Lone, SentInv
  <2>4. Lone(p)' /\ \A e \in Enrollments : idx'[e] >= idx[e]
      BY <1>1, <2>3, RunLone
  <2>5. SentInv'
    <3>1. \A e \in Enrollments, i \in Indices :
             Covered(e, i)' <=> i < idx'[e] \/ InHand(tick'[p], e, i)
        BY <2>2 DEF Covered, InHand, AfterAccept
    <3>2. \A q \in Ticks : tick'[q].pc \in Stepping => q = p
        BY <2>2 DEF Stepping, AfterAccept
    <3>3. \A e \in Enrollments, i \in Indices :
             sent'[e][i] <= broken'[e][i] + IF Covered(e, i)' THEN 1 ELSE 0
        BY <2>4, <3>1 DEF Lone
    <3> QED BY <2>4, <3>2, <3>3 DEF Lone, SentInv
  <2> QED BY <2>4, <2>5
<1>2. CASE UNCHANGED <<tick, sent, broken, idx>>
    BY <1>2 DEF SentInv, Covered, Inv, TypeOK, Indices
<1>3. \/ \E p \in Ticks : Run(p) \/ Fault(p)
      \/ UNCHANGED <<tick, sent, broken, idx>>
    BY DEF Next, Step, vars, rows, counts, Expire, Enroll, Elapse, Request, Cancel, OptOut,
           Replace, Headquarters
<1> QED
    BY <1>1, <1>2, <1>3

LEMMA SoloSentInit == Init => Solo /\ SentInv
<1> SUFFICES ASSUME Init PROVE Solo /\ SentInv
    OBVIOUS
<1>1. \A p \in Ticks : tick[p].pc = "idle"
    BY DEF Init, Idle
<1>2. \A e \in Enrollments, i \in Indices : sent[e][i] = 0 /\ broken[e][i] = 0
    BY DEF Init
<1> QED
    BY <1>1, <1>2 DEF Solo, Busy, SentInv, Stepping, AfterAccept, Covered

(* Where no tick outlives its lock, Meta accepts a step of an enrollment     *)
(* once, and once more per attempt that was interrupted after it accepted.   *)
THEOREM StepsAreSentOnce ==
    ASSUME ~Overruns
    PROVE  Spec => []StepIsSentOnce
<1>1. Init => Inv /\ Solo /\ SentInv
    BY InitInv, SoloSentInit
<1>2. Inv /\ Solo /\ SentInv /\ [Next]_vars => Inv' /\ Solo' /\ SentInv'
    BY InvNext, SoloNext, SentNext
<1>3. Inv /\ SentInv => StepIsSentOnce
  <2> SUFFICES ASSUME Inv, SentInv, NEW e \in Enrollments, NEW i \in Indices
               PROVE  sent[e][i] <= 1 + broken[e][i]
      BY DEF StepIsSentOnce
  <2>1. sent[e][i] \in Int /\ broken[e][i] \in Int
      BY DEF Inv, TypeOK
  <2>2. sent[e][i] <= broken[e][i] + IF Covered(e, i) THEN 1 ELSE 0
      BY DEF SentInv
  <2> QED BY <2>1, <2>2
<1> QED
    BY <1>1, <1>2, <1>3, PTL DEF Spec

(* And an enrollment never goes back to a step it has behind it.             *)
THEOREM EnrollmentsNeverGoBack ==
    ASSUME ~Overruns
    PROVE  Spec => NeverGoesBack
<1>1. Init => Inv /\ Solo /\ SentInv
    BY InitInv, SoloSentInit
<1>2. Inv /\ Solo /\ SentInv /\ [Next]_vars => Inv' /\ Solo' /\ SentInv'
    BY InvNext, SoloNext, SentNext
<1>3. Inv /\ Solo /\ SentInv /\ [Next]_vars => [\A e \in Enrollments : idx'[e] >= idx[e]]_vars
    BY SentNext
<1> QED
    BY <1>1, <1>2, <1>3, PTL DEF Spec, NeverGoesBack

-----------------------------------------------------------------------------
(* Steps are paid for.                                                       *)

Owes(t) == t.pc \in {"record", "charge"} /\ t.unit > 0
One(b) == IF b THEN 1 ELSE 0

\* How the number of replicas that owe a charge changes when one moves.
LEMMA UnpaidMoves ==
    ASSUME NEW p \in Ticks, OthersKept(p)
    PROVE  /\ Cardinality(Unpaid) \in Nat
           /\ Cardinality(Unpaid)' = Cardinality(Unpaid) - One(Owes(tick[p])) + One(Owes(tick'[p]))
<1> DEFINE U == {q \in Ticks : Owes(tick[q])}
           V == {q \in Ticks : Owes(tick'[q])}
           R == U \ {p}
<1>1. Unpaid = U /\ Unpaid' = V
    BY DEF Unpaid, Owes
<1>2. R = V \ {p}
    BY DEF OthersKept
<1>3. IsFiniteSet(U) /\ IsFiniteSet(V)
    BY TicksAssumption, FS_Subset
<1>4. Cardinality(U) \in Nat /\ Cardinality(V) \in Nat
    BY <1>3, FS_CardinalityType
<1>5. Cardinality(R) = IF p \in U THEN Cardinality(U) - 1 ELSE Cardinality(U)
    BY <1>3, FS_RemoveElement
<1>6. Cardinality(R) = IF p \in V THEN Cardinality(V) - 1 ELSE Cardinality(V)
    BY <1>2, <1>3, FS_RemoveElement
<1>7. (p \in U <=> Owes(tick[p])) /\ (p \in V <=> Owes(tick'[p]))
    OBVIOUS
<1> HIDE DEF U, V, R
<1>8. Cardinality(V) = Cardinality(U) - One(Owes(tick[p])) + One(Owes(tick'[p]))
    BY <1>4, <1>5, <1>6, <1>7 DEF One
<1> QED
    BY <1>1, <1>4, <1>8

\* A replica that may still charge has the balance for it, as nobody else spends.
Funded == \A p \in Ticks : tick[p].pc \in {"call", "record", "charge"} => tick[p].unit <= available

PaidInv ==
    /\ direct \in Nat /\ available \in Nat
    /\ StepsArePaid
    /\ Overruns \/ (Solo /\ Funded)

\* What a step of a replica adds to the debits, to the losses, to what Meta
\* accepted, and to what is still owed.
Balanced(p) ==
    LET paid == direct' - direct + lost' - lost + One(Owes(tick'[p])) - One(Owes(tick[p]))
    IN  paid <= out' - out /\ (Overruns \/ paid = out' - out)

LEMMA QuietBalanced ==
    ASSUME Inv, PaidInv, NEW p \in Ticks, UNCHANGED <<direct, available, lost, out>>,
           Owes(tick'[p]) <=> Owes(tick[p]),
           tick'[p].pc \in {"call", "record", "charge"} =>
               \/ tick'[p].unit = 0
               \/ tick'[p].unit <= available
    PROVE  /\ Balanced(p) /\ direct' \in Nat /\ available' \in Nat
           /\ tick'[p].pc \in {"call", "record", "charge"} => tick'[p].unit <= available'
<1>1. direct \in Nat /\ available \in Nat /\ lost \in Nat /\ out \in Nat
    BY DEF PaidInv, Inv, TypeOK
<1>2. One(Owes(tick'[p])) = One(Owes(tick[p])) /\ One(Owes(tick[p])) \in Nat
    BY DEF One
<1>3. Balanced(p)
    BY <1>1, <1>2 DEF Balanced
<1> QED
    BY <1>1, <1>3

LEMMA ContinueOwes ==
    ASSUME Inv, NEW p \in Ticks, Continue(p)
    PROVE  ~Owes(tick'[p]) /\ tick'[p].pc \notin {"call", "record", "charge"}
    BY ContinueMoves DEF Inv, TypeOK, Free, Owes

LEMMA RunBalanced ==
    ASSUME Inv, PaidInv, NEW p \in Ticks, Run(p) \/ Fault(p)
    PROVE  /\ Balanced(p) /\ direct' \in Nat /\ available' \in Nat
           /\ Overruns \/ (tick'[p].pc \in {"call", "record", "charge"} =>
                               tick'[p].unit <= available')
<1> DEFINE Kept == UNCHANGED <<direct, available, lost, out>>
           Goal == /\ Balanced(p) /\ direct' \in Nat /\ available' \in Nat
                   /\ Overruns \/ (tick'[p].pc \in {"call", "record", "charge"} =>
                                       tick'[p].unit <= available')
<1>0. /\ direct \in Nat /\ available \in Nat /\ lost \in Nat /\ out \in Nat
      /\ tick[p] \in Slot /\ tick[p].unit \in Nat
      /\ One(Owes(tick[p])) \in Nat
    BY DEF PaidInv, Inv, TypeOK, Slot, One
<1>1. ASSUME Kept, Continue(p), ~Owes(tick[p]) PROVE Goal
    BY <1>1, ContinueOwes, QuietBalanced
<1>2. ASSUME Kept, ~Owes(tick[p]), ~Owes(tick'[p]),
             tick'[p].pc \in {"call", "record", "charge"} =>
                 tick'[p].unit = 0 \/ tick'[p].unit <= available
      PROVE  Goal
    BY <1>2, QuietBalanced
<1>3. ASSUME NEW pc \in Stage, Goto(p, pc)
      PROVE  tick'[p].pc = pc /\ tick'[p].unit = tick[p].unit
    BY <1>3, GotoMoves DEF Inv, TypeOK
<1>4. CASE TakeLock(p)
  <2>1. tick[p].pc = "idle" /\ tick'[p].pc = "scan" /\ Kept
      BY <1>3, <1>4 DEF TakeLock, At, Stage, walletVars, funds, settings, stamps, observed, counts
  <2> QED BY <1>2, <2>1 DEF Owes
<1>5. CASE Scan(p) \/ Read(p)
  <2>1. tick[p].pc \in {"scan", "read"} /\ Kept
      BY <1>5 DEF Scan, Read, At, walletVars, funds, settings, stamps, observed, counts
  <2>2. Oldest \in SUBSET Enrollments /\ tick[p].batch \in SUBSET Enrollments
      BY <1>0 DEF Oldest, Inv, TypeOK, Slot
  <2>3. tick'[p].unit = 0
    <3>1. CASE Scan(p)
      <4>1. tick'[p] = With(Oldest)
          BY <3>1 DEF Scan, Inv, TypeOK
      <4> QED BY <2>2, <4>1, WithFact DEF Free
    <3>2. CASE Read(p)
      <4>1. PICK e \in tick[p].batch :
           tick' = [tick EXCEPT ![p] =
              IF ~Active(e) THEN With(@.batch \ {e})
              ELSE [pc |-> IF e \in optedOut THEN "cancel"
                           ELSE IF idx[e] >= steps THEN "complete" ELSE "gate",
                    batch |-> @.batch \ {e}, e |-> e, i |-> idx[e], n |-> steps, unit |-> 0]]
          BY <3>2 DEF Read
      <4>2. CASE ~Active(e)
        <5>1. tick'[p] = With(tick[p].batch \ {e})
            BY <4>1, <4>2 DEF Inv, TypeOK
        <5> QED BY <2>2, <5>1, WithFact DEF Free
      <4>3. CASE Active(e)
          BY <4>1, <4>3 DEF Inv, TypeOK
      <4> QED BY <4>2, <4>3
    <3> QED BY <1>5, <3>1, <3>2
  <2> QED BY <1>2, <2>1, <2>3 DEF Owes
<1>6. CASE Gate(p)
  <2>1. tick[p].pc = "gate" /\ Kept
      BY <1>6 DEF Gate, At, walletVars, funds, settings, stamps, observed, counts
  <2>2. CASE Continue(p)
      BY <1>1, <2>1, <2>2 DEF Owes
  <2>3. CASE Goto(p, "cancel")
    <3>1. tick'[p].pc = "cancel"
        BY <1>3, <2>3 DEF Stage, Working
    <3> QED BY <1>2, <2>1, <3>1 DEF Owes
  <2>4. CASE tick' = [tick EXCEPT ![p].pc = IF metering THEN "afford" ELSE "call",
                                  ![p].unit = IF metering THEN price ELSE 0]
    <3>1. /\ tick'[p].pc = IF metering THEN "afford" ELSE "call"
          /\ tick'[p].unit = IF metering THEN price ELSE 0
        BY <1>0, <2>4 DEF Inv, TypeOK, Slot
    <3>2. tick'[p].pc \notin {"record", "charge"} /\ (tick'[p].pc = "call" => tick'[p].unit = 0)
        BY <3>1
    <3> QED BY <1>2, <2>1, <3>2 DEF Owes
  <2> QED BY <1>6, <2>2, <2>3, <2>4 DEF Gate
<1>7. CASE Afford(p)
  <2>1. tick[p].pc = "afford" /\ Kept
      BY <1>7 DEF Afford, At, walletVars, funds, settings, stamps, observed, counts
  <2>2. CASE Continue(p)
      BY <1>1, <2>1, <2>2 DEF Owes
  <2>3. CASE Affordable(tick[p].unit) /\ Goto(p, "call")
    <3>1. tick'[p].pc = "call" /\ tick'[p].unit = tick[p].unit
        BY <1>3, <2>3 DEF Stage, Working
    <3>2. tick'[p].unit <= available
        BY <1>0, <2>3, <3>1 DEF Affordable
    <3> QED BY <1>2, <2>1, <3>1, <3>2 DEF Owes
  <2> QED BY <1>7, <2>2, <2>3 DEF Afford
<1>8. CASE CallMeta(p)
  <2>1. /\ tick[p].pc = "call" /\ UNCHANGED <<direct, available>> /\ ~Owes(tick[p])
        /\ Overruns \/ tick[p].unit <= available
      BY <1>8 DEF CallMeta, At, walletVars, funds, settings, stamps, observed, Owes, PaidInv, Funded
  <2>2. CASE Continue(p) /\ UNCHANGED <<lost, out>>
      BY <1>1, <2>1, <2>2
  <2>3. CASE /\ out' = out + One(tick[p].unit > 0)
             /\ Goto(p, "record") /\ UNCHANGED lost
    <3>1. tick'[p].pc = "record" /\ tick'[p].unit = tick[p].unit
        BY <1>3, <2>3 DEF Stage, Working, AfterAccept
    <3>2. One(Owes(tick'[p])) = One(tick[p].unit > 0) /\ One(Owes(tick[p])) = 0
        BY <2>1, <3>1 DEF Owes, One
    <3>3. One(tick[p].unit > 0) \in Nat
        BY DEF One
    <3>4. Balanced(p)
        BY <1>0, <2>1, <2>3, <3>2, <3>3 DEF Balanced
    <3> QED BY <1>0, <2>1, <3>1, <3>4
  <2>4. CASE /\ out' = out + One(tick[p].unit > 0)
             /\ Continue(p) /\ lost' = lost + One(tick[p].unit > 0)
    <3>1. ~Owes(tick'[p]) /\ tick'[p].pc \notin {"call", "record", "charge"}
        BY <2>4, ContinueOwes
    <3>2. One(Owes(tick'[p])) = 0 /\ One(Owes(tick[p])) = 0
        BY <2>1, <3>1 DEF One
    <3>3. One(tick[p].unit > 0) \in Nat
        BY DEF One
    <3>4. Balanced(p)
        BY <1>0, <2>1, <2>4, <3>2, <3>3 DEF Balanced
    <3> QED BY <1>0, <2>1, <3>1, <3>4
  <2> QED BY <1>8, <2>2, <2>3, <2>4 DEF CallMeta, One
<1>9. CASE Record(p)
  <2>1. tick[p].pc = "record" /\ Kept
      BY <1>9 DEF Record, At, walletVars, funds, settings, stamps, observed, counts
  <2>2. tick'[p].pc = (IF tick[p].unit > 0 THEN "charge" ELSE "advance")
        /\ tick'[p].unit = tick[p].unit
      BY <1>3, <1>9 DEF Record, Stage, Working, AfterAccept
  <2>3. Owes(tick'[p]) <=> Owes(tick[p])
      BY <2>1, <2>2 DEF Owes
  <2>4. CASE Overruns
    <3>1. One(Owes(tick'[p])) = One(Owes(tick[p]))
        BY <2>3 DEF One
    <3> QED BY <1>0, <2>1, <2>4, <3>1 DEF Balanced
  <2>5. CASE ~Overruns
    <3>1. tick'[p].unit <= available
        BY <2>1, <2>2, <2>5 DEF PaidInv, Funded
    <3> QED BY <2>1, <2>3, <3>1, QuietBalanced
  <2> QED BY <2>4, <2>5
<1>10. CASE Charge(p)
  <2>1. tick[p].pc = "charge" /\ tick[p].unit > 0 /\ UNCHANGED <<lost, out>>
      BY <1>10 DEF Charge, At, counts, Inv, Units
  <2>2. tick'[p].pc = "advance"
      BY <1>3, <1>10 DEF Charge, Stage, Working, AfterAccept
  <2>3. One(Owes(tick[p])) = 1 /\ One(Owes(tick'[p])) = 0
      BY <2>1, <2>2 DEF Owes, One
  <2>4. CASE available >= tick[p].unit
    <3>1. direct' = direct + 1 /\ available' = available - tick[p].unit
        BY <1>10, <2>4 DEF Charge, ChargeDirect, Affordable, Debit
    <3>2. available' \in Nat /\ direct' \in Nat
        BY <1>0, <2>4, <3>1
    <3>3. Balanced(p)
        BY <1>0, <2>1, <2>3, <3>1 DEF Balanced
    <3> QED BY <2>2, <3>2, <3>3
  <2>5. CASE ~(available >= tick[p].unit)
    <3>1. Overruns
        BY <1>0, <2>1, <2>5 DEF PaidInv, Funded
    <3>2. UNCHANGED <<direct, available>>
        BY <1>10, <2>5 DEF Charge, ChargeDirect, Affordable, walletVars, settings, stamps, funds, observed
    <3>3. Balanced(p)
        BY <1>0, <2>1, <2>3, <3>1, <3>2 DEF Balanced
    <3> QED BY <1>0, <2>2, <3>2, <3>3
  <2> QED BY <2>4, <2>5
<1>11. CASE Advance(p) \/ CloseRow(p)
  <2>1. tick[p].pc \in {"advance", "cancel", "complete"} /\ Kept /\ Continue(p)
      BY <1>11 DEF Advance, CloseRow, At, walletVars, funds, settings, stamps, observed, counts
  <2> QED BY <1>1, <2>1 DEF Owes
<1>12. CASE Fault(p)
  <2>1. /\ UNCHANGED <<direct, available, out>>
        /\ lost' = lost + IF tick[p].unit > 0 /\ tick[p].pc \in {"record", "charge"} THEN 1 ELSE 0
      BY <1>12 DEF Fault, walletVars, funds, settings, stamps, observed
  <2>2. lost' = lost + One(Owes(tick[p]))
      BY <2>1 DEF Owes, One
  <2>3. ~Owes(tick'[p]) /\ tick'[p].pc \notin {"call", "record", "charge"}
    <3>1. CASE Continue(p)
        BY <3>1, ContinueOwes
    <3>2. ASSUME NEW e \in tick[p].batch, tick' = [tick EXCEPT ![p] = With(@.batch \ {e})]
          PROVE  ~Owes(tick'[p]) /\ tick'[p].pc \notin {"call", "record", "charge"}
      <4>1. tick'[p] = With(tick[p].batch \ {e})
          BY <3>2 DEF Inv, TypeOK
      <4>2. tick[p].batch \in SUBSET Enrollments
          BY <1>0 DEF Slot
      <4> QED BY <4>1, <4>2, WithFact DEF Free, Owes
    <3>3. CASE tick' = [tick EXCEPT ![p] = Idle]
        BY <3>3, IdleFact DEF Inv, TypeOK, Owes
    <3> QED BY <1>12, <3>1, <3>2, <3>3 DEF Fault
  <2>4. One(Owes(tick'[p])) = 0
      BY <2>3 DEF One
  <2>5. Balanced(p)
      BY <1>0, <2>1, <2>2, <2>4 DEF Balanced
  <2> QED BY <1>0, <2>1, <2>3, <2>5
<1> QED
    BY <1>4, <1>5, <1>6, <1>7, <1>8, <1>9, <1>10, <1>11, <1>12 DEF Run

LEMMA PaidNext ==
    ASSUME Inv, PaidInv, [Next]_vars
    PROVE  PaidInv'
<1>0. Overruns \/ Solo'
    BY SoloNext DEF PaidInv
<1>1. ASSUME NEW p \in Ticks, Run(p) \/ Fault(p) PROVE PaidInv'
  <2>1. /\ Balanced(p) /\ direct' \in Nat /\ available' \in Nat
        /\ Overruns \/ (tick'[p].pc \in {"call", "record", "charge"} =>
                            tick'[p].unit <= available')
      BY <1>1, RunBalanced
  <2>2. OthersKept(p)
      BY <1>1, RunMoves DEF Replica
  <2>3. StepsArePaid'
    <3>1. /\ Cardinality(Unpaid) \in Nat
          /\ Cardinality(Unpaid)' = Cardinality(Unpaid) - One(Owes(tick[p])) + One(Owes(tick'[p]))
        BY <2>2, UnpaidMoves
    <3>2. /\ direct \in Nat /\ lost \in Nat /\ out \in Nat
          /\ lost' \in Nat /\ out' \in Nat
        BY <1>1, RunRows DEF PaidInv, Inv, TypeOK, CountsOK
    <3>3. One(Owes(tick[p])) \in Nat /\ One(Owes(tick'[p])) \in Nat
        BY DEF One
    <3>4. direct + Cardinality(Unpaid) + lost <= out
        BY DEF PaidInv, StepsArePaid
    <3>5. direct' + Cardinality(Unpaid)' + lost' <= out'
        BY <2>1, <3>1, <3>2, <3>3, <3>4 DEF Balanced
    <3>6. ASSUME ~Overruns PROVE direct' + Cardinality(Unpaid)' + lost' = out'
      <4>1. direct + Cardinality(Unpaid) + lost = out
          BY <3>6 DEF PaidInv, StepsArePaid
      <4>2. direct' - direct + lost' - lost + One(Owes(tick'[p])) - One(Owes(tick[p])) = out' - out
          BY <2>1, <3>6 DEF Balanced
      <4> QED BY <2>1, <3>1, <3>2, <3>3, <4>1, <4>2
    <3> QED BY <3>5, <3>6 DEF StepsArePaid
  <2>4. Overruns \/ Funded'
    <3> SUFFICES ASSUME ~Overruns PROVE Funded'
        OBVIOUS
    <3>1. \A q \in Ticks \ {p} : tick'[q].pc = "idle"
        BY <1>1, <2>2, RunFrom DEF PaidInv, Solo, TakeLock, At, Busy, OthersKept
    <3> QED BY <2>1, <3>1 DEF Funded
  <2> QED BY <1>0, <2>1, <2>3, <2>4 DEF PaidInv
<1>2. ASSUME UNCHANGED <<tick, direct, lost, out>>, available' \in Nat, available' >= available
      PROVE  PaidInv'
  <2>1. StepsArePaid'
      BY <1>2 DEF PaidInv, StepsArePaid, Unpaid
  <2>2. Overruns \/ Funded'
    <3> SUFFICES ASSUME ~Overruns, NEW q \in Ticks,
                        tick[q].pc \in {"call", "record", "charge"}
                 PROVE  tick[q].unit <= available'
        BY <1>2 DEF Funded
    <3>1. tick[q].unit <= available
        BY DEF PaidInv, Funded
    <3>2. tick[q].unit \in Nat /\ available \in Nat
        BY DEF PaidInv, Inv, TypeOK, Slot
    <3> QED BY <1>2, <3>1, <3>2
  <2> QED BY <1>0, <1>2, <2>1, <2>2 DEF PaidInv
<1>3. CASE Request
  <2>1. UNCHANGED <<tick, lost, out>>
      BY <1>3 DEF Request, Cancel, OptOut, Replace, Headquarters
  <2>2. CASE UNCHANGED walletVars
      BY <1>2, <2>1, <2>2 DEF walletVars, funds, settings, stamps, observed, PaidInv
  <2>3. ASSUME NEW amount \in TopUps, TopUp(amount) PROVE PaidInv'
    <3>1. amount \in Nat
        BY AmountsAssumption
    <3> QED BY <1>2, <2>1, <2>3, <3>1 DEF TopUp, observed, PaidInv
  <2>4. ASSUME NEW asked \in Requested, SetPrice(asked) PROVE PaidInv'
      BY <1>2, <2>1, <2>4 DEF SetPrice, funds, observed, PaidInv
  <2>5. ASSUME NEW enabled \in BOOLEAN, SetMetering(enabled) PROVE PaidInv'
      BY <1>2, <2>1, <2>5 DEF SetMetering, funds, observed, PaidInv
  <2> QED BY <1>3, <2>2, <2>3, <2>4, <2>5 DEF Request, Cancel, OptOut, Replace, Headquarters
<1>4. CASE UNCHANGED <<walletVars, tick, lost, out>>
    BY <1>2, <1>4 DEF walletVars, funds, settings, stamps, observed, PaidInv
<1> QED
    BY <1>1, <1>3, <1>4
    DEF Next, Step, vars, counts, Expire, Enroll, Elapse

(* Every debit pays for a metered step that Meta accepted; and where ticks do *)
(* not overlap, every metered step is paid for, is about to be, or was cut    *)
(* off before its charge.                                                     *)
THEOREM DebitsPayForSteps == Spec => []StepsArePaid
<1>1. Init => Inv /\ PaidInv
  <2> SUFFICES ASSUME Init PROVE PaidInv
      BY InitInv
  <2>1. direct = 0 /\ lost = 0 /\ out = 0 /\ available \in Nat
      BY AmountsAssumption DEF Init, WalletInit
  <2>2. Unpaid = {} /\ Funded
      BY DEF Init, Idle, Unpaid, Funded
  <2>3. StepsArePaid
      BY <2>1, <2>2, FS_EmptySet DEF StepsArePaid
  <2> QED BY <2>1, <2>2, <2>3, SoloSentInit DEF PaidInv
<1>2. Inv /\ PaidInv /\ [Next]_vars => Inv' /\ PaidInv'
    BY InvNext, PaidNext
<1>3. PaidInv => StepsArePaid
    BY DEF PaidInv
<1> QED
    BY <1>1, <1>2, <1>3, PTL DEF Spec

-----------------------------------------------------------------------------
(* A sequence that is over for an enrollment stays over.                     *)

Engaged(t, e) == t.e = e /\ t.pc \in {"gate", "afford", "call"}

AtMost == IF Overruns THEN Cardinality(Ticks) ELSE 1

OverInv ==
    /\ Overruns \/ Solo
    /\ \A e \in Enrollments :
          /\ e \in ended => est[e] \in Over
          /\ e \notin ended => late[e] = 0
          /\ late[e] + Cardinality(Committed(e)) <= AtMost

LEMMA EngagedFacts ==
    ASSUME NEW t, NEW e
    PROVE  LET C == {p \in Ticks : Engaged(t[p], e)}
           IN  /\ Cardinality(C) \in Nat
               /\ Cardinality(C) <= Cardinality(Ticks)
               /\ (\A p, q \in C : p = q) => Cardinality(C) <= 1
<1> DEFINE C == {p \in Ticks : Engaged(t[p], e)}
<1>1. C \in SUBSET Ticks
    OBVIOUS
<1> HIDE DEF C
<1>2. IsFiniteSet(C)
    BY <1>1, TicksAssumption, FS_Subset
<1>3. ASSUME \A p, q \in C : p = q PROVE Cardinality(C) <= 1
  <2>1. CASE C = {}
      BY <2>1, FS_EmptySet
  <2>2. ASSUME NEW p \in C PROVE Cardinality(C) <= 1
    <3>1. C \in SUBSET {p}
        BY <1>3, <2>2
    <3>2. IsFiniteSet({p}) /\ Cardinality({p}) = 1
        BY FS_Singleton
    <3> QED BY <3>1, <3>2, FS_Subset
  <2> QED BY <2>1, <2>2
<1>4. Cardinality(C) \in Nat /\ Cardinality(C) <= Cardinality(Ticks)
    BY <1>1, <1>2, TicksAssumption, FS_Subset, FS_CardinalityType
<1> QED
    BY <1>3, <1>4 DEF C

\* How the number of committed replicas changes when one moves.
LEMMA CommittedMoves ==
    ASSUME NEW p \in Ticks, OthersKept(p), NEW e
    PROVE  /\ Cardinality(Committed(e)) \in Nat /\ Cardinality(Committed(e))' \in Nat
           /\ Cardinality(Committed(e))' =
                 Cardinality(Committed(e)) - One(Engaged(tick[p], e)) + One(Engaged(tick'[p], e))
<1> DEFINE U == {q \in Ticks : Engaged(tick[q], e)}
           V == {q \in Ticks : Engaged(tick'[q], e)}
           R == U \ {p}
<1>1. Committed(e) = U /\ Committed(e)' = V
    BY DEF Committed, Engaged
<1>2. R = V \ {p}
    BY DEF OthersKept
<1>3. IsFiniteSet(U) /\ IsFiniteSet(V)
    BY TicksAssumption, FS_Subset
<1>4. Cardinality(U) \in Nat /\ Cardinality(V) \in Nat
    BY <1>3, FS_CardinalityType
<1>5. Cardinality(R) = IF p \in U THEN Cardinality(U) - 1 ELSE Cardinality(U)
    BY <1>3, FS_RemoveElement
<1>6. Cardinality(R) = IF p \in V THEN Cardinality(V) - 1 ELSE Cardinality(V)
    BY <1>2, <1>3, FS_RemoveElement
<1>7. (p \in U <=> Engaged(tick[p], e)) /\ (p \in V <=> Engaged(tick'[p], e))
    OBVIOUS
<1> HIDE DEF U, V, R
<1>8. Cardinality(V) = Cardinality(U) - One(Engaged(tick[p], e)) + One(Engaged(tick'[p], e))
    BY <1>4, <1>5, <1>6, <1>7 DEF One
<1> QED
    BY <1>1, <1>4, <1>8

\* A replica commits to no enrollment that is over, and a message it sends
\* ends its commitment.
LEMMA RunCommits ==
    ASSUME Inv, NEW p \in Ticks, Run(p) \/ Fault(p), NEW e \in Enrollments, est[e] \in Over
    PROVE  /\ Engaged(tick'[p], e) => Engaged(tick[p], e)
           /\ sent'[e] # sent[e] => Engaged(tick[p], e) /\ ~Engaged(tick'[p], e)
<1> DEFINE Goal == /\ Engaged(tick'[p], e) => Engaged(tick[p], e)
                   /\ sent'[e] # sent[e] => Engaged(tick[p], e) /\ ~Engaged(tick'[p], e)
<1>0. e # NoEnrollment /\ tick[p] \in Slot
    BY TicksAssumption DEF Inv, TypeOK
<1>1. ASSUME tick'[p].e = NoEnrollment PROVE ~Engaged(tick'[p], e)
    BY <1>0, <1>1 DEF Engaged
<1>2. ASSUME Continue(p) PROVE ~Engaged(tick'[p], e)
    BY <1>1, <1>2, ContinueMoves DEF Inv, TypeOK, Free
<1>3. ASSUME NEW pc \in Stage, Goto(p, pc)
      PROVE  tick'[p].pc = pc /\ tick'[p].e = tick[p].e
    BY <1>3, GotoMoves DEF Inv, TypeOK
<1>4. CASE TakeLock(p)
  <2>1. tick'[p].pc = "scan" /\ UNCHANGED sent
      BY <1>3, <1>4 DEF TakeLock, Stage
  <2> QED BY <2>1 DEF Engaged
<1>5. CASE Scan(p)
  <2>1. Oldest \in SUBSET Enrollments
      BY DEF Oldest, Inv, TypeOK
  <2>2. tick'[p] = With(Oldest) /\ UNCHANGED sent
      BY <1>5 DEF Scan, Inv, TypeOK
  <2> QED BY <1>1, <2>1, <2>2, WithFact DEF Free
<1>6. CASE Read(p)
  <2>1. PICK d \in tick[p].batch :
           tick' = [tick EXCEPT ![p] =
              IF ~Active(d) THEN With(@.batch \ {d})
              ELSE [pc |-> IF d \in optedOut THEN "cancel"
                           ELSE IF idx[d] >= steps THEN "complete" ELSE "gate",
                    batch |-> @.batch \ {d}, e |-> d, i |-> idx[d], n |-> steps, unit |-> 0]]
      BY <1>6 DEF Read
  <2>2. UNCHANGED sent /\ tick[p].batch \in SUBSET Enrollments
      BY <1>0, <1>6 DEF Read, Slot
  <2>3. CASE ~Active(d)
    <3>1. tick'[p] = With(tick[p].batch \ {d})
        BY <2>1, <2>3 DEF Inv, TypeOK
    <3> QED BY <1>1, <2>2, <3>1, WithFact DEF Free
  <2>4. CASE Active(d)
    <3>1. tick'[p].e = d
        BY <2>1, <2>4 DEF Inv, TypeOK
    <3>2. d # e
        BY <2>4 DEF Active, Over
    <3> QED BY <2>2, <3>1, <3>2 DEF Engaged
  <2> QED BY <2>3, <2>4
<1>7. CASE Gate(p)
  <2>1. tick[p].pc = "gate" /\ UNCHANGED sent
      BY <1>7 DEF Gate, At
  <2>2. tick'[p].e = tick[p].e \/ ~Engaged(tick'[p], e)
    <3>1. CASE Goto(p, "cancel")
        BY <1>3, <3>1 DEF Stage, Working
    <3>2. CASE tick' = [tick EXCEPT ![p].pc = IF metering THEN "afford" ELSE "call",
                                    ![p].unit = IF metering THEN price ELSE 0]
        BY <1>0, <3>2 DEF Inv, TypeOK, Slot
    <3> QED BY <1>2, <1>7, <3>1, <3>2 DEF Gate
  <2> QED BY <2>1, <2>2 DEF Engaged
<1>8. CASE Afford(p)
  <2>1. tick[p].pc = "afford" /\ UNCHANGED sent
      BY <1>8 DEF Afford, At
  <2>2. tick'[p].e = tick[p].e \/ ~Engaged(tick'[p], e)
      BY <1>2, <1>3, <1>8 DEF Afford, Stage, Working
  <2> QED BY <2>1, <2>2 DEF Engaged
<1>9. CASE CallMeta(p)
  <2>1. tick[p].pc = "call"
      BY <1>9 DEF CallMeta, At
  <2>2. ~Engaged(tick'[p], e)
    <3>1. CASE Goto(p, "record")
      <4>1. tick'[p].pc = "record"
          BY <1>3, <3>1 DEF Stage, Working, AfterAccept
      <4> QED BY <4>1 DEF Engaged
    <3> QED BY <1>2, <1>9, <3>1 DEF CallMeta
  <2>3. sent'[e] # sent[e] => tick[p].e = e
      BY <1>9 DEF CallMeta, Inv, TypeOK
  <2> QED BY <2>1, <2>2, <2>3 DEF Engaged
<1>10. CASE Record(p) \/ Charge(p)
  <2>1. UNCHANGED sent
      BY <1>10 DEF Record, Charge
  <2>2. tick'[p].pc \in {"charge", "advance"}
      BY <1>3, <1>10 DEF Record, Charge, Stage, Working, AfterAccept
  <2> QED BY <2>1, <2>2 DEF Engaged
<1>11. CASE Advance(p) \/ CloseRow(p)
    BY <1>2, <1>11 DEF Advance, CloseRow
<1>12. CASE Fault(p)
  <2>1. UNCHANGED sent
      BY <1>12 DEF Fault
  <2>2. ~Engaged(tick'[p], e)
    <3>1. ASSUME NEW d \in tick[p].batch, tick' = [tick EXCEPT ![p] = With(@.batch \ {d})]
          PROVE  ~Engaged(tick'[p], e)
      <4>1. tick'[p] = With(tick[p].batch \ {d})
          BY <3>1 DEF Inv, TypeOK
      <4>2. tick[p].batch \in SUBSET Enrollments
          BY <1>0 DEF Slot
      <4> QED BY <1>1, <4>1, <4>2, WithFact DEF Free
    <3>2. CASE tick' = [tick EXCEPT ![p] = Idle]
        BY <1>1, <3>2, IdleFact DEF Inv, TypeOK
    <3> QED BY <1>2, <1>12, <3>1, <3>2 DEF Fault
  <2> QED BY <2>1, <2>2
<1> QED
    BY <1>4, <1>5, <1>6, <1>7, <1>8, <1>9, <1>10, <1>11, <1>12 DEF Run

\* Once over, always over.
LEMMA OverStays ==
    ASSUME Inv, Step, NEW e \in Enrollments, est[e] \in Over
    PROVE  est'[e] \in Over
<1>1. CASE \E p \in Ticks : Run(p) \/ Fault(p)
    BY <1>1, ZenonT(40) DEF Run, TakeLock, Scan, Read, Gate, Afford, CallMeta, Record, Charge, Advance,
                CloseRow, Fault, rows, Over, Inv, TypeOK
<1>2. CASE Expire
    BY <1>2 DEF Expire, rows
<1>3. CASE \E d \in Enrollments : Enroll(d) \/ Elapse(d)
    BY <1>3 DEF Enroll, Elapse, Over, Inv, TypeOK
<1>4. CASE Request
    BY <1>4 DEF Request, Cancel, OptOut, Replace, Headquarters, rows, Over, Inv, TypeOK
<1> QED
    BY <1>1, <1>2, <1>3, <1>4 DEF Step

LEMMA OverNext ==
    ASSUME Inv, OverInv, [Next]_vars
    PROVE  OverInv'
<1>0. Overruns \/ Solo'
    BY SoloNext DEF OverInv
<1>1. ASSUME NEW e \in Enrollments
      PROVE  /\ Cardinality(Committed(e))' \in Nat
             /\ Cardinality(Committed(e))' <= AtMost
  <2> DEFINE D == {p \in Ticks : Engaged(tick'[p], e)}
  <2>1. Committed(e)' = D
      BY DEF Committed, Engaged
  <2>2. /\ Cardinality(D) \in Nat /\ Cardinality(D) <= Cardinality(Ticks)
        /\ (\A p, q \in D : p = q) => Cardinality(D) <= 1
      BY EngagedFacts
  <2>3. Solo' => \A p, q \in D : p = q
      BY DEF Solo, Busy, Engaged
  <2> HIDE DEF D
  <2>4. CASE Overruns
      BY <2>1, <2>2, <2>4 DEF AtMost
  <2>5. CASE ~Overruns
      BY <1>0, <2>1, <2>2, <2>3, <2>5 DEF AtMost
  <2> QED BY <2>4, <2>5
<1>2. CASE Next
  <2>1. Step /\ Observe
      BY <1>2 DEF Next
  <2>2. ASSUME NEW e \in Enrollments
        PROVE  /\ e \in ended' => est'[e] \in Over
               /\ e \notin ended' => late'[e] = 0
               /\ late'[e] + Cardinality(Committed(e))' <= AtMost
    <3>1. /\ ended' = ended \cup {d \in Enrollments : est'[d] \in Over}
          /\ late'[e] = late[e] + IF e \in ended /\ sent'[e] # sent[e] THEN 1 ELSE 0
        BY <2>1 DEF Observe
    <3>2. /\ e \in ended => est[e] \in Over
          /\ e \notin ended => late[e] = 0
          /\ late[e] + Cardinality(Committed(e)) <= AtMost
        BY DEF OverInv
    <3>3. CASE e \notin ended
      <4>1. late'[e] = 0
          BY <3>1, <3>2, <3>3
      <4> QED BY <1>1, <3>1, <3>3, <4>1
    <3>4. CASE e \in ended
      <4>1. est[e] \in Over /\ est'[e] \in Over
          BY <2>1, <3>2, <3>4, OverStays
      <4>2. late[e] \in Nat
          BY DEF Inv, TypeOK
      <4>3. ASSUME NEW p \in Ticks, Run(p) \/ Fault(p)
            PROVE  late'[e] + Cardinality(Committed(e))' <= AtMost
        <5>1. OthersKept(p)
            BY <4>3, RunMoves DEF Replica
        <5>2. /\ Engaged(tick'[p], e) => Engaged(tick[p], e)
              /\ sent'[e] # sent[e] => Engaged(tick[p], e) /\ ~Engaged(tick'[p], e)
            BY <4>1, <4>3, RunCommits
        <5>3. /\ Cardinality(Committed(e)) \in Nat /\ Cardinality(Committed(e))' \in Nat
              /\ Cardinality(Committed(e))' =
                    Cardinality(Committed(e)) - One(Engaged(tick[p], e)) + One(Engaged(tick'[p], e))
            BY <5>1, CommittedMoves
        <5>4. late'[e] + Cardinality(Committed(e))' <= late[e] + Cardinality(Committed(e))
            BY <3>1, <4>2, <5>2, <5>3 DEF One
        <5>5. AtMost \in Nat /\ late'[e] \in Nat
            BY <3>1, <4>2, TicksAssumption, FS_CardinalityType DEF AtMost
        <5>6. late[e] + Cardinality(Committed(e)) <= AtMost
            BY <3>2
        <5> QED BY <4>2, <5>3, <5>4, <5>5, <5>6
      <4>4. CASE UNCHANGED <<tick, sent>>
        <5>1. Committed(e)' = Committed(e)
            BY <4>4 DEF Committed
        <5>2. late'[e] = late[e]
            BY <3>1, <4>2, <4>4
        <5>3. Cardinality(Committed(e))' = Cardinality(Committed(e))
            BY <5>1
        <5>4. late[e] + Cardinality(Committed(e)) <= AtMost
            BY <3>2
        <5> QED BY <3>1, <3>4, <4>1, <5>2, <5>3, <5>4
      <4>5. \/ \E p \in Ticks : Run(p) \/ Fault(p)
            \/ UNCHANGED <<tick, sent>>
          BY <2>1 DEF Step, Expire, Enroll, Elapse, Request, Cancel, OptOut, Replace, Headquarters
      <4> QED BY <3>1, <3>4, <4>1, <4>3, <4>4, <4>5
    <3> QED BY <3>3, <3>4
  <2> QED BY <1>0, <2>2 DEF OverInv
<1>3. CASE UNCHANGED vars
  <2>1. UNCHANGED <<est, ended, late, tick>>
      BY <1>3 DEF vars, rows
  <2>2. \A e \in Enrollments : Committed(e)' = Committed(e)
      BY <2>1 DEF Committed
  <2> QED BY <1>0, <2>1, <2>2 DEF OverInv
<1> QED
    BY <1>2, <1>3

(* After an enrollment was cancelled or completed, Meta accepts no more      *)
(* messages for it than replicas were working on it at that moment: one      *)
(* where ticks do not overlap.                                               *)
THEOREM OverStaysQuiet == Spec => []OverIsOver
<1>1. Init => Inv /\ OverInv
  <2> SUFFICES ASSUME Init PROVE OverInv
      BY InitInv
  <2>1. \A e \in Enrollments : late[e] = 0 /\ e \notin ended
      BY DEF Init
  <2>2. ASSUME NEW e \in Enrollments PROVE Committed(e) = {}
      BY <2>2 DEF Init, Idle, Committed
  <2>3. 0 <= AtMost
      BY TicksAssumption, FS_CardinalityType DEF AtMost
  <2> QED BY <2>1, <2>2, <2>3, FS_EmptySet, SoloSentInit DEF OverInv
<1>2. Inv /\ OverInv /\ [Next]_vars => Inv' /\ OverInv'
    BY InvNext, OverNext
<1>3. Inv /\ OverInv => OverIsOver
    BY DEF Inv, TypeOK, OverInv, OverIsOver, AtMost
<1> QED
    BY <1>1, <1>2, <1>3, PTL DEF Spec

-----------------------------------------------------------------------------
(* A sequence implements the wallet: headquarters' requests are the wallet's, *)
(* and a step's charge is its charge without a recipient.                     *)
THEOREM SequencesUseTheWallet == Spec => WalletSpec
<1>1. Init => Inv /\ WalletInit
    BY InitInv DEF Init
<1>2. Inv /\ [Next]_vars => Inv' /\ [WalletNext]_walletVars
  <2> SUFFICES ASSUME Inv, [Next]_vars PROVE [WalletNext]_walletVars
      BY InvNext
  <2>1. ASSUME NEW p \in Ticks, Charge(p) PROVE WalletNext
    <3>1. tick[p].unit \in Prices
        BY <2>1 DEF Charge, At, Inv, Units
    <3> QED BY <2>1, <3>1 DEF Charge, WalletNext
  <2>2. ASSUME Headquarters PROVE WalletNext
      BY <2>2 DEF Headquarters, WalletNext
  <2> QED BY <2>1, <2>2
      DEF vars, Next, Step, Run, TakeLock, Scan, Read, Gate, Afford, CallMeta, Record, Advance,
          CloseRow, Fault, Expire, Enroll, Elapse, Request, Cancel, OptOut, Replace
<1> QED
    BY <1>1, <1>2, PTL DEF Spec, WalletSpec
=============================================================================
