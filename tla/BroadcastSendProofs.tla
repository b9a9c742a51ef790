------------------------- MODULE BroadcastSendProofs -------------------------
(* Proofs about the wallet, and about sending a broadcast from it, for every *)
(* number of recipients, slots, webhooks, requests, attempts and faults.     *)
EXTENDS BroadcastSend, FiniteSetTheorems, TLAPS

-----------------------------------------------------------------------------
(* The wallet alone.                                                        *)

(* A price that a charge carries is a natural number at or above the floor. *)
LEMMA PricesAboveFloor ==
    ASSUME NEW unit \in Prices
    PROVE  unit \in Nat /\ unit >= MinPrice
    BY PricesAssumption DEF Prices, Larger

\* The inductive invariant: types and the order of the stamps hold each other up.
\* The stamps bound the price of a refund, and types need a refund to be natural.
WalletInv ==
    /\ WalletTypeOK
    /\ StampsAreOrdered
    /\ LedgerReconciles
    /\ ChargedOncePerArming

LEMMA WalletInvInit == WalletInit => WalletInv
<1> SUFFICES ASSUME WalletInit PROVE WalletInv
    OBVIOUS
<1>1. WalletTypeOK
  <2>1. ledger \in [topup : Nat, adjust : Int, settle : Int, release : Nat]
      BY AmountsAssumption DEF WalletInit
  <2> QED BY <2>1, PricesAssumption, AmountsAssumption DEF WalletInit, WalletTypeOK
<1>2. LedgerReconciles
    BY AmountsAssumption DEF WalletInit, LedgerReconciles
<1>3. StampsAreOrdered /\ ChargedOncePerArming
    BY DEF WalletInit, StampsAreOrdered, ChargedOncePerArming, Refundable
<1> QED
    BY <1>1, <1>2, <1>3 DEF WalletInv

LEMMA WalletInvNext ==
    ASSUME WalletInv, [WalletNext]_walletVars
    PROVE  WalletInv'
<1> USE DEF WalletInv
<1> DEFINE Unmoved == UNCHANGED walletVars
<1>0. ASSUME Unmoved PROVE WalletInv'
    BY <1>0 DEF walletVars, funds, settings, stamps, observed, WalletTypeOK, StampsAreOrdered,
                LedgerReconciles, ChargedOncePerArming, Refundable
<1>1. ASSUME NEW amount \in TopUps, TopUp(amount) PROVE WalletInv'
  <2>1. amount \in Nat
      BY AmountsAssumption
  <2>2. WalletTypeOK'
      BY <1>1, <2>1 DEF TopUp, stamps, observed, WalletTypeOK
  <2>3. LedgerReconciles'
      BY <1>1, <2>1 DEF TopUp, stamps, observed, WalletTypeOK, LedgerReconciles
  <2>4. StampsAreOrdered' /\ ChargedOncePerArming'
      BY <1>1 DEF TopUp, stamps, observed, StampsAreOrdered, ChargedOncePerArming, Refundable
  <2> QED BY <2>2, <2>3, <2>4
<1>2. ASSUME NEW delta \in Deltas, Adjust(delta) PROVE WalletInv'
  <2>1. delta \in Int
      BY AmountsAssumption
  <2>2. WalletTypeOK' /\ LedgerReconciles'
      BY <1>2, <2>1 DEF Adjust, settings, stamps, Larger, WalletTypeOK, LedgerReconciles
  <2>3. StampsAreOrdered' /\ ChargedOncePerArming'
      BY <1>2 DEF Adjust, settings, stamps, StampsAreOrdered, ChargedOncePerArming, Refundable
  <2> QED BY <2>2, <2>3
<1>3. ASSUME NEW asked \in Requested, SetPrice(asked) PROVE WalletInv'
  <2>1. WalletTypeOK' /\ LedgerReconciles'
      BY <1>3, PricesAssumption
      DEF SetPrice, funds, stamps, observed, Larger, WalletTypeOK, LedgerReconciles
  <2>2. StampsAreOrdered' /\ ChargedOncePerArming'
      BY <1>3 DEF SetPrice, funds, stamps, observed, StampsAreOrdered, ChargedOncePerArming, Refundable
  <2> QED BY <2>1, <2>2
<1>4. ASSUME NEW enabled \in BOOLEAN, SetMetering(enabled) PROVE WalletInv'
  <2>1. WalletTypeOK' /\ LedgerReconciles'
      BY <1>4 DEF SetMetering, funds, stamps, observed, WalletTypeOK, LedgerReconciles
  <2>2. StampsAreOrdered' /\ ChargedOncePerArming'
      BY <1>4 DEF SetMetering, funds, stamps, observed, StampsAreOrdered, ChargedOncePerArming, Refundable
  <2> QED BY <2>1, <2>2
<1>5. ASSUME NEW r \in Recipients, NEW unit \in Prices, ChargeAtSend(r, unit)
      PROVE  WalletInv'
  <2>1. unit \in Nat /\ unit >= MinPrice
      BY PricesAboveFloor
  <2>2. CASE Unmoved
      BY <1>0, <2>2
  <2>3. CASE ~Unmoved
    <3>1. /\ ~billed[r]
          /\ available >= unit
          /\ Debit(unit)
          /\ billed' = [billed EXCEPT ![r] = TRUE]
          /\ settleRow' = [settleRow EXCEPT ![r] = unit]
          /\ settled' = settled + unit
          /\ charges' = [charges EXCEPT ![r] = @ + 1]
          /\ UNCHANGED <<settings, refunded, forgiven, direct, refunds, orphaned>>
        BY <1>5, <2>3 DEF ChargeAtSend, Affordable
    <3>2. WalletTypeOK'
        BY <2>1, <3>1 DEF Debit, settings, stamps, WalletTypeOK
    <3>3. LedgerReconciles'
        BY <2>1, <3>1 DEF Debit, settings, stamps, WalletTypeOK, LedgerReconciles
    <3>4. StampsAreOrdered'
        BY <2>1, <3>1 DEF StampsAreOrdered, WalletTypeOK
    <3>5. ChargedOncePerArming'
        BY <3>1 DEF ChargedOncePerArming, Refundable, StampsAreOrdered, WalletTypeOK
    <3> QED BY <3>2, <3>3, <3>4, <3>5
  <2> QED BY <2>2, <2>3
<1>6. ASSUME NEW unit \in Prices, NEW gate \in BOOLEAN, ChargeDirect(unit, gate)
      PROVE  WalletInv'
  <2>1. unit \in Nat
      BY PricesAboveFloor
  <2>2. CASE Unmoved
      BY <1>0, <2>2
  <2>3. CASE ~Unmoved
    <3>1. /\ available >= unit
          /\ Debit(unit)
          /\ direct' = direct + 1
          /\ UNCHANGED <<settings, stamps,
                         forgiven, charges, refunds, orphaned>>
        BY <1>6, <2>3 DEF ChargeDirect, Affordable
    <3>2. WalletTypeOK'
        BY <2>1, <3>1 DEF Debit, settings, stamps, WalletTypeOK
    <3>3. LedgerReconciles'
        BY <2>1, <3>1 DEF Debit, settings, stamps, WalletTypeOK, LedgerReconciles
    <3>4. StampsAreOrdered' /\ ChargedOncePerArming'
        BY <3>1 DEF stamps, StampsAreOrdered, ChargedOncePerArming, Refundable
    <3> QED BY <3>2, <3>3, <3>4
  <2> QED BY <2>2, <2>3
<1>7. ASSUME NEW r \in Recipients, RefundFailedSend(r) PROVE WalletInv'
  <2>1. CASE Unmoved
      BY <1>0, <2>1
  <2>2. CASE ~Unmoved
    <3>1. Refundable(r) /\ settleRow[r] \in Nat /\ settleRow[r] > 0
        BY <1>7, <2>2, PricesAssumption
        DEF RefundFailedSend, Refundable, StampsAreOrdered, WalletTypeOK
    <3>2. /\ refunded' = [refunded EXCEPT ![r] = TRUE]
          /\ Credit(settleRow[r])
          /\ settled' = Larger(settled - settleRow[r], 0)
          /\ refunds' = [refunds EXCEPT ![r] = @ + 1]
          /\ UNCHANGED <<settings, settleRow, billed,
                         forgiven, direct, charges, orphaned>>
        BY <1>7, <3>1 DEF RefundFailedSend
    <3>3. WalletTypeOK'
        BY <3>1, <3>2 DEF Credit, Larger, settings, WalletTypeOK
    <3>4. LedgerReconciles'
        BY <3>1, <3>2 DEF Credit, WalletTypeOK, LedgerReconciles
    <3>5. StampsAreOrdered'
        BY <3>1, <3>2 DEF StampsAreOrdered, Refundable, WalletTypeOK
    <3>6. ChargedOncePerArming'
        BY <3>1, <3>2 DEF ChargedOncePerArming, Refundable, WalletTypeOK
    <3> QED BY <3>3, <3>4, <3>5, <3>6
  <2> QED BY <2>1, <2>2
<1>8. ASSUME NEW rs \in SUBSET Recipients, RearmBilling(rs) PROVE WalletInv'
  <2>1. WalletTypeOK' /\ LedgerReconciles'
      BY <1>8 DEF RearmBilling, funds, settings, WalletTypeOK, LedgerReconciles
  <2>2. StampsAreOrdered'
      BY <1>8 DEF RearmBilling, StampsAreOrdered, WalletTypeOK
  <2>3. ChargedOncePerArming'
      BY <1>8 DEF RearmBilling, ChargedOncePerArming, Refundable, WalletTypeOK
  <2> QED BY <2>1, <2>2, <2>3
<1> QED
    BY <1>0, <1>1, <1>2, <1>3, <1>4, <1>5, <1>6, <1>7, <1>8 DEF WalletNext

\* The open charges are counted by the lifetime message counter.  The step
\* lemma needs WalletInv only for the types and the order of the stamps.
LEMMA MessagesCoverNext ==
    ASSUME WalletInv, MessagesCoverOpenCharges, [WalletNext]_walletVars
    PROVE  MessagesCoverOpenCharges'
<1> USE DEF MessagesCoverOpenCharges
<1>1. /\ IsFiniteSet(Open) /\ Open \subseteq Recipients
      /\ Cardinality(Open) \in Nat
      /\ messages \in Nat /\ direct \in Nat
    BY RecipientsAssumption, FS_Subset, FS_CardinalityType DEF Open, WalletInv, WalletTypeOK
<1>2. ASSUME UNCHANGED <<billed, refunded>> PROVE Open' = Open
    BY <1>2 DEF Open, Refundable
<1>3. ASSUME UNCHANGED <<messages, direct, billed, refunded>>
      PROVE  MessagesCoverOpenCharges'
    BY <1>2, <1>3
<1>4. ASSUME NEW r \in Recipients, NEW unit \in Prices, ChargeAtSend(r, unit)
      PROVE  MessagesCoverOpenCharges'
  <2>1. CASE UNCHANGED walletVars
      BY <1>3, <2>1 DEF walletVars, funds, stamps, observed
  <2>2. CASE ~UNCHANGED walletVars
    <3>1. /\ ~billed[r] /\ billed' = [billed EXCEPT ![r] = TRUE]
          /\ messages' = messages + 1
          /\ UNCHANGED <<refunded, direct>>
        BY <1>4, <2>2 DEF ChargeAtSend, Debit
    <3>2. ~refunded[r]
        BY <3>1 DEF WalletInv, StampsAreOrdered, WalletTypeOK
    <3>3. Open' = Open \cup {r} /\ r \notin Open
        BY <3>1, <3>2 DEF Open, Refundable, WalletInv, WalletTypeOK
    <3>4. Cardinality(Open \cup {r}) = Cardinality(Open) + 1
        BY <1>1, <3>3, FS_AddElement
    <3>5. direct' = direct
        BY <3>1
    <3>6. messages' >= direct' + Cardinality(Open \cup {r})
        BY <1>1, <3>1, <3>4, <3>5
    <3> QED BY <3>3, <3>6
  <2> QED BY <2>1, <2>2
<1>5. ASSUME NEW r \in Recipients, RefundFailedSend(r)
      PROVE  MessagesCoverOpenCharges'
  <2>1. CASE UNCHANGED walletVars
      BY <1>3, <2>1 DEF walletVars, funds, stamps, observed
  <2>2. CASE ~UNCHANGED walletVars
    <3>1. Refundable(r) /\ settleRow[r] # 0
        BY <1>5, <2>2, PricesAssumption
        DEF RefundFailedSend, Refundable, WalletInv, StampsAreOrdered, WalletTypeOK
    <3>2. /\ refunded' = [refunded EXCEPT ![r] = TRUE]
          /\ messages' = Larger(messages - 1, 0)
          /\ UNCHANGED <<billed, direct>>
        BY <1>5, <3>1 DEF RefundFailedSend, Credit
    <3>3. Open' = Open \ {r} /\ r \in Open
        BY <3>1, <3>2 DEF Open, Refundable, WalletInv, WalletTypeOK
    <3>4. IsFiniteSet(Open \ {r}) /\ Cardinality(Open \ {r}) = Cardinality(Open) - 1
        BY <1>1, <3>3, FS_RemoveElement
    <3> QED BY <1>1, <3>2, <3>3, <3>4 DEF Larger
  <2> QED BY <2>1, <2>2
<1>6. ASSUME NEW rs \in SUBSET Recipients, RearmBilling(rs)
      PROVE  MessagesCoverOpenCharges'
  <2>1. Open' \subseteq Open /\ UNCHANGED <<messages, direct>>
      BY <1>6 DEF RearmBilling, Open, Refundable, funds
  <2>2. Cardinality(Open') \in Nat /\ Cardinality(Open') <= Cardinality(Open)
      BY <1>1, <2>1, FS_Subset, FS_CardinalityType
  <2> QED BY <1>1, <2>1, <2>2
<1>7. ASSUME NEW unit \in Prices, NEW gate \in BOOLEAN, ChargeDirect(unit, gate)
      PROVE  MessagesCoverOpenCharges'
  <2>1. CASE UNCHANGED walletVars
      BY <1>3, <2>1 DEF walletVars, funds, stamps, observed
  <2>2. CASE ~UNCHANGED walletVars
    <3>1. /\ messages' = messages + 1 /\ direct' = direct + 1
          /\ UNCHANGED <<billed, refunded>>
        BY <1>7, <2>2 DEF ChargeDirect, Debit, stamps
    <3>2. Open' = Open
        BY <1>2, <3>1
    <3>3. messages' >= direct' + Cardinality(Open)
        BY <1>1, <3>1
    <3> QED BY <3>2, <3>3
  <2> QED BY <2>1, <2>2
<1>8. CASE \/ \E amount \in TopUps : TopUp(amount)
           \/ \E delta \in Deltas : Adjust(delta)
           \/ \E asked \in Requested : SetPrice(asked)
           \/ \E enabled \in BOOLEAN : SetMetering(enabled)
           \/ UNCHANGED walletVars
    BY <1>3, <1>8
    DEF TopUp, Adjust, SetPrice, SetMetering, walletVars, funds, stamps, observed
<1> QED
    BY <1>4, <1>5, <1>6, <1>7, <1>8 DEF WalletNext

\* The rows keep their types: the balance of wallet.ts is never negative, for
\* every amount, price and number of recipients.
THEOREM WalletTypes == WalletSpec => []WalletTypeOK
<1>1. WalletInit => WalletInv
    BY WalletInvInit
<1>2. WalletInv /\ [WalletNext]_walletVars => WalletInv'
    BY WalletInvNext
<1>3. WalletInv => WalletTypeOK
    BY DEF WalletInv
<1> QED
    BY <1>1, <1>2, <1>3, PTL DEF WalletSpec

\* Every movement of money has its ledger row (wallet.ts).
THEOREM WalletReconciles == WalletSpec => []LedgerReconciles
<1>1. WalletInit => WalletInv
    BY WalletInvInit
<1>2. WalletInv /\ [WalletNext]_walletVars => WalletInv'
    BY WalletInvNext
<1>3. WalletInv => LedgerReconciles
    BY DEF WalletInv
<1> QED
    BY <1>1, <1>2, <1>3, PTL DEF WalletSpec

\* A recipient is charged, net of refunds, once per arming of its stamps
\* (chargeAtSend, refundFailedSend).
THEOREM WalletChargesOnce == WalletSpec => []ChargedOncePerArming
<1>1. WalletInit => WalletInv
    BY WalletInvInit
<1>2. WalletInv /\ [WalletNext]_walletVars => WalletInv'
    BY WalletInvNext
<1>3. WalletInv => ChargedOncePerArming
    BY DEF WalletInv
<1> QED
    BY <1>1, <1>2, <1>3, PTL DEF WalletSpec

\* The clamp on the lifetime message counter never bites (refundFailedSend).
THEOREM WalletCountsMessages == WalletSpec => []MessagesCoverOpenCharges
<1>1. WalletInit => WalletInv /\ MessagesCoverOpenCharges
  <2> SUFFICES ASSUME WalletInit PROVE MessagesCoverOpenCharges
      BY WalletInvInit
  <2>1. Open = {}
      BY DEF WalletInit, Open, Refundable
  <2> QED
      BY <2>1, FS_EmptySet DEF WalletInit, MessagesCoverOpenCharges
<1>2. /\ WalletInv /\ MessagesCoverOpenCharges
      /\ [WalletNext]_walletVars
      => WalletInv' /\ MessagesCoverOpenCharges'
    BY WalletInvNext, MessagesCoverNext
<1> QED
    BY <1>1, <1>2, PTL DEF WalletSpec

-----------------------------------------------------------------------------
(* Sending is a use of the wallet.                                           *)

LEMMA InitIsWalletInit == Init => WalletInit
    BY DEF Init

LEMMA ChargeIsWalletStep ==
    ASSUME NEW r \in Recipients, ChargeAtSend(r, Unit)
    PROVE  WalletNext
<1>1. Unit \in Prices
    BY DEF Unit, Prices
<1> QED
    BY <1>1 DEF WalletNext

LEMMA RefundIsWalletStep ==
    ASSUME NEW r \in Recipients, RefundFailedSend(r)
    PROVE  WalletNext
    BY DEF WalletNext

LEMMA RearmIsWalletStep ==
    ASSUME NEW rs \in SUBSET Recipients, RearmBilling(rs)
    PROVE  WalletNext
    BY DEF WalletNext

-----------------------------------------------------------------------------
(* The processes' records.                                                   *)

Slot == [pc : Stage, r : Recipients \cup {NoRecipient}, k : Int, m : Int]

HookSlot == [pc : {"idle", "write", "refund"}, r : Recipients \cup {NoRecipient},
             s : {"none", "delivered", "read", "failed"}, refund : BOOLEAN]
ApiSlot == [pc : {"idle", "refund", "write", "enqueue", "dequeue"},
            op : Ops \cup {"none"}, rs : SUBSET Recipients]
ReaperSlot == [pc : {"idle", "refund", "find", "skip", "complete"}, rs : SUBSET Recipients]

\* A slot in the middle of a job, or whose job is exhausted, holds a recipient.
Holds(s) == s.pc \in InJob \cup {"exhausted"} => s.r \in Recipients

\* The part of TypeOK that the steps of the wallet and the counting need.
RecordsInv ==
    /\ worker \in [Workers -> Slot]
    /\ \A w \in Workers : Holds(worker[w])
    /\ accepted \in [Recipients -> Nat]
    /\ hook \in [Hooks -> HookSlot]
    /\ \A h \in Hooks : hook[h].pc # "idle" => hook[h].r \in Recipients
    /\ api \in [Apis -> ApiSlot]
    /\ reaper \in [Reapers -> ReaperSlot]

\* A slot that moves on keeps its recipient and disturbs no other slot.
LEMMA GotoMoves ==
    ASSUME worker \in [Workers -> Slot], NEW w \in Workers, NEW pc \in Stage, Goto(w, pc)
    PROVE  /\ worker' \in [Workers -> Slot]
           /\ worker'[w].pc = pc
           /\ worker'[w].r = worker[w].r
           /\ \A v \in Workers \ {w} : worker'[v] = worker[v]
<1> DEFINE t == [worker[w] EXCEPT !.pc = pc]
<1>1. worker' = [worker EXCEPT ![w] = t]
    BY DEF Goto
<1>2. worker[w] \in Slot
    OBVIOUS
<1>3. t \in Slot /\ t.pc = pc /\ t.r = worker[w].r
    BY <1>2 DEF Slot
<1> HIDE DEF t
<1> QED
    BY <1>1, <1>3

\* A slot that is given a whole record disturbs no other slot.
LEMMA SetMoves ==
    ASSUME worker \in [Workers -> Slot], NEW w \in Workers, NEW s \in Slot,
           worker' = [worker EXCEPT ![w] = s]
    PROVE  /\ worker' \in [Workers -> Slot]
           /\ worker'[w] = s
           /\ \A v \in Workers \ {w} : worker'[v] = worker[v]
    OBVIOUS

LEMMA IdleIsSlot == Idle \in Slot /\ Idle.pc = "idle"
    BY DEF Idle, Slot, Stage

OthersKept(w) ==
    /\ worker' \in [Workers -> Slot]
    /\ \A v \in Workers \ {w} : worker'[v] = worker[v]

\* A failed attempt ends the slot's job, or leaves the slot to its last handler.
LEMMA FailAttemptMoves ==
    ASSUME worker \in [Workers -> Slot], NEW w \in Workers, FailAttempt(w)
    PROVE  /\ OthersKept(w)
           /\ \/ worker'[w] = Idle
              \/ worker'[w].pc = "exhausted" /\ worker'[w].r = worker[w].r
<1>1. CASE worker' = [worker EXCEPT ![w] = Idle]
    BY <1>1, IdleIsSlot, SetMoves DEF OthersKept
<1>2. CASE Goto(w, "exhausted")
  <2>1. "exhausted" \in Stage
      BY DEF Stage
  <2> QED BY <1>2, <2>1, GotoMoves DEF OthersKept
<1> QED
    BY <1>1, <1>2 DEF FailAttempt

LEMMA GiveBackMoves ==
    ASSUME worker \in [Workers -> Slot], NEW w \in Workers, GiveBack(w)
    PROVE  OthersKept(w) /\ worker'[w] = Idle
    BY IdleIsSlot, SetMoves DEF GiveBack, OthersKept

-----------------------------------------------------------------------------
(* What one step of a slot may do: to itself, to what Meta has accepted and  *)
(* to what has been charged.                                                 *)

Paying == {"sent", "charge"}
Sending == {"recipient", "gate", "call"}

\* The slot accepts and charges nothing; it does not start to pay, and starts to
\* send only under a broadcast that is not stopped.
Quiet(w) ==
    /\ accepted' = accepted /\ charges' = charges
    /\ worker'[w].pc \in Paying => worker[w].pc \in Paying /\ worker'[w].r = worker[w].r
    /\ worker'[w].pc \in Sending => worker[w].pc \in Sending \/ status \notin Halting

Accepts(w) ==
    /\ worker[w].pc = "call" /\ worker'[w].pc \notin Sending
    /\ accepted' = [accepted EXCEPT ![worker[w].r] = @ + 1] /\ charges' = charges
    /\ worker'[w].pc \in Paying => worker'[w].r = worker[w].r

Pays(w) ==
    /\ worker[w].pc = "charge" /\ worker'[w].pc = "record"
    /\ accepted' = accepted
    /\ charges' \in {charges, [charges EXCEPT ![worker[w].r] = @ + 1]}

Moves(w) == OthersKept(w) /\ Holds(worker'[w]) /\ (Quiet(w) \/ Accepts(w) \/ Pays(w))

\* Moving on within a job, or out of it, is quiet.
LEMMA QuietGoto ==
    ASSUME RecordsInv, NEW w \in Workers, NEW pc \in Stage \ Paying, Goto(w, pc),
           worker[w].pc \in InJob \/ pc \notin InJob \cup {"exhausted"},
           pc \in Sending => worker[w].pc \in Sending,
           UNCHANGED <<accepted, charges>>
    PROVE  Moves(w)
<1>1. /\ OthersKept(w)
      /\ worker'[w].pc = pc
      /\ worker'[w].r = worker[w].r
    BY GotoMoves DEF OthersKept, RecordsInv
<1> QED
    BY <1>1 DEF Moves, Quiet, Holds, RecordsInv

\* So is a failed attempt, and a job given back, when it accepts nothing.
LEMMA QuietEnd ==
    ASSUME RecordsInv, NEW w \in Workers, FailAttempt(w) \/ GiveBack(w),
           worker[w].pc \in InJob, UNCHANGED <<accepted, charges>>
    PROVE  Moves(w)
<1>1. /\ OthersKept(w)
      /\ \/ worker'[w] = Idle
         \/ worker'[w].pc = "exhausted" /\ worker'[w].r = worker[w].r
    BY FailAttemptMoves, GiveBackMoves DEF RecordsInv
<1> QED
    BY <1>1, IdleIsSlot DEF Moves, Quiet, Holds, RecordsInv, Paying, Sending, InJob, AfterAccept

LEMMA WorkerMoves ==
    ASSUME RecordsInv, NEW w \in Workers, Worker(w) \/ WorkerFault(w) \/ HandlerFault(w)
    PROVE  Moves(w)
<1> USE DEF RecordsInv
<1>0. worker[w] \in Slot /\ Holds(worker[w])
    OBVIOUS
<1>1. ASSUME TakeJob(w) PROVE Moves(w)
  <2>1. PICK r \in Recipients, k \in 0 .. Attempts - 1 :
            worker' = [worker EXCEPT ![w] =
                [pc |-> IF status \in {"cancelled", "completed"} THEN "skip" ELSE "recipient",
                 r |-> r, k |-> k, m |-> 0]]
      BY <1>1 DEF TakeJob
  <2>2. CASE status \in {"cancelled", "completed"}
    <3>1. [pc |-> "skip", r |-> r, k |-> k, m |-> 0] \in Slot
        BY SlotsAssumption DEF Slot, Stage, InJob
    <3>2. OthersKept(w) /\ worker'[w] = [pc |-> "skip", r |-> r, k |-> k, m |-> 0]
        BY <2>1, <2>2, <3>1, SetMoves DEF OthersKept
    <3> QED BY <1>1, <3>2 DEF TakeJob, walletVars, funds, settings, stamps, observed, meta, Moves, Quiet, Paying,
           Sending, Holds,
                               InJob, AfterAccept
  <2>3. CASE status \notin {"cancelled", "completed"}
    <3>1. [pc |-> "recipient", r |-> r, k |-> k, m |-> 0] \in Slot
        BY SlotsAssumption DEF Slot, Stage, InJob
    <3>2. OthersKept(w) /\ worker'[w] = [pc |-> "recipient", r |-> r, k |-> k, m |-> 0]
        BY <2>1, <2>3, <3>1, SetMoves DEF OthersKept
    <3>3. status \notin Halting
        BY <1>1, <2>3 DEF TakeJob, Halting
    <3> QED BY <1>1, <3>2, <3>3 DEF TakeJob, walletVars, funds, settings, stamps, observed, meta, Moves, Quiet,
           Paying, Sending, Holds,
                               InJob, AfterAccept
  <2> QED BY <2>2, <2>3
<1> USE DEF At, InJob, AfterAccept, Stage, Paying, Sending
<1>2. ASSUME SkipStopped(w) PROVE Moves(w)
    BY <1>2, QuietGoto DEF SkipStopped, walletVars, funds, settings, stamps, observed, meta
<1>3. ASSUME ReadRecipient(w) PROVE Moves(w)
    BY <1>3, QuietGoto DEF ReadRecipient, walletVars, funds, settings, stamps, observed, meta
<1>4. ASSUME Gate(w) PROVE Moves(w)
    BY <1>4, QuietGoto, QuietEnd DEF Gate, walletVars, funds, settings, stamps, observed, meta
<1>5. ASSUME Close(w) PROVE Moves(w)
    BY <1>5, QuietGoto DEF Close, walletVars, funds, settings, stamps, observed, meta
<1>6. ASSUME CallMeta(w) PROVE Moves(w)
  <2> DEFINE r == worker[w].r
             Accepted == accepted' = [accepted EXCEPT ![r] = @ + 1]
             sent == [pc |-> "sent", r |-> r, k |-> worker[w].k, m |-> accepted[r] + 1]
  <2>1. worker[w].pc = "call" /\ r \in Recipients /\ charges' = charges
      BY <1>0, <1>6 DEF CallMeta, walletVars, funds, settings, stamps, observed, Holds
  <2>2. CASE Accepted /\ worker' = [worker EXCEPT ![w] = sent]
    <3>1. sent \in Slot
        BY <1>0, <2>1 DEF Slot
    <3>2. OthersKept(w) /\ worker'[w] = sent
        BY <2>2, <3>1, SetMoves DEF OthersKept
    <3> QED BY <2>1, <2>2, <3>2 DEF Moves, Accepts, Holds
  <2>3. CASE Accepted /\ FailAttempt(w)
    <3>1. /\ OthersKept(w)
          /\ worker'[w] = Idle \/ (worker'[w].pc = "exhausted" /\ worker'[w].r = r)
        BY <2>3, FailAttemptMoves
    <3> QED BY <2>1, <2>3, <3>1, IdleIsSlot DEF Moves, Accepts, Holds
  <2>4. CASE accepted' = accepted /\ Goto(w, "reject")
      BY <2>1, <2>4, QuietGoto
  <2>5. CASE accepted' = accepted /\ FailAttempt(w)
      BY <2>1, <2>5, QuietEnd
  <2> QED
      BY <1>6, <2>2, <2>3, <2>4, <2>5 DEF CallMeta
<1>7. ASSUME MarkSent(w) PROVE Moves(w)
  <2>1. OthersKept(w) /\ worker'[w].pc = "charge" /\ worker'[w].r = worker[w].r
      BY <1>7, GotoMoves DEF MarkSent, OthersKept
  <2> QED BY <1>0, <1>7, <2>1 DEF MarkSent, walletVars, funds, settings, stamps, observed, meta, Moves, Quiet, Holds
<1>8. ASSUME Charge(w) PROVE Moves(w)
  <2>1. OthersKept(w) /\ worker'[w].pc = "record" /\ worker'[w].r = worker[w].r
      BY <1>8, GotoMoves DEF Charge, OthersKept
  <2>2. ChargeAtSend(worker[w].r, Unit) /\ accepted' = accepted /\ worker[w].pc = "charge"
      BY <1>8 DEF Charge, meta
  <2>3. charges' \in {charges, [charges EXCEPT ![worker[w].r] = @ + 1]}
      BY <2>2 DEF ChargeAtSend, walletVars, funds, settings, stamps, observed
  <2> QED BY <1>0, <2>1, <2>2, <2>3 DEF Moves, Pays, Holds
<1>9. ASSUME Record(w) PROVE Moves(w)
    BY <1>9, QuietGoto DEF Record, walletVars, funds, settings, stamps, observed, meta
<1>10. ASSUME BurstPause(w) PROVE Moves(w)
    BY <1>10, QuietGoto DEF BurstPause, walletVars, funds, settings, stamps, observed, meta
<1>11. ASSUME Exhausted(w) PROVE Moves(w)
    BY <1>11, IdleIsSlot, SetMoves DEF Exhausted, walletVars, funds, settings, stamps, observed, meta, Moves,
       OthersKept, Quiet, Holds
<1>12. ASSUME CountUnsent(w) \/ ReadBroadcast(w) \/ Complete(w) PROVE Moves(w)
  <2>1. PICK s \in {Idle, Finishing("finish"), Finishing("complete")} :
            worker' = [worker EXCEPT ![w] = s]
      BY <1>12 DEF CountUnsent, ReadBroadcast, Complete
  <2>2. s \in Slot /\ s.pc \in {"idle", "finish", "complete"}
      BY IdleIsSlot DEF Finishing, Slot
  <2>3. OthersKept(w) /\ worker'[w] = s
      BY <2>1, <2>2, SetMoves DEF OthersKept
  <2>4. accepted' = accepted /\ charges' = charges
      BY <1>12 DEF CountUnsent, ReadBroadcast, Complete, walletVars, funds, settings, stamps, observed, meta
  <2> QED BY <2>2, <2>3, <2>4 DEF Moves, Quiet, Holds
<1>13. ASSUME WorkerFault(w) PROVE Moves(w)
    BY <1>13, QuietEnd DEF WorkerFault, walletVars, funds, settings, stamps, observed, meta
<1>14. ASSUME HandlerFault(w) PROVE Moves(w)
    BY <1>14, IdleIsSlot, SetMoves DEF HandlerFault, walletVars, funds, settings, stamps, observed, meta, Moves,
       OthersKept, Quiet, Holds
<1> QED
    BY <1>1, <1>2, <1>3, <1>4, <1>5, <1>6, <1>7, <1>8, <1>9, <1>10, <1>11, <1>12, <1>13, <1>14
    DEF Worker

LEMMA WorkerStepIsWalletStep ==
    ASSUME NEW w \in Workers, Worker(w) \/ WorkerFault(w) \/ HandlerFault(w), RecordsInv
    PROVE  [WalletNext]_walletVars
<1>1. CASE Charge(w)
  <2>1. worker[w].r \in Recipients
      BY <1>1 DEF Charge, At, RecordsInv, Holds, InJob, AfterAccept
  <2>2. ChargeAtSend(worker[w].r, Unit)
      BY <1>1 DEF Charge
  <2> QED BY <2>1, <2>2, ChargeIsWalletStep
<1>2. CASE ~Charge(w)
  <2>1. UNCHANGED walletVars
      BY <1>2 DEF Worker, WorkerFault, HandlerFault, TakeJob, SkipStopped, ReadRecipient, Gate, Close,
          CallMeta, MarkSent, Record, BurstPause, Exhausted, CountUnsent, ReadBroadcast, Complete
  <2> QED BY <2>1
<1> QED
    BY <1>1, <1>2

-----------------------------------------------------------------------------
(* What the other processes may do: nothing to the slots and to what Meta    *)
(* has accepted, and refunds at most to the wallet.                          *)

LEMMA FanMoves ==
    ASSUME NEW f \in Fans, Fan(f) \/ FanFault(f)
    PROVE  UNCHANGED <<walletVars, worker, hook, api, reaper, accepted>>
    BY DEF Fan, FanStart, FanPage, FanEnqueue, FanMark, FanCount, FanFail, FanFault, meta

LEMMA RefundKeepsCharges ==
    ASSUME NEW r, RefundFailedSend(r)
    PROVE  charges' = charges
    BY DEF RefundFailedSend, walletVars, funds, settings, stamps, observed

LEMMA HookMoves ==
    ASSUME RecordsInv, NEW h \in Hooks,
           HookRead(h) \/ HookWrite(h) \/ HookRefund(h) \/ HookFault(h)
    PROVE  /\ UNCHANGED <<worker, api, reaper, accepted, charges>>
           /\ hook' \in [Hooks -> HookSlot]
           /\ \A g \in Hooks : hook'[g].pc # "idle" => hook'[g].r \in Recipients
           /\ [WalletNext]_walletVars
<1> USE DEF RecordsInv
<1>0. IdleHook \in HookSlot /\ IdleHook.pc = "idle"
    BY DEF IdleHook, HookSlot
<1>1. CASE HookRead(h)
  <2>1. UNCHANGED <<worker, api, reaper, accepted, walletVars>>
      BY <1>1 DEF HookRead
  <2>2. CASE hook' = hook
      BY <2>1, <2>2 DEF walletVars, funds, settings, stamps, observed
  <2>3. CASE hook' # hook
    <3>1. PICK r \in Recipients, s \in {"delivered", "read", "failed"} :
              hook' = [hook EXCEPT ![h] = [pc |-> "write", r |-> r, s |-> s,
                           refund |-> s = "failed" /\ billed[r] /\ Undelivered(r)]]
        BY <1>1, <2>3 DEF HookRead
    <3> DEFINE t == [pc |-> "write", r |-> r, s |-> s,
                     refund |-> s = "failed" /\ billed[r] /\ Undelivered(r)]
    <3>2. t \in HookSlot /\ t.r \in Recipients
        BY DEF HookSlot
    <3> HIDE DEF t
    <3>3. hook' = [hook EXCEPT ![h] = t]
        BY <3>1 DEF t
    <3> QED BY <2>1, <3>2, <3>3 DEF walletVars, funds, settings, stamps, observed
  <2> QED BY <2>2, <2>3
<1>2. CASE HookWrite(h)
  <2>1. UNCHANGED <<worker, api, reaper, accepted, walletVars>> /\ hook[h].pc = "write"
      BY <1>2 DEF HookWrite, meta
  <2>2. CASE hook' = [hook EXCEPT ![h] = IdleHook]
      BY <1>0, <2>1, <2>2 DEF walletVars, funds, settings, stamps, observed
  <2>3. CASE hook' = [hook EXCEPT ![h] = [@ EXCEPT !.pc = "refund"]]
    <3> DEFINE t == [hook[h] EXCEPT !.pc = "refund"]
    <3>1. hook[h] \in HookSlot /\ hook[h].r \in Recipients
        BY <2>1
    <3>2. t \in HookSlot /\ t.r \in Recipients
        BY <3>1 DEF HookSlot
    <3>3. hook' = [hook EXCEPT ![h] = t]
        BY <2>3
    <3> HIDE DEF t
    <3> QED BY <2>1, <3>2, <3>3 DEF walletVars, funds, settings, stamps, observed
  <2> QED BY <1>2, <2>2, <2>3 DEF HookWrite
<1>3. CASE HookRefund(h)
  <2>1. hook[h].r \in Recipients /\ RefundFailedSend(hook[h].r)
      BY <1>3 DEF HookRefund
  <2> QED BY <1>0, <1>3, <2>1, RefundKeepsCharges, RefundIsWalletStep DEF HookRefund, meta
<1>4. CASE HookFault(h)
  <2>1. UNCHANGED <<worker, api, reaper, accepted, walletVars>> /\ hook[h].pc # "idle"
      BY <1>4 DEF HookFault, meta
  <2>2. CASE hook' = [hook EXCEPT ![h] = IdleHook]
      BY <1>0, <2>1, <2>2 DEF walletVars, funds, settings, stamps, observed
  <2>3. CASE hook' = [hook EXCEPT ![h].pc = "refund"]
    <3> DEFINE t == [hook[h] EXCEPT !.pc = "refund"]
    <3>1. hook[h] \in HookSlot /\ hook[h].r \in Recipients
        BY <2>1
    <3>2. t \in HookSlot /\ t.r \in Recipients
        BY <3>1 DEF HookSlot
    <3>3. hook' = [hook EXCEPT ![h] = t]
        BY <2>3
    <3> HIDE DEF t
    <3> QED BY <2>1, <3>2, <3>3 DEF walletVars, funds, settings, stamps, observed
  <2> QED BY <1>4, <2>2, <2>3 DEF HookFault
<1> QED
    BY <1>1, <1>2, <1>3, <1>4

LEMMA ApiMoves ==
    ASSUME RecordsInv, NEW a \in Apis, ApiRead(a) \/ Request(a) \/ ApiFault(a)
    PROVE  /\ UNCHANGED <<worker, hook, reaper, accepted, charges>>
           /\ api' \in [Apis -> ApiSlot]
           /\ [WalletNext]_walletVars
<1> USE DEF RecordsInv
<1>0. IdleApi \in ApiSlot /\ api[a] \in ApiSlot
    BY DEF IdleApi, ApiSlot
<1>1. CASE ApiRead(a)
  <2>1. PICK op \in Ops, owed \in SUBSET Recipients, pc \in {"write", "refund"} :
            api' = [api EXCEPT ![a] = [pc |-> pc, op |-> op, rs |-> owed]]
    <3>1. PICK op \in Ops :
              LET owed == IF op = "rerun" THEN {r \in Failed : Refundable(r)} ELSE {} IN
              api' = [api EXCEPT ![a] = [pc |-> IF owed = {} THEN "write" ELSE "refund",
                                        op |-> op, rs |-> owed]]
        BY <1>1 DEF ApiRead
    <3> DEFINE owed == IF op = "rerun" THEN {r \in Failed : Refundable(r)} ELSE {}
    <3>2. owed \subseteq Recipients
        BY DEF Failed
    <3> HIDE DEF owed
    <3>3. api' = [api EXCEPT ![a] = [pc |-> IF owed = {} THEN "write" ELSE "refund",
                                     op |-> op, rs |-> owed]]
        BY <3>1 DEF owed
    <3> QED BY <3>2, <3>3
  <2>2. [pc |-> pc, op |-> op, rs |-> owed] \in ApiSlot
      BY DEF ApiSlot
  <2> QED BY <1>1, <2>1, <2>2 DEF ApiRead, walletVars, funds, settings, stamps, observed, meta
<1>2. CASE ApiRefund(a)
  <2>1. PICK r \in api[a].rs :
            /\ RefundFailedSend(r) \/ UNCHANGED walletVars
            /\ api' = [api EXCEPT ![a] =
                [pc |-> IF api[a].rs = {r} THEN "write" ELSE "refund", op |-> api[a].op,
                 rs |-> api[a].rs \ {r}]]
      BY <1>2 DEF ApiRefund
  <2>2. r \in Recipients
      BY <1>0 DEF ApiSlot
  <2>3. [pc |-> IF api[a].rs = {r} THEN "write" ELSE "refund", op |-> api[a].op,
         rs |-> api[a].rs \ {r}] \in ApiSlot
      BY <1>0 DEF ApiSlot
  <2>4. charges' = charges /\ [WalletNext]_walletVars
      BY <2>1, <2>2, RefundKeepsCharges, RefundIsWalletStep DEF walletVars, funds, settings, stamps, observed
  <2> QED BY <1>2, <2>1, <2>3, <2>4 DEF ApiRefund, meta
<1>3. ASSUME NEW pc \in {"enqueue", "dequeue"}, api' = [api EXCEPT ![a].pc = pc]
      PROVE  api' \in [Apis -> ApiSlot]
  <2> DEFINE t == [api[a] EXCEPT !.pc = pc]
  <2>1. t \in ApiSlot
      BY <1>0 DEF ApiSlot
  <2>2. api' = [api EXCEPT ![a] = t]
      BY <1>3
  <2> HIDE DEF t
  <2> QED BY <2>1, <2>2
<1>4. CASE ApiRerun(a)
  <2>1. Failed \in SUBSET Recipients
      BY DEF Failed
  <2>2. RearmBilling(Failed)
      BY <1>4 DEF ApiRerun
  <2>3. charges' = charges
      BY <2>2 DEF RearmBilling
  <2>4. api' = [api EXCEPT ![a] = IdleApi] \/ api' = [api EXCEPT ![a].pc = "enqueue"]
      BY <1>4 DEF ApiRerun
  <2> QED BY <1>0, <1>3, <1>4, <2>1, <2>2, <2>3, <2>4, RearmIsWalletStep DEF ApiRerun, meta
<1>5. CASE ApiPause(a) \/ ApiEnqueue(a) \/ ApiDequeue(a) \/ ApiFault(a)
    BY <1>0, <1>5
       DEF ApiPause, ApiEnqueue, ApiDequeue, ApiFault, walletVars, funds, settings, stamps, observed, meta
<1>6. CASE ApiResume(a) \/ ApiCancel(a)
    BY <1>3, <1>6 DEF ApiResume, ApiCancel, walletVars, funds, settings, stamps, observed, meta
<1> QED
    BY <1>1, <1>2, <1>4, <1>5, <1>6 DEF Request

LEMMA ReaperMoves ==
    ASSUME RecordsInv, NEW p \in Reapers, Reap(p) \/ ReaperFault(p)
    PROVE  /\ UNCHANGED <<worker, hook, api, accepted, charges>>
           /\ reaper' \in [Reapers -> ReaperSlot]
           /\ [WalletNext]_walletVars
<1> USE DEF RecordsInv
<1>0. IdleReaper \in ReaperSlot /\ reaper[p] \in ReaperSlot
    BY DEF IdleReaper, ReaperSlot
<1>1. CASE ReaperSweep(p)
  <2> DEFINE owed == {r \in Recipients : Owed(r)}
             t == [pc |-> IF owed = {} THEN "find" ELSE "refund", rs |-> owed]
  <2>1. t \in ReaperSlot
      BY DEF ReaperSlot
  <2>2. reaper' = [reaper EXCEPT ![p] = t]
      BY <1>1 DEF ReaperSweep
  <2> HIDE DEF t
  <2> QED BY <1>1, <2>1, <2>2 DEF ReaperSweep, walletVars, funds, settings, stamps, observed, meta
<1>2. CASE ReaperRefund(p)
  <2>1. PICK r \in reaper[p].rs :
            /\ RefundFailedSend(r)
            /\ reaper' = [reaper EXCEPT ![p] =
                [pc |-> IF reaper[p].rs = {r} THEN "find" ELSE "refund", rs |-> reaper[p].rs \ {r}]]
      BY <1>2 DEF ReaperRefund
  <2>2. r \in Recipients
      BY <1>0 DEF ReaperSlot
  <2>3. [pc |-> IF reaper[p].rs = {r} THEN "find" ELSE "refund",
         rs |-> reaper[p].rs \ {r}] \in ReaperSlot
      BY <1>0 DEF ReaperSlot
  <2> QED BY <1>2, <2>1, <2>2, <2>3, RefundKeepsCharges, RefundIsWalletStep
          DEF ReaperRefund, meta
<1>3. ASSUME NEW pc \in {"skip", "idle", "complete"}, reaper' = [reaper EXCEPT ![p].pc = pc]
      PROVE  reaper' \in [Reapers -> ReaperSlot]
  <2> DEFINE t == [reaper[p] EXCEPT !.pc = pc]
  <2>1. t \in ReaperSlot
      BY <1>0 DEF ReaperSlot
  <2>2. reaper' = [reaper EXCEPT ![p] = t]
      BY <1>3
  <2> HIDE DEF t
  <2> QED BY <2>1, <2>2
<1>4. CASE ReaperFind(p) \/ ReaperSkip(p)
    BY <1>3, <1>4 DEF ReaperFind, ReaperSkip, walletVars, funds, settings, stamps, observed, meta
<1>5. CASE ReaperComplete(p) \/ ReaperFault(p)
    BY <1>0, <1>5 DEF ReaperComplete, ReaperFault, walletVars, funds, settings, stamps, observed, meta
<1> QED
    BY <1>1, <1>2, <1>4, <1>5 DEF Reap

-----------------------------------------------------------------------------
(* The invariant of the records, and the refinement.                         *)

LEMMA InitRecords == Init => RecordsInv
<1> SUFFICES ASSUME Init PROVE RecordsInv
    OBVIOUS
<1>1. worker \in [Workers -> Slot] /\ \A w \in Workers : Holds(worker[w])
    BY IdleIsSlot DEF Init, Holds, InJob, AfterAccept
<1>2. accepted \in [Recipients -> Nat]
    BY DEF Init
<1>3. hook \in [Hooks -> HookSlot] /\ \A h \in Hooks : hook[h].pc = "idle"
    BY DEF Init, IdleHook, HookSlot
<1>4. api \in [Apis -> ApiSlot] /\ reaper \in [Reapers -> ReaperSlot]
    BY DEF Init, IdleApi, ApiSlot, IdleReaper, ReaperSlot
<1> QED
    BY <1>1, <1>2, <1>3, <1>4 DEF RecordsInv

\* A step is one slot's, or leaves the slots, what is accepted and what is
\* charged alone; and it keeps the records and the wallet's specification.
Leaves == UNCHANGED <<worker, accepted, charges>>

LEMMA StepSummary ==
    ASSUME RecordsInv, Step
    PROVE  /\ RecordsInv'
           /\ [WalletNext]_walletVars
           /\ Leaves \/ \E w \in Workers : Moves(w)
<1> DEFINE Summary == /\ RecordsInv'
                      /\ [WalletNext]_walletVars
                      /\ Leaves \/ \E w \in Workers : Moves(w)
<1>1. ASSUME NEW w \in Workers, Worker(w) \/ WorkerFault(w) \/ HandlerFault(w) PROVE Summary
  <2>1. Moves(w)
      BY <1>1, WorkerMoves
  <2>2. UNCHANGED <<hook, api, reaper>>
      BY <1>1 DEF Worker, WorkerFault, HandlerFault, TakeJob, SkipStopped, ReadRecipient, Gate, Close,
          CallMeta, MarkSent, Charge, Record, BurstPause, Exhausted, CountUnsent,
          ReadBroadcast, Complete, Elsewhere
  <2>3. accepted' \in [Recipients -> Nat]
      BY <2>1 DEF Moves, Quiet, Accepts, Pays, RecordsInv
  <2>4. \A v \in Workers : Holds(worker'[v])
      BY <2>1 DEF Moves, OthersKept, RecordsInv
  <2>5. RecordsInv'
      BY <2>1, <2>2, <2>3, <2>4 DEF Moves, OthersKept, RecordsInv, Holds
  <2> QED BY <1>1, <2>1, <2>5, WorkerStepIsWalletStep
<1>2. ASSUME NEW f \in Fans, Fan(f) \/ FanFault(f) PROVE Summary
    BY <1>2, FanMoves DEF RecordsInv, Leaves, walletVars, funds, settings, stamps, observed, Holds
<1>3. ASSUME NEW h \in Hooks,
             HookRead(h) \/ HookWrite(h) \/ HookRefund(h) \/ HookFault(h)
      PROVE  Summary
    BY <1>3, HookMoves DEF RecordsInv, Leaves, Holds
<1>4. ASSUME NEW a \in Apis, ApiRead(a) \/ Request(a) \/ ApiFault(a) PROVE Summary
    BY <1>4, ApiMoves DEF RecordsInv, Leaves, Holds
<1>5. ASSUME NEW p \in Reapers, Reap(p) \/ ReaperFault(p) PROVE Summary
    BY <1>5, ReaperMoves DEF RecordsInv, Leaves, Holds
<1> QED
    BY <1>1, <1>2, <1>3, <1>4, <1>5 DEF Step

LEMMA RecordsNext ==
    ASSUME RecordsInv, [Next]_vars
    PROVE  RecordsInv' /\ [WalletNext]_walletVars
<1>1. CASE Next
    BY <1>1, StepSummary DEF Next
<1>2. CASE UNCHANGED vars
    BY <1>2 DEF vars, meta, RecordsInv, Holds
<1> QED
    BY <1>1, <1>2

(* Sending implements the wallet: every behaviour of the broadcast is, for   *)
(* the wallet's rows, a behaviour of the wallet's specification, whatever    *)
(* the workers, webhooks, operators and reapers interleave (broadcast-send   *)
(* .ts charges and the three refund paths).                                  *)
THEOREM SendingUsesTheWallet == Spec => WalletSpec
<1>1. Init => WalletInit /\ RecordsInv
    BY InitIsWalletInit, InitRecords
<1>2. RecordsInv /\ [Next]_vars => RecordsInv' /\ [WalletNext]_walletVars
    BY RecordsNext
<1> QED
    BY <1>1, <1>2, PTL DEF Spec, WalletSpec

(* Hence what is proved of the wallet holds under every broadcast: its       *)
(* balance is never negative and its charges are returned at most once       *)
(* (chargeAtSend, refundFailedSend).                                         *)
THEOREM WalletHoldsWhileSending ==
    Spec => [](WalletTypeOK /\ LedgerReconciles /\ ChargedOncePerArming)
  BY SendingUsesTheWallet, WalletTypes, WalletReconciles, WalletChargesOnce, PTL

-----------------------------------------------------------------------------
(* Debits follow acceptance.                                                 *)

PaidInv ==
    /\ RecordsInv
    /\ charges \in [Recipients -> Nat]
    /\ ChargesBackedByAccept

LEMMA SomeSlots ==
    ASSUME NEW S \in SUBSET Workers
    PROVE  IsFiniteSet(S) /\ Cardinality(S) \in Nat /\ Cardinality(S) <= Cardinality(Workers)
    BY SlotsAssumption, FS_Subset, FS_CardinalityType

LEMMA SlotPays ==
    ASSUME PaidInv, NEW w \in Workers, Moves(w), NEW r \in Recipients
    PROVE  charges'[r] + Cardinality(Unpaid(r)') <= accepted'[r]
<1> DEFINE S == Unpaid(r)
           T == Unpaid(r)'
<1> USE DEF PaidInv, RecordsInv, Paying
<1>1. S \in SUBSET Workers /\ T \in SUBSET Workers
    BY DEF Unpaid
<1>2. \A v \in Workers \ {w} : v \in T <=> v \in S
    BY DEF Unpaid, Moves, OthersKept
<1>3. w \in T <=> worker'[w].r = r /\ worker'[w].pc \in Paying
    BY DEF Unpaid
<1>4. w \in S <=> worker[w].r = r /\ worker[w].pc \in Paying
    BY DEF Unpaid
<1>5. charges[r] + Cardinality(S) <= accepted[r]
    BY DEF ChargesBackedByAccept
<1>6. IsFiniteSet(S) /\ Cardinality(S) \in Nat /\ Cardinality(T) \in Nat
    BY <1>1, SomeSlots
<1>7. charges[r] \in Nat /\ accepted[r] \in Nat
    OBVIOUS
<1> HIDE DEF S, T
<1>8. CASE Quiet(w)
  <2>1. T \subseteq S
      BY <1>1, <1>2, <1>3, <1>4, <1>8 DEF Quiet
  <2>2. Cardinality(T) <= Cardinality(S)
      BY <1>6, <2>1, FS_Subset
  <2> QED BY <1>5, <1>6, <1>7, <1>8, <2>2 DEF Quiet, T
<1>9. CASE Accepts(w)
  <2>1. charges'[r] = charges[r]
      BY <1>9 DEF Accepts
  <2>2. CASE worker[w].r = r
    <3>1. T \subseteq S \cup {w}
        BY <1>1, <1>2
    <3>2. IsFiniteSet(S \cup {w}) /\ Cardinality(S \cup {w}) <= Cardinality(S) + 1
      <4>1. /\ IsFiniteSet(S \cup {w})
            /\ Cardinality(S \cup {w}) = IF w \in S THEN Cardinality(S) ELSE Cardinality(S) + 1
          BY <1>6, FS_AddElement, Zenon
      <4> QED BY <1>6, <4>1
    <3>3. Cardinality(S \cup {w}) \in Nat /\ Cardinality(T) <= Cardinality(S \cup {w})
        BY <3>1, <3>2, FS_Subset, FS_CardinalityType
    <3>4. accepted'[r] = accepted[r] + 1
        BY <1>9, <2>2 DEF Accepts
    <3> QED BY <1>5, <1>6, <1>7, <2>1, <3>2, <3>3, <3>4 DEF T
  <2>3. CASE worker[w].r # r
    <3>1. T \subseteq S
        BY <1>1, <1>2, <1>3, <1>9, <2>3 DEF Accepts
    <3>2. Cardinality(T) <= Cardinality(S)
        BY <1>6, <3>1, FS_Subset
    <3>3. accepted'[r] = accepted[r]
        BY <1>9, <2>3 DEF Accepts
    <3> QED BY <1>5, <1>6, <1>7, <2>1, <3>2, <3>3 DEF T
  <2> QED BY <2>2, <2>3
<1>10. CASE Pays(w)
  <2>1. w \notin T /\ accepted'[r] = accepted[r]
      BY <1>3, <1>10 DEF Pays
  <2>2. CASE worker[w].r = r
    <3>1. w \in S /\ T \subseteq S \ {w}
        BY <1>1, <1>2, <1>4, <1>10, <2>1, <2>2 DEF Pays
    <3>2. IsFiniteSet(S \ {w}) /\ Cardinality(S \ {w}) = Cardinality(S) - 1
        BY <1>6, <3>1, FS_RemoveElement
    <3>3. Cardinality(T) <= Cardinality(S) - 1
        BY <3>1, <3>2, FS_Subset
    <3>4. charges'[r] \in {charges[r], charges[r] + 1}
        BY <1>10, <2>2 DEF Pays
    <3> QED BY <1>5, <1>6, <1>7, <2>1, <3>3, <3>4 DEF T
  <2>3. CASE worker[w].r # r
    <3>1. T \subseteq S
        BY <1>1, <1>2, <2>1
    <3>2. Cardinality(T) <= Cardinality(S)
        BY <1>6, <3>1, FS_Subset
    <3>3. charges'[r] = charges[r]
        BY <1>10, <2>3 DEF Pays
    <3> QED BY <1>5, <1>6, <1>7, <2>1, <3>2, <3>3 DEF T
  <2> QED BY <2>2, <2>3
<1> QED
    BY <1>8, <1>9, <1>10 DEF Moves

LEMMA PaidNext ==
    ASSUME PaidInv, [Next]_vars
    PROVE  PaidInv'
<1>1. RecordsInv'
    BY RecordsNext DEF PaidInv
<1>2. Leaves \/ \E w \in Workers : Moves(w)
    BY StepSummary DEF PaidInv, Next, vars, walletVars, funds, settings, stamps, observed, meta, Leaves
<1>3. CASE Leaves
    BY <1>1, <1>3 DEF PaidInv, ChargesBackedByAccept, Unpaid, Leaves
<1>4. ASSUME NEW w \in Workers, Moves(w) PROVE PaidInv'
  <2>1. charges' \in [Recipients -> Nat]
      BY <1>4 DEF Moves, Quiet, Accepts, Pays, PaidInv
  <2>2. ChargesBackedByAccept'
      BY <1>4, SlotPays DEF ChargesBackedByAccept
  <2> QED BY <1>1, <2>1, <2>2 DEF PaidInv
<1> QED
    BY <1>2, <1>3, <1>4

(* A recipient is never charged more often than Meta accepted a message to   *)
(* it, with any number of slots, duplicate jobs, retries and re-runs: the    *)
(* charge follows out.ok in broadcast-send.ts, once per accepted message.    *)
THEOREM DebitsFollowAcceptance == Spec => []ChargesBackedByAccept
<1>1. Init => PaidInv
  <2> SUFFICES ASSUME Init PROVE PaidInv
      OBVIOUS
  <2>1. \A r \in Recipients : Unpaid(r) = {}
      BY DEF Init, Unpaid, Idle
  <2>2. Cardinality({}) = 0
      BY FS_EmptySet
  <2>3. charges = [r \in Recipients |-> 0] /\ accepted = [r \in Recipients |-> 0]
      BY InitIsWalletInit DEF Init, WalletInit
  <2> QED BY <2>1, <2>2, <2>3, InitRecords DEF PaidInv, ChargesBackedByAccept
<1>2. PaidInv /\ [Next]_vars => PaidInv'
    BY PaidNext
<1>3. PaidInv => ChargesBackedByAccept
    BY DEF PaidInv
<1> QED
    BY <1>1, <1>2, <1>3, PTL DEF Spec

-----------------------------------------------------------------------------
(* A stop is prompt.                                                         *)

StopInv ==
    /\ RecordsInv
    /\ late \in Nat
    /\ status \notin Halting => late = 0
    /\ StopIsPrompt

LEMMA StopNext ==
    ASSUME StopInv, [Next]_vars
    PROVE  StopInv'
<1> USE DEF StopInv
<1>1. RecordsInv'
    BY RecordsNext
<1>2. CASE UNCHANGED vars
    BY <1>1, <1>2 DEF vars, StopIsPrompt, Underway
<1>3. CASE Next
  <2> DEFINE U == Underway
             V == Underway'
  <2>1. U \in SUBSET Workers /\ V \in SUBSET Workers
      BY DEF Underway
  <2>2. /\ IsFiniteSet(U) /\ Cardinality(U) \in Nat /\ Cardinality(V) \in Nat
        /\ Cardinality(V) <= Cardinality(Workers)
        /\ Cardinality(Workers) \in Nat
      BY <2>1, SomeSlots, SlotsAssumption, FS_CardinalityType
  <2>3. late' = IF status' \notin Halting THEN 0
                ELSE late + IF status \in Halting /\ accepted' # accepted THEN 1 ELSE 0
      BY <1>3 DEF Next, Observe
  <2>4. status \in Halting => late + Cardinality(U) <= Cardinality(Workers)
      BY DEF StopIsPrompt
  <2>5. status \in Halting =>
            Cardinality(V) <= Cardinality(U) - IF accepted' # accepted THEN 1 ELSE 0
    <3> SUFFICES ASSUME status \in Halting
                 PROVE  Cardinality(V) <= Cardinality(U) - IF accepted' # accepted THEN 1 ELSE 0
        OBVIOUS
    <3>1. CASE Leaves
        BY <2>2, <3>1 DEF Leaves, Underway
    <3>2. ASSUME NEW w \in Workers, Moves(w), Quiet(w) \/ Pays(w)
          PROVE  Cardinality(V) <= Cardinality(U) - IF accepted' # accepted THEN 1 ELSE 0
      <4>1. V \subseteq U
          BY <3>2 DEF Underway, Moves, OthersKept, Quiet, Pays, Sending
      <4>2. Cardinality(V) <= Cardinality(U)
          BY <2>2, <4>1, FS_Subset
      <4>3. accepted' = accepted
          BY <3>2 DEF Quiet, Pays
      <4> QED BY <2>2, <4>2, <4>3
    <3>3. ASSUME NEW w \in Workers, Moves(w), Accepts(w)
          PROVE  Cardinality(V) <= Cardinality(U) - IF accepted' # accepted THEN 1 ELSE 0
      <4>1. w \in U /\ V \subseteq U \ {w}
          BY <3>3 DEF Underway, Moves, OthersKept, Accepts, Sending
      <4>2. IsFiniteSet(U \ {w}) /\ Cardinality(U \ {w}) = Cardinality(U) - 1
          BY <2>2, <4>1, FS_RemoveElement
      <4>3. Cardinality(V) <= Cardinality(U) - 1
          BY <4>1, <4>2, FS_Subset
      <4> QED BY <2>2, <4>3
    <3> QED BY <1>3, <3>1, <3>2, <3>3, StepSummary DEF Next, Moves
  <2> HIDE DEF U, V
  <2>6. late' \in Nat /\ (status' \notin Halting => late' = 0)
      BY <2>3
  <2>7. status' \in Halting => late' + Cardinality(V) <= Cardinality(Workers)
      BY <2>2, <2>3, <2>4, <2>5
  <2>8. StopIsPrompt'
      BY <2>7 DEF StopIsPrompt, V
  <2> QED BY <1>1, <2>6, <2>8
<1> QED
    BY <1>2, <1>3

(* However many jobs wait, retry or are enqueued late, a broadcast that is   *)
(* paused, cancelled or completed lets out at most one message per slot, the *)
(* one the slot had in hand (the status check of broadcast-send.ts).         *)
THEOREM StopsArePrompt == Spec => []StopIsPrompt
<1>1. Init => StopInv
    BY InitRecords DEF Init, StopInv, StopIsPrompt, Halting
<1>2. StopInv /\ [Next]_vars => StopInv'
    BY StopNext
<1>3. StopInv => StopIsPrompt
    BY DEF StopInv
<1> QED
    BY <1>1, <1>2, <1>3, PTL DEF Spec

-----------------------------------------------------------------------------
(* A settled recipient is left alone.                                        *)

Committing == {"gate", "call"}

\* A slot commits itself to a recipient only on reading a row that is not handled.
LEMMA CommitMoves ==
    ASSUME RecordsInv, NEW w \in Workers, Worker(w) \/ WorkerFault(w) \/ HandlerFault(w)
    PROVE  worker'[w].pc \in Committing =>
               /\ worker'[w].r = worker[w].r
               /\ \/ worker[w].pc \in Committing
                  \/ rstatus[worker[w].r] \notin Handled
<1> USE DEF RecordsInv, Committing
<1> DEFINE Free == worker'[w].pc \notin Committing
           Kept == /\ worker'[w].r = worker[w].r
                   /\ worker[w].pc \in Committing \/ rstatus[worker[w].r] \notin Handled
<1>1. ASSUME NEW pc \in Stage \ Committing, Goto(w, pc) PROVE Free
  BY <1>1, GotoMoves
<1>2. ASSUME FailAttempt(w) \/ GiveBack(w) PROVE Free
  BY <1>2, FailAttemptMoves, GiveBackMoves, IdleIsSlot
<1>3. ASSUME NEW s \in {Idle, Finishing("finish"), Finishing("complete")},
             worker' = [worker EXCEPT ![w] = s]
      PROVE  Free
  BY <1>3, IdleIsSlot DEF Finishing
<1>4. CASE TakeJob(w)
  <2>1. PICK pc \in {"skip", "recipient"}, r \in Recipients, k \in 0 .. Attempts - 1 :
            worker' = [worker EXCEPT ![w] = [pc |-> pc, r |-> r, k |-> k, m |-> 0]]
    BY <1>4 DEF TakeJob
  <2> QED
    BY <2>1
<1>5. CASE ReadRecipient(w)
  <2>1. CASE rstatus[worker[w].r] \in Handled
    BY <1>1, <1>5, <2>1 DEF ReadRecipient, Stage, InJob
  <2>2. CASE rstatus[worker[w].r] \notin Handled /\ worker[w].r \in OptedOut
    BY <1>1, <1>5, <2>2 DEF ReadRecipient, Stage, InJob
  <2>3. CASE rstatus[worker[w].r] \notin Handled /\ worker[w].r \notin OptedOut
    BY <1>5, <2>3, GotoMoves DEF ReadRecipient, Stage, InJob
  <2> QED
    BY <2>1, <2>2, <2>3
<1>6. CASE Gate(w)
  <2>1. worker[w].pc = "gate"
    BY <1>6 DEF Gate, At
  <2>2. CASE Goto(w, "call")
    BY <2>1, <2>2, GotoMoves DEF Stage, InJob
  <2> QED
    BY <1>1, <1>2, <1>6, <2>2 DEF Gate, Stage, InJob
<1>7. CASE CallMeta(w)
  <2>1. CASE \E r, k, m : worker' = [worker EXCEPT ![w] = [pc |-> "sent", r |-> r, k |-> k, m |-> m]]
    BY <2>1
  <2> QED
    BY <1>1, <1>2, <1>7, <2>1 DEF CallMeta, Stage, InJob
<1>8. CASE SkipStopped(w) \/ MarkSent(w) \/ Charge(w) \/ Record(w) \/ BurstPause(w)
  BY <1>1, <1>8 DEF SkipStopped, MarkSent, Charge, Record, BurstPause, Stage, InJob, AfterAccept
<1>9. CASE Close(w)
  BY <1>1, <1>9 DEF Close, Stage, InJob
<1>10. CASE Exhausted(w) \/ CountUnsent(w) \/ ReadBroadcast(w) \/ Complete(w) \/ HandlerFault(w)
  BY <1>3, <1>10 DEF Exhausted, CountUnsent, ReadBroadcast, Complete, HandlerFault
<1>11. CASE WorkerFault(w)
  BY <1>2, <1>11 DEF WorkerFault
<1> QED
  BY <1>4, <1>5, <1>6, <1>7, <1>8, <1>9, <1>10, <1>11 DEF Worker

\* The count starts over whenever a row is not settled.
LeftInv ==
    /\ RecordsInv
    /\ again \in [Recipients -> Nat]
    /\ \A r \in Recipients : rstatus[r] \notin Handled => again[r] = 0
    /\ SettledIsLeftAlone

\* Where the row is settled, a message spends a slot that had passed the check.
LEMMA CommittedSpent ==
    ASSUME RecordsInv, Step, NEW r \in Recipients, rstatus[r] \in Handled
    PROVE  /\ accepted'[r] - accepted[r] \in Nat
           /\ Cardinality(Committed(r)') + (accepted'[r] - accepted[r]) <= Cardinality(Committed(r))
<1> USE DEF RecordsInv
<1> DEFINE S == Committed(r)
           T == Committed(r)'
<1>1. S \in SUBSET Workers /\ T \in SUBSET Workers
  BY DEF Committed
<1>2. IsFiniteSet(S) /\ Cardinality(S) \in Nat /\ Cardinality(T) \in Nat
  BY <1>1, SomeSlots
<1>3. accepted[r] \in Nat
  OBVIOUS
<1>4. ASSUME UNCHANGED <<worker, accepted>>
      PROVE  Cardinality(T) <= Cardinality(S) /\ accepted'[r] = accepted[r]
  BY <1>2, <1>4 DEF Committed
<1>5. ASSUME NEW w \in Workers, Worker(w) \/ WorkerFault(w) \/ HandlerFault(w)
      PROVE  \/ Cardinality(T) <= Cardinality(S) /\ accepted'[r] = accepted[r]
             \/ Cardinality(T) <= Cardinality(S) - 1 /\ accepted'[r] = accepted[r] + 1
  <2>1. Moves(w)
    BY <1>5, WorkerMoves
  <2>2. T \subseteq S
    BY <1>5, <2>1, CommitMoves DEF Moves, OthersKept, Committed, Committing
  <2>3. Cardinality(T) <= Cardinality(S)
    BY <1>2, <2>2, FS_Subset
  <2>4. CASE Accepts(w) /\ worker[w].r = r
    <3>1. w \in S /\ T \subseteq S \ {w}
      BY <2>2, <2>4 DEF Accepts, Committed, Sending
    <3>2. IsFiniteSet(S \ {w}) /\ Cardinality(S \ {w}) = Cardinality(S) - 1
      BY <1>2, <3>1, FS_RemoveElement
    <3>3. Cardinality(T) <= Cardinality(S) - 1
      BY <3>1, <3>2, FS_Subset
    <3> QED
      BY <2>4, <3>3 DEF Accepts
  <2>5. CASE ~(Accepts(w) /\ worker[w].r = r)
    <3>1. accepted'[r] = accepted[r]
      BY <2>1, <2>5 DEF Moves, Quiet, Accepts, Pays
    <3> QED
      BY <2>3, <3>1
  <2> QED
    BY <2>4, <2>5
<1>6. UNCHANGED <<worker, accepted>> \/ \E w \in Workers : Worker(w) \/ WorkerFault(w) \/ HandlerFault(w)
  BY FanMoves, HookMoves, ApiMoves, ReaperMoves DEF Step
<1> HIDE DEF S, T
<1>7. /\ accepted'[r] - accepted[r] \in Nat
      /\ Cardinality(T) + (accepted'[r] - accepted[r]) <= Cardinality(S)
  BY <1>2, <1>3, <1>4, <1>5, <1>6
<1> QED
  BY <1>7 DEF S, T

LEMMA LeftNext ==
    ASSUME LeftInv, [Next]_vars
    PROVE  LeftInv'
<1> USE DEF LeftInv
<1>1. RecordsInv'
  BY RecordsNext
<1>2. CASE UNCHANGED vars
  BY <1>1, <1>2 DEF vars, rows, SettledIsLeftAlone, Committed
<1>3. CASE Next
  <2>1. again' = [r \in Recipients |->
            IF rstatus'[r] \notin Handled THEN 0
            ELSE again[r] + IF rstatus[r] \in Handled THEN accepted'[r] - accepted[r] ELSE 0]
    BY <1>3 DEF Next, Observe
  <2>2. ASSUME NEW r \in Recipients
        PROVE  /\ again'[r] \in Nat
               /\ rstatus'[r] \notin Handled => again'[r] = 0
               /\ rstatus'[r] \in Handled =>
                     again'[r] + Cardinality(Committed(r)') <= Cardinality(Workers)
    <3>1. again[r] \in Nat
      OBVIOUS
    <3>2. Committed(r) \in SUBSET Workers /\ Committed(r)' \in SUBSET Workers
      BY DEF Committed
    <3>3. /\ Cardinality(Committed(r)) \in Nat
          /\ Cardinality(Committed(r)') \in Nat /\ Cardinality(Committed(r)') <= Cardinality(Workers)
          /\ Cardinality(Workers) \in Nat
      BY <3>2, SomeSlots, SlotsAssumption, FS_CardinalityType
    <3>4. CASE rstatus[r] \in Handled
      <4>1. again[r] + Cardinality(Committed(r)) <= Cardinality(Workers)
        BY <3>4 DEF SettledIsLeftAlone
      <4>2. /\ accepted'[r] - accepted[r] \in Nat
            /\ Cardinality(Committed(r)') + (accepted'[r] - accepted[r]) <= Cardinality(Committed(r))
        BY <1>3, <3>4, CommittedSpent DEF Next
      <4>3. again'[r] = IF rstatus'[r] \notin Handled THEN 0 ELSE again[r] + (accepted'[r] - accepted[r])
        BY <2>1, <3>4
      <4> QED
        BY <3>1, <3>3, <4>1, <4>2, <4>3
    <3>5. CASE rstatus[r] \notin Handled
      <4>1. again'[r] = 0
        BY <2>1, <3>5
      <4> QED
        BY <3>3, <4>1
    <3> QED
      BY <3>4, <3>5
  <2>3. again' \in [Recipients -> Nat]
    <3>1. again' = [r \in Recipients |-> again'[r]]
      BY <2>1, Zenon
    <3> QED
      BY <2>2, <3>1
  <2> QED
    BY <1>1, <2>2, <2>3 DEF SettledIsLeftAlone
<1> QED
  BY <1>2, <1>3

(* A recipient whose row is settled gets no more messages than the slots that *)
(* had already passed the check of its row, with any number of duplicate jobs,*)
(* retries and webhooks (broadcast-send.ts, "Already handled (terminal)").    *)
THEOREM SettledAreLeftAlone == Spec => []SettledIsLeftAlone
<1>1. Init => LeftInv
  BY InitRecords DEF Init, LeftInv, SettledIsLeftAlone, Handled
<1>2. LeftInv /\ [Next]_vars => LeftInv'
  BY LeftNext
<1>3. LeftInv => SettledIsLeftAlone
  BY DEF LeftInv
<1> QED
  BY <1>1, <1>2, <1>3, PTL DEF Spec

-----------------------------------------------------------------------------
(* A message is billed.                                                      *)

Served == {"sent", "delivered", "read"}

\* The bill of a recipient's message is settled, excused, or a slot has it in hand.
Accounted(r) ==
    \/ billed[r]
    \/ r \in dry \cup excused
    \/ \E w \in Workers : worker[w].r = r /\ At(w, "charge")

\* The message number tells a served recipient: it is written with the first 'sent',
\* a webhook finds the row by it, and it stays when the row is closed or skipped.
BillInv ==
    /\ RecordsInv
    /\ billed \in [Recipients -> BOOLEAN]
    /\ wamid \in [Recipients -> Int]
    /\ \A w \in Workers : At(w, "sent") => worker[w].m # 0
    /\ \A h \in Hooks : hook[h].pc = "write" => wamid[hook[h].r] # 0
    /\ \A r \in Recipients : rstatus[r] \in Served => wamid[r] # 0
    /\ \A r \in Recipients : wamid[r] # 0 => Accounted(r)

\* Nothing is taken back of what excuses a recipient.
Kept ==
    /\ billed' \in [Recipients -> BOOLEAN]
    /\ \A r \in Recipients : billed[r] => billed'[r]
    /\ dry \subseteq dry' /\ excused \subseteq excused'

\* A slot gives a message its number as it takes its bill in hand, and hands the
\* bill over only to the wallet or to an excuse.
Bills(w) ==
    /\ Kept
    /\ worker'[w].pc = "sent" => worker'[w].m # 0
    /\ worker[w].pc = "charge" => billed'[worker[w].r] \/ worker[w].r \in dry' \cup excused'
    /\ \/ /\ wamid' = wamid
          /\ \A r \in Recipients : rstatus'[r] \in Served => rstatus[r] \in Served
       \/ /\ worker[w].pc = "sent" /\ worker'[w].pc = "charge" /\ worker'[w].r = worker[w].r
          /\ wamid' = [wamid EXCEPT ![worker[w].r] = worker[w].m]
          /\ \A r \in Recipients \ {worker[w].r} : rstatus'[r] = rstatus[r]

LEMMA KeptWhenUnchanged ==
    ASSUME billed \in [Recipients -> BOOLEAN], UNCHANGED <<walletVars, tally>>
    PROVE  Kept
  BY DEF Kept, walletVars, funds, settings, stamps, observed, tally

\* A row that is marked with anything else is not served by it.
LEMMA MarkServes ==
    ASSUME NEW rs, NEW s \in RStatus \ Served, Mark(rs, s)
    PROVE  \A r \in Recipients : rstatus'[r] \in Served => rstatus[r] \in Served
  BY DEF Mark, Served, RStatus

LEMMA WorkerBills ==
    ASSUME BillInv, NEW w \in Workers, Worker(w) \/ WorkerFault(w) \/ HandlerFault(w)
    PROVE  Bills(w)
<1> USE DEF BillInv, RecordsInv
<1> DEFINE Free == worker'[w].pc # "sent"
<1>1. ASSUME NEW pc \in Stage \ {"sent"}, Goto(w, pc) PROVE Free
  BY <1>1, GotoMoves
<1>2. ASSUME FailAttempt(w) \/ GiveBack(w) PROVE Free
  BY <1>2, FailAttemptMoves, GiveBackMoves, IdleIsSlot
<1>3. ASSUME NEW s \in {Idle, Finishing("finish"), Finishing("complete")},
             worker' = [worker EXCEPT ![w] = s]
      PROVE  Free
  BY <1>3, IdleIsSlot DEF Finishing
<1> HIDE DEF Free
<1>q. ASSUME Free, UNCHANGED <<walletVars, tally, wamid>>, worker[w].pc # "charge",
             \A r \in Recipients : rstatus'[r] \in Served => rstatus[r] \in Served
      PROVE  Bills(w)
  BY <1>q, KeptWhenUnchanged DEF Bills, Free
<1>4. CASE TakeJob(w)
  <2>1. PICK pc \in {"skip", "recipient"}, r \in Recipients, k \in 0 .. Attempts - 1 :
            worker' = [worker EXCEPT ![w] = [pc |-> pc, r |-> r, k |-> k, m |-> 0]]
    BY <1>4 DEF TakeJob
  <2>2. Free
    BY <2>1 DEF Free
  <2> QED
    BY <1>4, <1>q, <2>2 DEF TakeJob, rows, At
<1>5. CASE ReadRecipient(w) \/ Record(w) \/ BurstPause(w)
  <2>1. Free
    BY <1>1, <1>5 DEF ReadRecipient, Record, BurstPause, Stage, InJob
  <2> QED
    BY <1>5, <1>q, <2>1 DEF ReadRecipient, Record, BurstPause, rows, At
<1>6. CASE Gate(w)
  <2>1. Free
    BY <1>1, <1>2, <1>6 DEF Gate, Stage, InJob
  <2> QED
    BY <1>6, <1>q, <2>1 DEF Gate, rows, At
<1>7. CASE CallMeta(w)
  <2>1. worker[w].pc = "call" /\ worker[w].r \in Recipients
    BY <1>7 DEF CallMeta, At, Holds, InJob
  <2>2. Kept
    BY <1>7 DEF CallMeta, Kept, walletVars, funds, settings, stamps, observed
  <2>3. Free \/ worker'[w].m = accepted[worker[w].r] + 1
    BY <1>1, <1>2, <1>7, <2>1 DEF CallMeta, Stage, InJob
  <2>4. worker'[w].pc = "sent" => worker'[w].m # 0
    BY <2>1, <2>3 DEF Free
  <2> QED
    BY <1>7, <2>1, <2>2, <2>4 DEF Bills, CallMeta, rows
<1>8. CASE SkipStopped(w)
  <2>1. Free
    BY <1>1, <1>8 DEF SkipStopped, Stage, InJob
  <2>2. \A r \in Recipients : rstatus'[r] \in Served => rstatus[r] \in Served
    BY <1>8, MarkServes DEF SkipStopped, RStatus, Served
  <2> QED
    BY <1>8, <1>q, <2>1, <2>2 DEF SkipStopped, At
<1>9. CASE Close(w)
  <2>1. Free
    BY <1>1, <1>9 DEF Close, Stage, InJob
  <2>2. \A r \in Recipients : rstatus'[r] \in Served => rstatus[r] \in Served
    BY <1>9, MarkServes DEF Close, RStatus, Served
  <2> QED
    BY <1>9, <1>q, <2>1, <2>2 DEF Close, At
<1>10. CASE MarkSent(w)
  <2>1. worker'[w].pc = "charge" /\ worker'[w].r = worker[w].r
    BY <1>10, GotoMoves DEF MarkSent, Stage, InJob, AfterAccept
  <2>2. \A r \in Recipients \ {worker[w].r} : rstatus'[r] = rstatus[r]
    BY <1>10 DEF MarkSent, Mark
  <2> QED
    BY <1>10, <2>1, <2>2, KeptWhenUnchanged DEF MarkSent, Bills, At
<1>11. CASE Charge(w)
  <2>1. Free
    BY <1>1, <1>11 DEF Charge, Stage, InJob, AfterAccept
  <2>2. worker[w].pc = "charge" /\ worker[w].r \in Recipients
    BY <1>11 DEF Charge, At, Holds, InJob, AfterAccept
  <2>3. billed' = billed \/ billed' = [billed EXCEPT ![worker[w].r] = TRUE]
    <3>1. ChargeAtSend(worker[w].r, Unit)
      BY <1>11 DEF Charge
    <3> QED
      BY <3>1 DEF ChargeAtSend, walletVars, funds, settings, observed, stamps
  <2>4. Kept
    BY <1>11, <2>2, <2>3 DEF Charge, Kept
  <2>5. billed'[worker[w].r] \/ worker[w].r \in dry' \cup excused'
    BY <1>11 DEF Charge
  <2> QED
    BY <1>11, <2>1, <2>4, <2>5 DEF Charge, Bills, Free, rows
<1>12. CASE Exhausted(w)
  <2>1. Free
    BY <1>3, <1>12 DEF Exhausted
  <2>2. \A r \in Recipients : rstatus'[r] \in Served => rstatus[r] \in Served
    BY <1>12, MarkServes DEF Exhausted, RStatus, Served
  <2> QED
    BY <1>12, <1>q, <2>1, <2>2 DEF Exhausted, At
<1>13. CASE CountUnsent(w) \/ ReadBroadcast(w) \/ Complete(w)
  <2>1. Free
    BY <1>3, <1>13 DEF CountUnsent, ReadBroadcast, Complete
  <2> QED
    BY <1>13, <1>q, <2>1 DEF CountUnsent, ReadBroadcast, Complete, rows, At
<1>14. CASE WorkerFault(w)
  <2>1. Free
    BY <1>2, <1>14 DEF WorkerFault
  <2>2. Kept
    BY <1>14 DEF WorkerFault, Kept, walletVars, funds, settings, stamps, observed
  <2>3. worker[w].pc = "charge" => worker[w].r \in dry' \cup excused'
    BY <1>14 DEF WorkerFault, AfterAccept
  <2> QED
    BY <1>14, <2>1, <2>2, <2>3 DEF WorkerFault, Bills, Free, rows
<1>15. CASE HandlerFault(w)
  <2>1. Free
    BY <1>3, <1>15 DEF HandlerFault
  <2>2. Kept
    BY <1>15 DEF HandlerFault, Kept, walletVars, funds, settings, stamps, observed
  <2> QED
    BY <1>15, <2>1, <2>2 DEF HandlerFault, Bills, Free, rows
<1> QED
  BY <1>4, <1>5, <1>6, <1>7, <1>8, <1>9, <1>10, <1>11, <1>12, <1>13, <1>14, <1>15 DEF Worker

LEMMA WorkerBillStep ==
    ASSUME BillInv, NEW w \in Workers, Worker(w) \/ WorkerFault(w) \/ HandlerFault(w), RecordsInv'
    PROVE  BillInv'
<1> USE DEF BillInv, RecordsInv
<1>1. Bills(w) /\ Moves(w)
  BY WorkerBills, WorkerMoves
<1>2. hook' = hook
  BY DEF Worker, WorkerFault, HandlerFault, TakeJob, SkipStopped, ReadRecipient, Gate, Close,
         CallMeta, MarkSent, Charge, Record, BurstPause, Exhausted, CountUnsent,
         ReadBroadcast, Complete, Elsewhere
<1>3. \A v \in Workers \ {w} : worker'[v] = worker[v]
  BY <1>1 DEF Moves, OthersKept
<1>4. \A v \in Workers : At(v, "sent")' => worker'[v].m # 0
  BY <1>1, <1>3 DEF Bills, At
<1>5. ASSUME NEW r \in Recipients, Accounted(r) PROVE Accounted(r)'
  BY <1>1, <1>3, <1>5 DEF Accounted, Bills, Kept, At
<1>6. CASE /\ wamid' = wamid
           /\ \A r \in Recipients : rstatus'[r] \in Served => rstatus[r] \in Served
  BY <1>1, <1>2, <1>4, <1>5, <1>6 DEF Bills, Kept
<1>7. CASE /\ worker[w].pc = "sent" /\ worker'[w].pc = "charge" /\ worker'[w].r = worker[w].r
           /\ wamid' = [wamid EXCEPT ![worker[w].r] = worker[w].m]
           /\ \A r \in Recipients \ {worker[w].r} : rstatus'[r] = rstatus[r]
  <2> DEFINE q == worker[w].r
  <2>1. q \in Recipients /\ worker[w].m # 0 /\ worker[w].m \in Int
    BY <1>7 DEF Holds, InJob, AfterAccept, At, Slot
  <2>2. /\ wamid' \in [Recipients -> Int] /\ wamid'[q] # 0
        /\ \A r \in Recipients \ {q} : wamid'[r] = wamid[r]
    BY <1>7, <2>1
  <2>3. Accounted(q)'
    BY <1>7 DEF Accounted, At
  <2>4. \A r \in Recipients : wamid[r] # 0 => wamid'[r] # 0
    BY <2>2
  <2>5. \A h \in Hooks : hook'[h].pc = "write" => wamid'[hook'[h].r] # 0
    BY <1>2, <2>4
  <2> QED
    BY <1>1, <1>4, <1>5, <1>7, <2>2, <2>3, <2>4, <2>5 DEF Bills, Kept
<1> QED
  BY <1>1, <1>6, <1>7 DEF Bills

\* The other processes serve nobody but by a webhook that has found the row.
LEMMA OtherBillStep ==
    ASSUME BillInv, RecordsInv', UNCHANGED <<worker, wamid>>, Kept,
           \A h \in Hooks : hook'[h].pc = "write" => wamid[hook'[h].r] # 0,
           \A r \in Recipients : rstatus'[r] \in Served => rstatus[r] \in Served \/ wamid[r] # 0
    PROVE  BillInv'
<1> USE DEF BillInv
<1>1. ASSUME NEW r \in Recipients, Accounted(r) PROVE Accounted(r)'
  BY <1>1 DEF Accounted, Kept, At
<1>2. \A v \in Workers : At(v, "sent")' => worker'[v].m # 0
  BY DEF At
<1> QED
  BY <1>1, <1>2 DEF Kept

LEMMA RefundKeeps ==
    ASSUME NEW r, RefundFailedSend(r)
    PROVE  billed' = billed
  BY DEF RefundFailedSend, walletVars, funds, settings, observed, stamps

LEMMA FanBillStep ==
    ASSUME BillInv, RecordsInv', NEW f \in Fans, Fan(f) \/ FanFault(f)
    PROVE  BillInv'
<1>1. UNCHANGED <<worker, hook, wamid, dry, excused>> /\ UNCHANGED walletVars
  BY DEF Fan, FanStart, FanPage, FanEnqueue, FanMark, FanCount, FanFail, FanFault, rows, tally
<1>2. rstatus' = rstatus \/ Mark(fan[f].batch, "queued")
  BY DEF Fan, FanStart, FanPage, FanEnqueue, FanMark, FanCount, FanFail, FanFault, rows
<1>3. \A r \in Recipients : rstatus'[r] \in Served => rstatus[r] \in Served
  BY <1>2, MarkServes DEF RStatus, Served
<1>4. Kept
  BY <1>1 DEF BillInv, Kept, walletVars, funds, settings, stamps, observed
<1> QED
  BY <1>1, <1>3, <1>4, OtherBillStep DEF BillInv

LEMMA HookBillStep ==
    ASSUME BillInv, RecordsInv', NEW h \in Hooks,
           HookRead(h) \/ HookWrite(h) \/ HookRefund(h) \/ HookFault(h)
    PROVE  BillInv'
<1> USE DEF BillInv, RecordsInv
<1>1. UNCHANGED <<worker, wamid, dry, excused>>
  BY DEF HookRead, HookWrite, HookRefund, HookFault, rows, tally
<1>2. billed' = billed
  BY RefundKeeps DEF HookRead, HookWrite, HookRefund, HookFault, walletVars, funds, settings, stamps, observed
<1>3. Kept
  BY <1>1, <1>2 DEF Kept
<1>4. \A g \in Hooks : hook'[g].pc = "write" => wamid[hook'[g].r] # 0
  <2>1. CASE HookRead(h)
    <3>1. CASE hook' = hook
      BY <3>1
    <3>2. CASE hook' # hook
      <4>1. PICK r \in Recipients, s \in {"delivered", "read", "failed"}, m \in Int :
               /\ wamid[r] = m /\ m \in 1 .. accepted[r]
               /\ hook' = [hook EXCEPT ![h] = [pc |-> "write", r |-> r, s |-> s,
                           refund |-> s = "failed" /\ billed[r] /\ Undelivered(r)]]
        BY <2>1, <3>2 DEF HookRead
      <4>2. wamid[r] # 0
        BY <4>1
      <4>3. hook'[h].r = r /\ \A g \in Hooks \ {h} : hook'[g] = hook[g]
        BY <4>1
      <4> QED
        BY <4>2, <4>3
    <3> QED
      BY <3>1, <3>2
  <2>2. CASE HookWrite(h) \/ HookRefund(h) \/ HookFault(h)
    <3>1. \/ hook' = [hook EXCEPT ![h] = IdleHook]
          \/ hook' = [hook EXCEPT ![h] = [hook[h] EXCEPT !.pc = "refund"]]
      BY <2>2 DEF HookWrite, HookRefund, HookFault
    <3>2. IdleHook.pc = "idle" /\ [hook[h] EXCEPT !.pc = "refund"].pc = "refund"
      BY DEF IdleHook, HookSlot
    <3>3. hook'[h].pc # "write" /\ \A g \in Hooks \ {h} : hook'[g] = hook[g]
      BY <3>1, <3>2
    <3> QED
      BY <3>3
  <2> QED
    BY <2>1, <2>2
<1>5. \A r \in Recipients : rstatus'[r] \in Served => rstatus[r] \in Served \/ wamid[r] # 0
  <2>1. CASE HookWrite(h)
    <3>1. Mark({hook[h].r}, hook[h].s) /\ wamid[hook[h].r] # 0
      BY <2>1 DEF HookWrite
    <3> QED
      BY <3>1 DEF Mark
  <2>2. CASE HookRead(h) \/ HookRefund(h) \/ HookFault(h)
    BY <2>2 DEF HookRead, HookRefund, HookFault, rows
  <2> QED
    BY <2>1, <2>2
<1> QED
  BY <1>1, <1>3, <1>4, <1>5, OtherBillStep

LEMMA ApiBillStep ==
    ASSUME "rerun" \notin Ops, BillInv, RecordsInv', NEW a \in Apis,
           ApiRead(a) \/ Request(a) \/ ApiFault(a)
    PROVE  BillInv'
<1> USE DEF BillInv, RecordsInv
<1>1. api[a].op # "rerun"
  BY DEF ApiSlot
<1>2. ~ApiRerun(a)
  BY <1>1 DEF ApiRerun
<1>3. UNCHANGED <<worker, hook, wamid, dry, excused>>
  BY <1>2 DEF Request, ApiRead, ApiRefund, ApiPause, ApiResume, ApiCancel, ApiEnqueue, ApiDequeue,
         ApiFault, rows, tally
<1>4. billed' = billed
  BY <1>2, RefundKeeps DEF Request, ApiRead, ApiRefund, ApiPause, ApiResume, ApiCancel, ApiEnqueue,
         ApiDequeue, ApiFault, walletVars, funds, settings, stamps, observed
<1>5. \A r \in Recipients : rstatus'[r] \in Served => rstatus[r] \in Served
  <2>1. CASE ApiResume(a) \/ ApiCancel(a)
    BY <2>1, MarkServes DEF ApiResume, ApiCancel, RStatus, Served
  <2>2. CASE rstatus' = rstatus
    BY <2>2
  <2> QED
    BY <1>2, <2>1, <2>2 DEF Request, ApiRead, ApiRefund, ApiPause, ApiEnqueue, ApiDequeue, ApiFault, rows
<1>6. Kept
  BY <1>3, <1>4 DEF Kept
<1> QED
  BY <1>3, <1>5, <1>6, OtherBillStep

LEMMA ReaperBillStep ==
    ASSUME BillInv, RecordsInv', NEW p \in Reapers, Reap(p) \/ ReaperFault(p)
    PROVE  BillInv'
<1> USE DEF BillInv
<1>1. UNCHANGED <<worker, hook, wamid, dry, excused>>
  BY DEF Reap, ReaperSweep, ReaperRefund, ReaperFind, ReaperSkip, ReaperComplete, ReaperFault, rows, tally
<1>2. billed' = billed
  BY RefundKeeps DEF Reap, ReaperSweep, ReaperRefund, ReaperFind, ReaperSkip, ReaperComplete,
         ReaperFault, walletVars, funds, settings, stamps, observed
<1>3. \A r \in Recipients : rstatus'[r] \in Served => rstatus[r] \in Served
  <2>1. CASE ReaperSkip(p)
    BY <2>1, MarkServes DEF ReaperSkip, RStatus, Served
  <2>2. CASE rstatus' = rstatus
    BY <2>2
  <2> QED
    BY <2>1, <2>2 DEF Reap, ReaperSweep, ReaperRefund, ReaperFind, ReaperComplete, ReaperFault, rows
<1>4. Kept
  BY <1>1, <1>2 DEF Kept
<1> QED
  BY <1>1, <1>3, <1>4, OtherBillStep

LEMMA BillNext ==
    ASSUME "rerun" \notin Ops, BillInv, [Next]_vars
    PROVE  BillInv'
<1>1. RecordsInv'
  BY RecordsNext DEF BillInv
<1>2. CASE Next
  BY <1>1, <1>2, WorkerBillStep, FanBillStep, HookBillStep, ApiBillStep, ReaperBillStep DEF Next, Step
<1>3. CASE UNCHANGED vars
  <2>1. Kept
    BY <1>3 DEF BillInv, Kept, vars, walletVars, funds, settings, stamps, observed, tally
  <2>2. UNCHANGED <<worker, wamid, hook, rstatus>>
    BY <1>3 DEF vars, rows
  <2> QED
    BY <1>1, <2>1, <2>2, OtherBillStep DEF BillInv
<1> QED
  BY <1>2, <1>3

(* A recipient is sent or delivered to for free only if the balance ran out   *)
(* under its message or the attempt was interrupted after Meta accepted it:   *)
(* the charge of broadcast-send.ts comes after the row is marked, and neither *)
(* a duplicate job nor a webhook in between leaves a message unbilled.  A     *)
(* re-run clears billed_at while a late report may still mark the row, hence  *)
(* the hypothesis.                                                            *)
THEOREM SentAreBilled ==
    ASSUME "rerun" \notin Ops
    PROVE  Spec => []SentIsBilled
<1>1. Init => BillInv
  <2> SUFFICES ASSUME Init PROVE BillInv
    OBVIOUS
  <2>1. billed = [r \in Recipients |-> FALSE]
    BY InitIsWalletInit DEF WalletInit
  <2>2. wamid = [r \in Recipients |-> 0] /\ \A r \in Recipients : rstatus[r] = "pending"
    BY DEF Init
  <2>3. (\A w \in Workers : worker[w].pc = "idle") /\ (\A h \in Hooks : hook[h].pc = "idle")
    BY DEF Init, Idle, IdleHook
  <2> QED
    BY <2>1, <2>2, <2>3, InitRecords DEF BillInv, Served, At
<1>2. BillInv /\ [Next]_vars => BillInv'
  BY BillNext
<1>3. BillInv => SentIsBilled
  BY DEF BillInv, SentIsBilled, Accounted, Served
<1> QED
  BY <1>1, <1>2, <1>3, PTL DEF Spec

-----------------------------------------------------------------------------
(* A delivered message keeps its charge.                                     *)

\* A webhook that goes on to the refund had decided on it.
RefundInv ==
    /\ RecordsInv
    /\ WalletTypeOK
    /\ deliveredAt \in [Recipients -> BOOLEAN] /\ readAt \in [Recipients -> BOOLEAN]
    /\ \A h \in Hooks : hook[h].pc = "refund" => hook[h].refund

\* What a step owes a delivered recipient whose charge nobody is about to refund.
Rests(r) == ~Undelivered(r) /\ ~Returning(r)
Rested(r) == /\ refunds'[r] = refunds[r]
             /\ ~Undelivered(r)'
             /\ Returning(r)' => \E a \in Apis : r \in api'[a].rs

LEMMA RefundsMine ==
    ASSUME WalletTypeOK, NEW r \in Recipients, NEW q, q # r, RefundFailedSend(q)
    PROVE  refunds'[r] = refunds[r]
<1>1. refunds' = refunds \/ refunds' = [refunds EXCEPT ![q] = @ + 1]
  BY DEF RefundFailedSend, walletVars, funds, settings, stamps, observed
<1>2. refunds \in [Recipients -> Nat]
  BY DEF WalletTypeOK
<1> QED
  BY <1>1, <1>2

LEMMA SlotsRest ==
    ASSUME NEW w \in Workers, Worker(w) \/ WorkerFault(w) \/ HandlerFault(w)
    PROVE  UNCHANGED <<hook, api, reaper, deliveredAt, readAt, refunds>>
<1>1. UNCHANGED <<hook, api, reaper, deliveredAt, readAt>>
  BY DEF Worker, WorkerFault, HandlerFault, TakeJob, SkipStopped, ReadRecipient, Gate, Close,
         CallMeta, MarkSent, Charge, Record, BurstPause, Exhausted, CountUnsent,
         ReadBroadcast, Complete, Elsewhere, rows
<1>2. CASE Charge(w)
  <2>1. ChargeAtSend(worker[w].r, Unit)
    BY <1>2 DEF Charge
  <2>2. refunds' = refunds
    BY <2>1 DEF ChargeAtSend, walletVars, funds, settings, stamps, observed
  <2> QED
    BY <1>1, <2>2
<1>3. CASE ~Charge(w)
  <2>1. UNCHANGED walletVars
    BY <1>3 DEF Worker, WorkerFault, HandlerFault, TakeJob, SkipStopped, ReadRecipient, Gate, Close,
        CallMeta, MarkSent, Record, BurstPause, Exhausted, CountUnsent, ReadBroadcast, Complete
  <2> QED
    BY <1>1, <2>1 DEF walletVars, funds, settings, stamps, observed
<1> QED
  BY <1>2, <1>3

\* What no step but the webhooks', the requests' and the reaper's touches.
LEMMA OthersRest ==
    ASSUME RefundInv, RecordsInv', WalletTypeOK', UNCHANGED <<hook, api, reaper, deliveredAt, readAt, refunds>>
    PROVE  RefundInv' /\ \A r \in Recipients : Rests(r) => Rested(r)
  BY DEF RefundInv, Rests, Rested, Undelivered, Returning

LEMMA HookRest ==
    ASSUME RefundInv, RecordsInv', WalletTypeOK', NEW h \in Hooks,
           HookRead(h) \/ HookWrite(h) \/ HookRefund(h) \/ HookFault(h)
    PROVE  RefundInv' /\ \A r \in Recipients : Rests(r) => Rested(r)
<1> USE DEF RefundInv, RecordsInv
<1>1. UNCHANGED <<api, reaper>>
  BY DEF HookRead, HookWrite, HookRefund, HookFault
<1>2. ASSUME NEW t, hook' = [hook EXCEPT ![h] = t], t.pc = "refund" => t.refund,
             t.refund => (hook[h].refund /\ t.r = hook[h].r) \/ Undelivered(t.r),
             deliveredAt' \in [Recipients -> BOOLEAN], readAt' \in [Recipients -> BOOLEAN],
             \A r \in Recipients : (deliveredAt[r] => deliveredAt'[r]) /\ (readAt[r] => readAt'[r]),
             \A r \in Recipients : refunds'[r] = refunds[r] \/ (hook[h].r = r /\ hook[h].refund)
      PROVE  RefundInv' /\ \A r \in Recipients : Rests(r) => Rested(r)
  <2>1. hook'[h] = t /\ \A g \in Hooks \ {h} : hook'[g] = hook[g]
    BY <1>2
  <2>2. RefundInv'
    BY <1>2, <2>1
  <2>3. ASSUME NEW r \in Recipients, Rests(r) PROVE Rested(r)
    <3>1. ~Undelivered(r)'
      BY <1>2, <2>3 DEF Rests, Undelivered
    <3>2. refunds'[r] = refunds[r]
      BY <1>2, <2>3 DEF Rests, Returning
    <3>3. ASSUME NEW g \in Hooks, hook'[g].r = r, hook'[g].refund PROVE FALSE
      BY <1>2, <2>1, <2>3, <3>3 DEF Rests, Returning
    <3>4. ~Returning(r)'
      BY <1>1, <2>3, <3>3 DEF Rests, Returning
    <3> QED
      BY <3>1, <3>2, <3>4 DEF Rested
  <2> QED
    BY <2>2, <2>3
<1>3. ~IdleHook.refund /\ IdleHook.pc = "idle"
  BY DEF IdleHook
<1>4. hook[h] \in HookSlot
  OBVIOUS
<1> DEFINE wants == [hook[h] EXCEPT !.pc = "refund"]
<1>5. wants.pc = "refund" /\ wants.r = hook[h].r /\ wants.refund = hook[h].refund
  BY <1>4 DEF HookSlot
<1>6. CASE HookRead(h)
  <2>1. UNCHANGED <<deliveredAt, readAt, refunds>>
    BY <1>6 DEF HookRead, rows, walletVars, funds, settings, stamps, observed
  <2>2. CASE hook' = hook
    BY <1>1, <2>1, <2>2, OthersRest
  <2>3. CASE hook' # hook
    <3>1. PICK r \in Recipients, s \in {"delivered", "read", "failed"} :
              hook' = [hook EXCEPT ![h] = [pc |-> "write", r |-> r, s |-> s,
                           refund |-> s = "failed" /\ billed[r] /\ Undelivered(r)]]
      BY <1>6, <2>3 DEF HookRead
    <3> DEFINE t == [pc |-> "write", r |-> r, s |-> s,
                     refund |-> s = "failed" /\ billed[r] /\ Undelivered(r)]
    <3>2. t.pc = "write" /\ t.r = r /\ (t.refund => Undelivered(r))
      OBVIOUS
    <3> HIDE DEF t
    <3>3. hook' = [hook EXCEPT ![h] = t]
      BY <3>1 DEF t
    <3> QED
      BY <1>2, <2>1, <3>2, <3>3
  <2> QED
    BY <2>2, <2>3
<1> HIDE DEF wants
<1>7. CASE HookWrite(h)
  <2>1. refunds' = refunds
    BY <1>7 DEF HookWrite, walletVars, funds, settings, stamps, observed
  <2>2. /\ deliveredAt' \in [Recipients -> BOOLEAN] /\ readAt' \in [Recipients -> BOOLEAN]
        /\ \A r \in Recipients : (deliveredAt[r] => deliveredAt'[r]) /\ (readAt[r] => readAt'[r])
    <3>1. hook[h].r \in Recipients
      BY <1>7 DEF HookWrite
    <3>2. PICK x \in BOOLEAN, y \in BOOLEAN :
              /\ deliveredAt' = [deliveredAt EXCEPT ![hook[h].r] = x]
              /\ readAt' = [readAt EXCEPT ![hook[h].r] = y]
              /\ (deliveredAt[hook[h].r] => x) /\ (readAt[hook[h].r] => y)
      BY <1>7 DEF HookWrite
    <3> QED
      BY <3>1, <3>2
  <2>3. \/ hook[h].refund /\ hook' = [hook EXCEPT ![h] = wants]
        \/ hook' = [hook EXCEPT ![h] = IdleHook]
    BY <1>7 DEF HookWrite, wants
  <2> QED
    BY <1>2, <1>3, <1>5, <2>1, <2>2, <2>3
<1>8. CASE HookRefund(h)
  <2>1. /\ UNCHANGED <<deliveredAt, readAt>> /\ hook' = [hook EXCEPT ![h] = IdleHook]
        /\ RefundFailedSend(hook[h].r) /\ hook[h].refund
    BY <1>8 DEF HookRefund, rows
  <2>2. \A r \in Recipients : refunds'[r] = refunds[r] \/ (hook[h].r = r /\ hook[h].refund)
    BY <2>1, RefundsMine
  <2> QED
    BY <1>2, <1>3, <2>1, <2>2
<1>9. CASE HookFault(h)
  <2>1. /\ UNCHANGED <<deliveredAt, readAt, refunds>>
        /\ \/ hook' = [hook EXCEPT ![h] = IdleHook]
           \/ hook[h].refund /\ hook' = [hook EXCEPT ![h] = wants]
    BY <1>9 DEF HookFault, rows, walletVars, funds, settings, stamps, observed, wants
  <2> QED
    BY <1>2, <1>3, <1>5, <2>1
<1> QED
  BY <1>6, <1>7, <1>8, <1>9

LEMMA ApiRest ==
    ASSUME RefundInv, RecordsInv', WalletTypeOK', NEW a \in Apis, ApiRead(a) \/ Request(a) \/ ApiFault(a)
    PROVE  RefundInv' /\ \A r \in Recipients : Rests(r) => Rested(r)
<1> USE DEF RefundInv, RecordsInv
<1>1. UNCHANGED <<hook, reaper, deliveredAt, readAt>>
  BY DEF Request, ApiRead, ApiRefund, ApiPause, ApiResume, ApiCancel, ApiRerun, ApiEnqueue, ApiDequeue,
         ApiFault, rows
<1>2. ASSUME NEW r \in Recipients, Rests(r) PROVE refunds'[r] = refunds[r]
  <2>1. CASE ApiRefund(a)
    <3>1. PICK q \in api[a].rs : RefundFailedSend(q) \/ UNCHANGED walletVars
      BY <2>1 DEF ApiRefund
    <3>2. q # r
      BY <1>2, <3>1 DEF Rests, Returning
    <3> QED
      BY <3>1, <3>2, RefundsMine DEF walletVars, funds, settings, stamps, observed
  <2>2. CASE ApiRerun(a)
    <3>1. RearmBilling(Failed)
      BY <2>2 DEF ApiRerun
    <3> QED
      BY <3>1 DEF RearmBilling
  <2>3. CASE ~ApiRefund(a) /\ ~ApiRerun(a)
    BY <2>3 DEF Request, ApiRead, ApiPause, ApiResume, ApiCancel, ApiEnqueue, ApiDequeue, ApiFault, walletVars,
       funds, settings, stamps, observed
  <2> QED
    BY <2>1, <2>2, <2>3
<1>3. ASSUME NEW r \in Recipients, Rests(r) PROVE Rested(r)
  BY <1>1, <1>2, <1>3 DEF Rests, Rested, Undelivered, Returning
<1>4. RefundInv'
  BY <1>1
<1> QED
  BY <1>3, <1>4

LEMMA ReaperRest ==
    ASSUME RefundInv, RecordsInv', WalletTypeOK', NEW p \in Reapers, Reap(p) \/ ReaperFault(p)
    PROVE  RefundInv' /\ \A r \in Recipients : Rests(r) => Rested(r)
<1> USE DEF RefundInv, RecordsInv
<1>1. UNCHANGED <<hook, api, deliveredAt, readAt>>
  BY DEF Reap, ReaperSweep, ReaperRefund, ReaperFind, ReaperSkip, ReaperComplete, ReaperFault, rows
<1>2. \A q \in Reapers \ {p} : reaper'[q] = reaper[q]
  BY DEF Reap, ReaperSweep, ReaperRefund, ReaperFind, ReaperSkip, ReaperComplete, ReaperFault
<1>3. reaper[p] \in ReaperSlot
  OBVIOUS
<1>4. \A r \in reaper'[p].rs : r \in reaper[p].rs \/ Undelivered(r)
  <2>1. CASE ReaperSweep(p)
    <3> DEFINE owed == {r \in Recipients : Owed(r)}
    <3>1. reaper'[p].rs = owed
      BY <2>1 DEF ReaperSweep
    <3> QED
      BY <3>1 DEF Owed
  <2>2. CASE ReaperRefund(p)
    BY <2>2 DEF ReaperRefund
  <2>3. CASE ReaperFind(p) \/ ReaperSkip(p)
    <3>1. PICK pc : reaper' = [reaper EXCEPT ![p] = [reaper[p] EXCEPT !.pc = pc]]
      BY <2>3 DEF ReaperFind, ReaperSkip
    <3>2. [reaper[p] EXCEPT !.pc = pc].rs = reaper[p].rs
      BY <1>3 DEF ReaperSlot
    <3> QED
      BY <3>1, <3>2
  <2>4. CASE ReaperComplete(p) \/ ReaperFault(p)
    BY <2>4 DEF ReaperComplete, ReaperFault, IdleReaper
  <2> QED
    BY <2>1, <2>2, <2>3, <2>4 DEF Reap
<1>5. ASSUME NEW r \in Recipients, Rests(r) PROVE refunds'[r] = refunds[r]
  <2>1. CASE ReaperRefund(p)
    <3>1. PICK q \in reaper[p].rs : RefundFailedSend(q)
      BY <2>1 DEF ReaperRefund
    <3>2. q # r
      BY <1>5, <3>1 DEF Rests, Returning
    <3> QED
      BY <3>1, <3>2, RefundsMine
  <2>2. CASE ~ReaperRefund(p)
    BY <2>2 DEF Reap, ReaperSweep, ReaperFind, ReaperSkip, ReaperComplete, ReaperFault, walletVars, funds,
       settings, stamps, observed
  <2> QED
    BY <2>1, <2>2
<1>6. ASSUME NEW r \in Recipients, Rests(r) PROVE Rested(r)
  <2>1. ~Undelivered(r)'
    BY <1>1, <1>6 DEF Rests, Undelivered
  <2>2. ~Returning(r)'
    BY <1>1, <1>2, <1>4, <1>6 DEF Rests, Returning
  <2> QED
    BY <1>5, <1>6, <2>1, <2>2 DEF Rested
<1>7. RefundInv'
  BY <1>1
<1> QED
  BY <1>6, <1>7

LEMMA RefundNext ==
    ASSUME RefundInv, WalletTypeOK', [Next]_vars
    PROVE  RefundInv' /\ \A r \in Recipients : Rests(r) => Rested(r)
<1>1. RecordsInv'
  BY RecordsNext DEF RefundInv
<1>2. CASE UNCHANGED vars
  BY <1>1, <1>2, OthersRest DEF vars, rows, walletVars, funds, settings, stamps, observed
<1>3. ASSUME NEW f \in Fans, Fan(f) \/ FanFault(f)
      PROVE  UNCHANGED <<hook, api, reaper, deliveredAt, readAt, refunds>>
  BY <1>3 DEF Fan, FanStart, FanPage, FanEnqueue, FanMark, FanCount, FanFail, FanFault, rows, walletVars, funds,
     settings, stamps, observed
<1>4. CASE Next
  BY <1>1, <1>3, <1>4, SlotsRest, OthersRest, HookRest, ApiRest, ReaperRest DEF Next, Step
<1> QED
  BY <1>2, <1>4

(* Once a message shows as delivered or read and no refund of it had been     *)
(* decided on before, no report and no sweep ever refunds it, with any number *)
(* of webhooks, reapers and slots (whatsapp.routes.ts, the guard of the       *)
(* refund; broadcast-reaper.ts, the sweep).                                   *)
THEOREM DeliveredKeep == Spec => DeliveredKeepsItsCharge
<1>1. Init => RefundInv \/ ~WalletTypeOK
  <2> SUFFICES ASSUME Init, WalletTypeOK PROVE RefundInv
    OBVIOUS
  <2>1. \A h \in Hooks : hook[h].pc = "idle"
    BY DEF Init, IdleHook
  <2>2. deliveredAt \in [Recipients -> BOOLEAN] /\ readAt \in [Recipients -> BOOLEAN]
    BY DEF Init
  <2> QED
    BY <2>1, <2>2, InitRecords DEF RefundInv
<1>2. RefundInv /\ WalletTypeOK' /\ [Next]_vars
         => RefundInv' /\ \A r \in Recipients : Rests(r) => Rested(r)
  BY RefundNext
<1>3. Spec => []WalletTypeOK
  BY WalletHoldsWhileSending, PTL
<1>4. (\A r \in Recipients : Rests(r) => Rested(r)) =>
      \A r \in Recipients : ~Undelivered(r) /\ ~Returning(r) =>
          /\ refunds'[r] = refunds[r]
          /\ ~Undelivered(r)'
          /\ Returning(r)' => \E a \in Apis : r \in api'[a].rs
  BY DEF Rests, Rested
<1> QED
  BY <1>1, <1>2, <1>3, <1>4, PTL DEF Spec, DeliveredKeepsItsCharge
=============================================================================
