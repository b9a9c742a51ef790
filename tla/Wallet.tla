------------------------------- MODULE Wallet -------------------------------
(***************************************************************************)
(* The prepaid wallet of one tenant, the billing flags of the recipients   *)
(* of its broadcasts, and the ledger the two are reconciled against        *)
(* (apps/api/src/lib/wallet.ts, apps/worker/src/lib/wallet.ts).            *)
(*                                                                         *)
(* Every operation of the two libraries is one database transaction whose  *)
(* first statement is a conditional UPDATE of the row it claims: the row   *)
(* locks serialise two operations on the same recipient or wallet, so an   *)
(* operation is one action here.  Amounts are integer micro-dollars.  A    *)
(* tenant without a wallet row behaves as one with the default row and     *)
(* metering off, which is how the row is created (ensureWallet).           *)
(***************************************************************************)
EXTENDS Integers, FiniteSets

CONSTANTS
    Recipients,     \* broadcast_recipients rows that may be charged
    TopUps,         \* amounts a top-up may carry
    Deltas,         \* signed amounts an adjustment may carry
    Requested,      \* prices HQ may ask for, before the floor
    MinPrice,       \* MIN_PRICE_MICROS, the floor
    DefaultPrice,   \* the column default of price_per_message_micros
    Opening         \* the balance the tenant is provisioned with

ASSUME RecipientsAssumption == IsFiniteSet(Recipients)
ASSUME AmountsAssumption == /\ TopUps \subseteq Nat
                            /\ Deltas \subseteq Int
                            /\ Opening \in Nat
ASSUME PricesAssumption == /\ Requested \subseteq Nat
                           /\ MinPrice \in Nat \ {0}
                           /\ DefaultPrice \in Nat
                           /\ DefaultPrice >= MinPrice

VARIABLES
    available,      \* tenant_wallets: the balance
    spent,          \* tenant_wallets: lifetime_spent_micros
    messages,       \* tenant_wallets: lifetime_messages
    toppedUp,       \* tenant_wallets: lifetime_topped_up_micros
    baseline,       \* tenant_wallets: alert_baseline_micros
    metering,       \* tenant_wallets: the send gate is on
    price,          \* tenant_wallets: price_per_message_micros
    ledger,         \* wallet_ledger: the sum of amount_micros per kind of row
    settleRow,      \* unit price on the latest 'settle' row of a recipient, 0 if none
    billed,         \* broadcast_recipients.billed_at is set
    refunded,       \* broadcast_recipients.refunded_at is set
    settled         \* broadcasts.billing_settled_micros

(***************************************************************************)
(* Observations, never read by the system: what the adjustment clamp let   *)
(* go, the debits without a recipient, and per recipient the debits, the   *)
(* refunds and the debits a re-arm forgot.                                 *)
(***************************************************************************)
VARIABLES forgiven, direct, charges, refunds, orphaned

funds == <<available, spent, messages>>
settings == <<toppedUp, baseline, metering, price>>
stamps == <<settleRow, billed, refunded, settled>>
observed == <<forgiven, direct, charges, refunds, orphaned>>
walletVars == <<funds, settings, ledger, stamps, observed>>

Larger(a, b) == IF a >= b THEN a ELSE b

\* Provisioning a tenant tops its wallet up with the opening balance, if any.
WalletInit ==
    /\ available = Opening /\ spent = 0 /\ messages = 0
    /\ toppedUp = Opening /\ baseline = Opening
    /\ metering = (Opening > 0)
    /\ price = DefaultPrice
    /\ ledger = [topup |-> Opening, adjust |-> 0, settle |-> 0, release |-> 0]
    /\ settleRow = [r \in Recipients |-> 0]
    /\ billed = [r \in Recipients |-> FALSE]
    /\ refunded = [r \in Recipients |-> FALSE]
    /\ settled = 0
    /\ forgiven = 0
    /\ direct = 0
    /\ charges = [r \in Recipients |-> 0]
    /\ refunds = [r \in Recipients |-> 0]
    /\ orphaned = [r \in Recipients |-> 0]

-----------------------------------------------------------------------------
(* What headquarters does to a wallet.                                       *)

TopUp(amount) ==
    /\ available' = available + amount
    /\ toppedUp' = toppedUp + amount
    /\ baseline' = available + amount
    /\ metering' = TRUE
    /\ ledger' = [ledger EXCEPT !.topup = @ + amount]
    /\ UNCHANGED <<spent, messages, price, stamps, observed>>

\* The clamp keeps the balance at zero; the ledger row carries the raw delta.
Adjust(delta) ==
    /\ available' = Larger(available + delta, 0)
    /\ ledger' = [ledger EXCEPT !.adjust = @ + delta]
    /\ forgiven' = forgiven + Larger(0, - (available + delta))
    /\ UNCHANGED <<spent, messages, settings, stamps,
                   direct, charges, refunds, orphaned>>

SetPrice(asked) ==
    /\ price' = Larger(MinPrice, asked)
    /\ UNCHANGED <<funds, toppedUp, baseline, metering, ledger, stamps, observed>>

SetMetering(enabled) ==
    /\ metering' = enabled
    /\ UNCHANGED <<funds, toppedUp, baseline, price, ledger, stamps, observed>>

-----------------------------------------------------------------------------
(* What sending does to a wallet.                                           *)

\* Mutant: any balance at all is enough.
AffordableAnyBalance(amount) == available > 0

Affordable(amount) == available >= amount

\* Mutant: the counter of messages is forgotten.
DebitUncounted(amount) ==
    /\ available' = available - amount
    /\ spent' = spent + amount
    /\ messages' = messages
    /\ ledger' = [ledger EXCEPT !.settle = @ - amount]

Debit(amount) ==
    /\ available' = available - amount
    /\ spent' = spent + amount
    /\ messages' = messages + 1
    /\ ledger' = [ledger EXCEPT !.settle = @ - amount]

\* Mutant: the release row is not written.
CreditWithoutRow(amount) ==
    /\ available' = available + amount
    /\ spent' = Larger(spent - amount, 0)
    /\ messages' = Larger(messages - 1, 0)
    /\ ledger' = ledger

Credit(amount) ==
    /\ available' = available + amount
    /\ spent' = Larger(spent - amount, 0)
    /\ messages' = Larger(messages - 1, 0)
    /\ ledger' = [ledger EXCEPT !.release = @ + amount]

\* The debit of one recipient: the claim on billed_at, then the conditional
\* debit; a debit the balance does not cover undoes the claim.
ChargeAtSend(r, unit) ==
    \/ /\ ~billed[r]
       /\ Affordable(unit)
       /\ Debit(unit)
       /\ billed' = [billed EXCEPT ![r] = TRUE]
       /\ settleRow' = [settleRow EXCEPT ![r] = unit]
       /\ settled' = settled + unit
       /\ charges' = [charges EXCEPT ![r] = @ + 1]
       /\ UNCHANGED <<settings, refunded, forgiven, direct, refunds, orphaned>>
    \/ /\ billed[r] \/ ~Affordable(unit)
       /\ UNCHANGED walletVars

\* The debit of a sequence step (no gate) or of a test send (the API's version
\* also wants metering on): no recipient, hence no claim.
ChargeDirect(unit, gate) ==
    \/ /\ gate => metering
       /\ Affordable(unit)
       /\ Debit(unit)
       /\ direct' = direct + 1
       /\ UNCHANGED <<settings, stamps,
                      forgiven, charges, refunds, orphaned>>
    \/ /\ (gate /\ ~metering) \/ ~Affordable(unit)
       /\ UNCHANGED walletVars

Refundable(r) == billed[r] /\ ~refunded[r]

\* Mutant: the refund credits without claiming refunded_at.
RefundUnclaimed(r) ==
    \/ /\ Refundable(r)
       /\ settleRow[r] > 0
       /\ Credit(settleRow[r])
       /\ settled' = Larger(settled - settleRow[r], 0)
       /\ refunds' = [refunds EXCEPT ![r] = @ + 1]
       /\ UNCHANGED <<settings, settleRow, billed, refunded,
                      forgiven, direct, charges, orphaned>>
    \/ /\ ~Refundable(r)
       /\ UNCHANGED walletVars

\* The refund of a failed delivery: the claim on refunded_at, then the credit
\* of the price on the recipient's latest settle row.
RefundFailedSend(r) ==
    \/ /\ Refundable(r)
       /\ refunded' = [refunded EXCEPT ![r] = TRUE]
       /\ IF settleRow[r] = 0
          THEN UNCHANGED <<funds, ledger, settled, refunds>>
          ELSE /\ Credit(settleRow[r])
               /\ settled' = Larger(settled - settleRow[r], 0)
               /\ refunds' = [refunds EXCEPT ![r] = @ + 1]
       /\ UNCHANGED <<settings, settleRow, billed,
                      forgiven, direct, charges, orphaned>>
    \/ /\ ~Refundable(r)
       /\ UNCHANGED walletVars

\* Re-running failed recipients clears both stamps, whatever they were: a
\* charge still refundable at that moment can never be refunded again.
RearmBilling(rs) ==
    /\ billed' = [r \in Recipients |-> billed[r] /\ r \notin rs]
    /\ refunded' = [r \in Recipients |-> refunded[r] /\ r \notin rs]
    /\ orphaned' = [r \in Recipients |->
                       orphaned[r] + IF r \in rs /\ Refundable(r) THEN 1 ELSE 0]
    /\ UNCHANGED <<funds, settings, ledger, settleRow, settled,
                   forgiven, direct, charges, refunds>>

\* The prices a charge may carry: any the wallet may have had when it was read.
Prices == {DefaultPrice} \cup {Larger(MinPrice, p) : p \in Requested}

WalletNext ==
    \/ \E amount \in TopUps : TopUp(amount)
    \/ \E delta \in Deltas : Adjust(delta)
    \/ \E asked \in Requested : SetPrice(asked)
    \/ \E enabled \in BOOLEAN : SetMetering(enabled)
    \/ \E r \in Recipients, unit \in Prices : ChargeAtSend(r, unit)
    \/ \E unit \in Prices, gate \in BOOLEAN : ChargeDirect(unit, gate)
    \/ \E r \in Recipients : RefundFailedSend(r)
    \/ \E rs \in SUBSET Recipients : RearmBilling(rs)

\* What a module that extends this one does to the wallet, the broadcasts' first,
\* is to be a behaviour of this: every movement of money is one of the above.
WalletSpec == WalletInit /\ [][WalletNext]_walletVars

-----------------------------------------------------------------------------
(* The rows keep their types; in particular the balance is a natural        *)
(* number, which is "balance never goes negative" of the billing plan.      *)
WalletTypeOK ==
    /\ available \in Nat /\ spent \in Nat /\ messages \in Nat
    /\ toppedUp \in Nat /\ baseline \in Nat
    /\ metering \in BOOLEAN
    /\ price \in Nat
    /\ ledger \in [topup : Nat, adjust : Int, settle : Int, release : Nat]
    /\ settleRow \in [Recipients -> Nat]
    /\ billed \in [Recipients -> BOOLEAN]
    /\ refunded \in [Recipients -> BOOLEAN]
    /\ settled \in Nat
    /\ forgiven \in Nat
    /\ direct \in Nat
    /\ charges \in [Recipients -> Nat]
    /\ refunds \in [Recipients -> Nat]
    /\ orphaned \in [Recipients -> Nat]

\* The balance is the sum of the ledger, up to what adjustments let go: no
\* debit, refund or top-up moves money without its ledger row (wallet.ts).
\* (The nightly check of the billing plan leaves out what adjustments let go.)
LedgerReconciles ==
    available = ledger.topup + ledger.adjust + ledger.settle
                         + ledger.release + forgiven

Open == {r \in Recipients : Refundable(r)}

\* Net of refunds a recipient is charged once while its stamps say so, and
\* once more for every charge a re-arm forgot: neither duplicate webhooks nor
\* retried jobs nor the refund sweep can charge or refund twice (billed_at and
\* refunded_at claims).
ChargedOncePerArming ==
    \A r \in Recipients :
        charges[r] - refunds[r] =
            orphaned[r] + (IF Refundable(r) THEN 1 ELSE 0)

\* A refund stamp never outlives or precedes the charge it returns, and a
\* charge always has the settle row its refund will read the price from.
StampsAreOrdered ==
    \A r \in Recipients : /\ refunded[r] => billed[r]
                          /\ billed[r] => settleRow[r] >= MinPrice

\* The lifetime message counter covers every open charge, so the clamp on it
\* never bites.
MessagesCoverOpenCharges == messages >= direct + Cardinality(Open)
=============================================================================
