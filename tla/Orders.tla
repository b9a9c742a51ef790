------------------------------- MODULE Orders -------------------------------
(***************************************************************************)
(* The orders of one customer: the draft that the bot keeps while a thread *)
(* goes on, its promotion to an order, orders taken on a call, the         *)
(* operators' edits, payment links and the gateways' webhooks              *)
(* (whatsapp.routes.ts, lib/cart-flow.ts, lib/voice-order.ts,              *)
(* carts.routes.ts, jobs/draft-cart-ttl.ts, lib/payments/confirm.ts,       *)
(* payment-webhook.routes.ts).                                             *)
(*                                                                         *)
(* Nothing serialises the handlers of a thread.  A transaction is at READ  *)
(* COMMITTED: its reads are actions of their own, its writes appear at the *)
(* commit.                                                                 *)
(***************************************************************************)
EXTENDS Integers, FiniteSets

CONSTANTS
    Carts,          \* ids of carts
    Items,          \* what can be ordered, one line each
    Turns,          \* handlers of messages, calls and operators' requests
    Hooks,          \* handlers of the gateways' webhooks
    NoCart,
    Channels,       \* which of "whatsapp", "messenger", "call", "desk" occur
    Gateways,       \* "echo": the cart's id comes back; "invoice": a number does
    MaxLinks,       \* bound: payment links
    MaxTurns,       \* bound: turns, calls and operators' requests
    MaxFaults,      \* bound: throws and crashes
    MaxExtra        \* bound: webhooks of a link sent again after their answer

ASSUME OrdersAssumption == /\ NoCart \notin Carts
                           /\ MaxLinks \in Nat /\ MaxTurns \in Nat

ASSUME GatewaysAssumption == Gateways \subseteq {"echo", "invoice"} /\ MaxExtra \in Nat

Links == 1 .. MaxLinks

VARIABLES
    cart,       \* the carts and their lines
    link,       \* the gateways' payment links
    nonce,      \* invoices whose webhook was claimed
    turn,       \* the handlers' local records
    hook,       \* the webhook handlers' local records
    budget      \* turns and faults so far

(***************************************************************************)
(* Observations: notices of a payment per cart; carts two webhook handlers *)
(* were settling at a time; carts two transactions wrote at a time, or     *)
(* that were captured without their lines.                                 *)
(***************************************************************************)
VARIABLES notified, clash, raced

vars == <<cart, link, nonce, turn, hook, budget, notified, clash, raced>>

Statuses == {"draft", "new", "confirmed", "completed", "cancelled"}

Blank == [status |-> "unborn", chat |-> FALSE, call |-> FALSE, lines |-> {}, total |-> {},
          pay |-> "none", paid |-> FALSE, ref |-> 0]

Idle == [pc |-> "idle", chan |-> "desk", seen |-> FALSE, cart |-> NoCart, link |-> 0,
         op |-> "add", item |-> {}, read |-> {}]

Off == [pc |-> "idle", link |-> 0, cart |-> NoCart]

Init ==
    /\ \E s \in SUBSET Items :
          cart = [c \in Carts |-> IF c = (CHOOSE b \in Carts : TRUE) /\ s # {}
                                  THEN [Blank EXCEPT !.status = "draft", !.chat = TRUE,
                                                     !.lines = s, !.total = s] ELSE Blank]
    /\ link = [l \in Links |-> [cart |-> NoCart, kind |-> "echo", sent |-> FALSE, paid |-> FALSE, acked |-> FALSE, extra |-> 0]]
    /\ nonce = {}
    /\ turn = [h \in Turns |-> Idle]
    /\ hook = [k \in Hooks |-> Off]
    /\ budget = [turns |-> 0, faults |-> 0]
    /\ notified = [c \in Carts |-> 0]
    /\ clash = {}
    /\ raced = {}

Row(c) == c \in Carts /\ cart[c].status \in Statuses

Drafts == {c \in Carts : cart[c].status = "draft" /\ cart[c].chat}

Unused == {c \in Carts : cart[c].status = "unborn" /\ \A h \in Turns : turn[h].cart # c}

\* The id of a new row: one that no row has had and no transaction holds.
Fresh == IF Unused = {} THEN {} ELSE {CHOOSE c \in Unused : TRUE}

Spend(what) == budget' = [budget EXCEPT ![what] = @ + 1]

At(h, pc) == turn[h].pc = pc

Goto(h, pc) == turn' = [turn EXCEPT ![h].pc = pc]

\* A handler that stands between its reading of a cart and its commit.
Holds(h, c) == turn[h].cart = c /\ turn[h].pc \in {"sum", "write", "promote"}

\* Whoever holds the cart while another commits works on an old reading.
Overlap(h, c) ==
    raced' = IF \E g \in Turns \ {h} : Holds(g, c) THEN raced \cup {c} ELSE raced

\* What follows a section of a turn, on either outcome: its errors are caught.
After(h, section) ==
    LET chan == turn[h].chan
    IN  CASE section = "link" -> IF chan = "whatsapp" THEN "sync" ELSE "idle"
          [] section = "sync" -> IF chan = "whatsapp" THEN "clear"
                                 ELSE IF chan = "messenger" THEN "capture" ELSE "idle"
          [] section = "capture" -> IF chan = "messenger" THEN "link" ELSE "idle"

Section(pc) ==
    CASE pc \in {"link", "mint", "intent"} -> "link"
      [] pc \in {"sync", "sum", "write"} -> "sync"
      [] OTHER -> "capture"

Leave(h) ==
    LET next == After(h, Section(turn[h].pc))
    IN  turn' = [turn EXCEPT ![h] = IF next = "idle" THEN Idle
                                    ELSE [Idle EXCEPT !.pc = next, !.chan = turn[h].chan, !.seen = turn[h].seen]]

-----------------------------------------------------------------------------
(* A message of the customer's thread.                                      *)

CancelDrafts ==
    cart' = [c \in Carts |-> IF c \in Drafts THEN [cart[c] EXCEPT !.status = "cancelled"]
                             ELSE cart[c]]

\* On WhatsApp a wish to cancel and a pause of four hours cancel the drafts.
Begin(h) ==
    /\ At(h, "idle") /\ budget.turns < MaxTurns
    /\ \E chan \in Channels \cap {"whatsapp", "messenger"} :
          /\ turn' = [turn EXCEPT ![h] = [Idle EXCEPT !.pc = "look", !.chan = chan]]
          /\ \/ UNCHANGED cart
             \/ chan = "whatsapp" /\ CancelDrafts
    /\ Spend("turns")
    /\ UNCHANGED <<link, nonce, hook, notified, clash, raced>>

\* The running cart the model is told of; a link is only made if there was one.
Look(h) ==
    /\ At(h, "look")
    /\ \E lines \in IF Drafts = {} THEN {{}} ELSE {cart[c].lines : c \in Drafts} :
          turn' = [turn EXCEPT ![h].seen = lines # {},
                               ![h].pc = IF turn[h].chan = "whatsapp" THEN "link" ELSE "sync"]
    /\ UNCHANGED <<cart, link, nonce, hook, budget, notified, clash, raced>>

LinkRead(h) ==
    /\ At(h, "link")
    /\ \/ Leave(h)
       \/ \E c \in Drafts :
             /\ turn[h].seen
             /\ turn' = [turn EXCEPT ![h].cart = c, ![h].pc = "mint"]
    /\ UNCHANGED <<cart, link, nonce, hook, budget, notified, clash, raced>>

\* No link where the gateway fails or the shop takes cash.
Mint(h) ==
    /\ At(h, "mint")
    /\ \/ Leave(h) /\ UNCHANGED link
       \/ \E l \in Links, kind \in Gateways :
             /\ link[l].cart = NoCart /\ \A m \in 1 .. l - 1 : link[m].cart # NoCart
             /\ link' = [link EXCEPT ![l].cart = turn[h].cart, ![l].kind = kind]
             /\ turn' = [turn EXCEPT ![h].link = l, ![h].pc = "intent"]
    /\ UNCHANGED <<cart, nonce, hook, budget, notified, clash, raced>>

\* The customer sees the link after the intent was recorded, or was not: its
\* errors are swallowed.
Send(h) ==
    link' = IF At(h, "intent") THEN [link EXCEPT ![turn[h].link].sent = TRUE] ELSE link

\* Mutant: the intent is recorded whether the order is paid or not.
IntentAnyway(h) ==
    LET c == turn[h].cart
    IN  /\ At(h, "intent")
        /\ cart' = [cart EXCEPT ![c].pay = "pending", ![c].ref = turn[h].link]
        /\ Send(h)
        /\ Leave(h)
        /\ UNCHANGED <<nonce, hook, budget, notified, clash, raced>>

\* One conditional statement; a gateway that echoes the cart's id gives no number.
Intent(h) ==
    LET c == turn[h].cart
        l == turn[h].link
    IN  /\ At(h, "intent")
        /\ cart' = IF Row(c) /\ ~cart[c].paid
                   THEN [cart EXCEPT ![c].pay = "pending",
                                     ![c].ref = IF link[l].kind = "invoice" THEN l ELSE @]
                   ELSE cart
        /\ Send(h)
        /\ Leave(h)
        /\ UNCHANGED <<nonce, hook, budget, notified, clash, raced>>

\* The draft, or the id of the one this transaction creates.
SyncRead(h) ==
    /\ At(h, "sync")
    /\ \/ Leave(h)
       \/ \E c \in IF Drafts = {} THEN Fresh ELSE Drafts, i \in Items :
             turn' = [turn EXCEPT ![h] = [@ EXCEPT !.cart = c, !.op = "add", !.item = {i}, !.pc = "sum"]]
    /\ UNCHANGED <<cart, link, nonce, hook, budget, notified, clash, raced>>

Edited(h, lines) == IF turn[h].op = "add" THEN lines \cup turn[h].item ELSE lines \ turn[h].item

\* The lines as committed by others, with this transaction's own.
Sum(h) ==
    LET c == turn[h].cart
    IN  /\ At(h, "sum")
        /\ IF cart[c].status = "deleted" THEN Leave(h)
           ELSE turn' = [turn EXCEPT ![h].read = Edited(h, cart[c].lines), ![h].pc = "write"]
        /\ UNCHANGED <<cart, link, nonce, hook, budget, notified, clash, raced>>

\* Mutant: the lines are changed and the totals are left as they were.
WriteLines(h) ==
    LET c == turn[h].cart
    IN  /\ At(h, "write")
        /\ cart' = [cart EXCEPT ![c].lines = Edited(h, @), ![c].chat = TRUE,
                                ![c].status = IF @ = "unborn" THEN "draft" ELSE @]
        /\ Overlap(h, c)
        /\ Leave(h)
        /\ UNCHANGED <<link, nonce, hook, budget, notified, clash>>

\* The commit: the lines of others stay, the totals are those of the sum.
Write(h) ==
    LET c == turn[h].cart
    IN  /\ At(h, "write")
        /\ IF cart[c].status = "deleted" THEN UNCHANGED <<cart, raced>>
           ELSE /\ cart' = [cart EXCEPT ![c].lines = Edited(h, @), ![c].total = turn[h].read,
                                        ![c].status = IF @ = "unborn" THEN "draft" ELSE @,
                                        ![c].chat = @ \/ cart[c].status = "unborn",
                                        ![c].call = @ \/ turn[h].chan = "call"]
                /\ Overlap(h, c)
        /\ Leave(h)
        /\ UNCHANGED <<link, nonce, hook, budget, notified, clash>>

\* [CLEAR_CART]: the customer does not want the leftover draft.
Clear(h) ==
    /\ At(h, "clear")
    /\ UNCHANGED cart \/ CancelDrafts
    /\ Goto(h, "capture")
    /\ UNCHANGED <<link, nonce, hook, budget, notified, clash, raced>>

\* The draft's lines or, without any, those of the marker; on WhatsApp the marker
\* counts only while the thread has no other recent order.
CaptureRead(h) ==
    /\ At(h, "capture")
    /\ \/ /\ turn[h].chan # "call"
          /\ Leave(h)
       \/ \E c \in Drafts :
             /\ turn[h].chan # "call"
             /\ \E s \in IF cart[c].lines # {} THEN {{}} ELSE {{i} : i \in Items} :
                   turn' = [turn EXCEPT ![h] = [@ EXCEPT !.cart = c, !.read = cart[c].lines,
                                                         !.item = s, !.pc = "promote"]]
       \/ \E c \in Fresh, i \in Items :
             /\ turn[h].chan = "call" \/ Drafts = {}
             /\ turn' = [turn EXCEPT ![h] = [@ EXCEPT !.cart = c, !.read = {},
                                                      !.item = {i}, !.pc = "promote"]]
    /\ UNCHANGED <<cart, link, nonce, hook, budget, notified, clash, raced>>

\* By id, from what was read: a line added in between is dropped on WhatsApp and
\* left uncounted elsewhere; on WhatsApp an empty draft gets no lines either.
Promote(h) ==
    LET c == turn[h].cart
        t == turn[h]
        total == t.read \cup t.item
        born == cart[c].status # "unborn"
    IN  /\ At(h, "promote")
        /\ IF cart[c].status = "deleted" THEN UNCHANGED <<cart, raced>> /\ Leave(h)
           ELSE /\ cart' = [cart EXCEPT ![c].status = "new", ![c].total = total,
                                        ![c].lines = IF t.chan = "whatsapp" /\ born
                                                     THEN @ \cap total ELSE @ \cup t.item,
                                        ![c].chat = born \/ t.chan # "call",
                                        ![c].call = @ \/ t.chan = "call"]
                /\ IF born /\ t.chan = "whatsapp" /\ t.read = {}
                   THEN raced' = raced \cup {c} ELSE Overlap(h, c)
                /\ IF t.chan = "call" THEN Goto(h, "mint") ELSE Leave(h)
        /\ UNCHANGED <<link, nonce, hook, budget, notified, clash>>

\* An exception ends its section, and the transaction; a crash ends the handler.
TurnFault(h) ==
    /\ ~At(h, "idle")
    /\ budget.faults < MaxFaults
    /\ \/ turn[h].pc \notin {"look", "clear"} /\ Leave(h) /\ Send(h)
       \/ turn' = [turn EXCEPT ![h] = Idle] /\ UNCHANGED link
    /\ Spend("faults")
    /\ UNCHANGED <<cart, nonce, hook, notified, clash, raced>>

-----------------------------------------------------------------------------
(* A call, and the operators.                                               *)

\* A submission that was answered before is answered again; "continue" adds to
\* the customer's open order that is not paid.
Submit(h) ==
    /\ At(h, "idle") /\ budget.turns < MaxTurns /\ "call" \in Channels
    /\ LET open == {c \in Carts : cart[c].status \in {"new", "confirmed"} /\ cart[c].pay # "paid"}
           mine == {c \in Carts : Row(c) /\ cart[c].call /\ cart[c].status # "cancelled"}
           start == [Idle EXCEPT !.chan = "call"]
       IN  \/ /\ mine = {}
              /\ turn' = [turn EXCEPT ![h] = [start EXCEPT !.pc = "capture"]]
           \/ \E c \in open, i \in Items :
                 turn' = [turn EXCEPT ![h] = [start EXCEPT !.cart = c, !.item = {i}, !.pc = "sum"]]
           \/ /\ open = {}
              /\ turn' = [turn EXCEPT ![h] = [start EXCEPT !.pc = "capture"]]
    /\ Spend("turns")
    /\ UNCHANGED <<cart, link, nonce, hook, notified, clash, raced>>

\* A line is added or removed and the totals are computed again.
EditLine(h) ==
    /\ At(h, "idle") /\ budget.turns < MaxTurns /\ "desk" \in Channels
    /\ \E c \in Carts, i \in Items, op \in {"add", "remove"} :
          /\ Row(c) /\ (op = "remove" => i \in cart[c].lines)
          /\ turn' = [turn EXCEPT ![h] = [Idle EXCEPT !.cart = c, !.op = op, !.item = {i}, !.pc = "sum"]]
    /\ Spend("turns")
    /\ UNCHANGED <<cart, link, nonce, hook, notified, clash, raced>>

PostCart(c) ==
    /\ c \in Fresh /\ budget.turns < MaxTurns
    /\ \E i \in Items, s \in {"draft", "new"}, chat \in BOOLEAN :
          cart' = [cart EXCEPT ![c] = [Blank EXCEPT !.status = s, !.chat = chat,
                                                    !.lines = {i}, !.total = {i}]]
    /\ Spend("turns")
    /\ UNCHANGED <<link, nonce, turn, hook, notified, clash, raced>>

\* Any status may follow any other.
PatchStatus(c) ==
    /\ Row(c) /\ budget.turns < MaxTurns
    /\ \E s \in Statuses : cart' = [cart EXCEPT ![c].status = s]
    /\ Spend("turns")
    /\ UNCHANGED <<link, nonce, turn, hook, notified, clash, raced>>

DeleteCart(c) ==
    /\ Row(c) /\ budget.turns < MaxTurns
    /\ cart' = [cart EXCEPT ![c] = [Blank EXCEPT !.status = "deleted"]]
    /\ Spend("turns")
    /\ UNCHANGED <<link, nonce, turn, hook, notified, clash, raced>>

\* Drafts that nobody touched for a fortnight.
Sweep ==
    /\ Drafts # {}
    /\ CancelDrafts
    /\ UNCHANGED <<link, nonce, turn, hook, budget, notified, clash, raced>>

-----------------------------------------------------------------------------
(* The customer pays and the gateway tells so until it has an answer.       *)

Pay(l) ==
    /\ link[l].sent /\ ~link[l].paid
    /\ link' = [link EXCEPT ![l].paid = TRUE]
    /\ UNCHANGED <<cart, nonce, turn, hook, budget, notified, clash, raced>>

Step(k, pc) == hook' = [hook EXCEPT ![k].pc = pc]

Answer(k) ==
    /\ link' = [link EXCEPT ![hook[k].link].acked = TRUE]
    /\ hook' = [hook EXCEPT ![k] = Off]

\* Mutant: the gateway is answered before its webhook is handled.
ReceiveAnswered(k, l) ==
    /\ hook[k].pc = "idle"
    /\ link[l].paid /\ ~link[l].acked
    /\ link' = [link EXCEPT ![l].acked = TRUE]
    /\ hook' = [hook EXCEPT ![k] = [pc |-> IF link[l].kind = "invoice" THEN "claim" ELSE "read",
                                    link |-> l, cart |-> link[l].cart]]
    /\ UNCHANGED <<cart, nonce, turn, budget, notified, clash, raced>>

\* Signature, then for an invoice the nonce: a second webhook is a duplicate.
Receive(k, l) ==
    /\ hook[k].pc = "idle"
    /\ link[l].paid
    /\ \/ ~link[l].acked /\ UNCHANGED link
       \/ link[l].acked /\ link[l].extra < MaxExtra
          /\ link' = [link EXCEPT ![l].extra = @ + 1]
    /\ hook' = [hook EXCEPT ![k] = [pc |-> IF link[l].kind = "invoice" THEN "claim" ELSE "read",
                                    link |-> l, cart |-> link[l].cart]]
    /\ UNCHANGED <<cart, nonce, turn, budget, notified, clash, raced>>

Claim(k) ==
    /\ hook[k].pc = "claim"
    /\ IF hook[k].link \in nonce THEN Answer(k) /\ UNCHANGED nonce
       ELSE /\ nonce' = nonce \cup {hook[k].link}
            /\ Step(k, "find") /\ UNCHANGED link
    /\ UNCHANGED <<cart, turn, budget, notified, clash, raced>>

\* Mutant: an open order of the customer, whichever invoice it awaits.
FindOpen(k) ==
    /\ hook[k].pc = "find"
    /\ \E c \in Carts : Row(c) /\ ~cart[c].paid
                        /\ hook' = [hook EXCEPT ![k].cart = c, ![k].pc = "read"]
    /\ UNCHANGED <<cart, link, nonce, turn, budget, notified, clash, raced>>

Find(k) ==
    LET found == {c \in Carts : Row(c) /\ cart[c].ref = hook[k].link}
    IN  /\ hook[k].pc = "find"
        /\ IF found = {} THEN Answer(k)
           ELSE /\ \E c \in found : hook' = [hook EXCEPT ![k].cart = c, ![k].pc = "read"]
                /\ UNCHANGED link
        /\ UNCHANGED <<cart, nonce, turn, budget, notified, clash, raced>>

\* Mutant: the payment is confirmed again.
ReadAnyPayment(k) ==
    LET c == hook[k].cart
    IN  /\ hook[k].pc = "read"
        /\ IF Row(c) THEN Step(k, "settle") /\ UNCHANGED link ELSE Answer(k)
        /\ UNCHANGED <<cart, nonce, turn, budget, notified, clash, raced>>

Read(k) ==
    LET c == hook[k].cart
    IN  /\ hook[k].pc = "read"
        /\ IF Row(c) /\ ~cart[c].paid THEN Step(k, "settle") /\ UNCHANGED link ELSE Answer(k)
        /\ clash' = IF \E j \in Hooks \ {k} : hook[j].pc = "settle" /\ hook[j].cart = c
                    THEN clash \cup {c} ELSE clash
        /\ UNCHANGED <<cart, nonce, turn, budget, notified, raced>>

\* By id; the row that is gone makes it throw, and the gateway call again.
Settle(k) ==
    LET c == hook[k].cart
        l == hook[k].link
    IN  /\ hook[k].pc = "settle"
        /\ IF Row(c)
           THEN /\ cart' = [cart EXCEPT ![c] = [@ EXCEPT !.status = "confirmed", !.pay = "paid",
                                                         !.paid = TRUE, !.ref = IF link[l].kind = "invoice" THEN l ELSE 0]]
                /\ Step(k, "notify")
           ELSE hook' = [hook EXCEPT ![k] = Off] /\ UNCHANGED cart
        /\ UNCHANGED <<link, nonce, turn, budget, notified, clash, raced>>

\* Notification and order_paid event, whose errors are swallowed.
Notify(k) ==
    /\ hook[k].pc = "notify"
    /\ notified' = [notified EXCEPT ![hook[k].cart] = @ + 1]
    /\ Step(k, "answer")
    /\ UNCHANGED <<cart, link, nonce, turn, budget, clash, raced>>

Reply(k) ==
    /\ hook[k].pc = "answer"
    /\ Answer(k)
    /\ UNCHANGED <<cart, nonce, turn, budget, notified, clash, raced>>

HookFault(k) ==
    /\ hook[k].pc # "idle"
    /\ budget.faults < MaxFaults
    /\ hook' = [hook EXCEPT ![k] = Off]
    /\ Spend("faults")
    /\ UNCHANGED <<cart, link, nonce, turn, notified, clash, raced>>

-----------------------------------------------------------------------------
Chat(h) ==
    \/ Begin(h) \/ Look(h) \/ LinkRead(h) \/ Mint(h) \/ Intent(h)
    \/ SyncRead(h) \/ Sum(h) \/ Write(h) \/ Clear(h)
    \/ CaptureRead(h) \/ Promote(h)

Desk(c) == PostCart(c) \/ PatchStatus(c) \/ DeleteCart(c)

Settlement(k) ==
    \/ \E l \in Links : Receive(k, l)
    \/ Claim(k) \/ Find(k) \/ Read(k) \/ Settle(k) \/ Notify(k) \/ Reply(k)

Next ==
    \/ \E h \in Turns : Chat(h) \/ TurnFault(h) \/ Submit(h) \/ EditLine(h)
    \/ \E c \in Carts : Desk(c)
    \/ Sweep
    \/ \E l \in Links : Pay(l)
    \/ \E k \in Hooks : Settlement(k) \/ HookFault(k)

Spec == Init /\ [][Next]_vars

\* Gateways repeat a webhook until they have an answer, and what the server has
\* begun goes on; a customer need not write, order or pay.
FairSpec == Spec /\ \A k \in Hooks : WF_vars(Settlement(k))

-----------------------------------------------------------------------------
(* Types of the rows and of the handlers' records.                          *)
TypeOK ==
    /\ cart \in [Carts -> [status : Statuses \cup {"unborn", "deleted"}, chat : BOOLEAN, call : BOOLEAN,
                           lines : SUBSET Items, total : SUBSET Items,
                           pay : {"none", "pending", "paid"}, paid : BOOLEAN, ref : 0 .. MaxLinks]]
    /\ link \in [Links -> [cart : Carts \cup {NoCart}, kind : {"echo", "invoice"}, sent : BOOLEAN, paid : BOOLEAN,
                           acked : BOOLEAN, extra : 0 .. MaxExtra]]
    /\ nonce \subseteq Links
    /\ \A h \in Turns : turn[h].pc \in {"look", "link", "mint", "intent", "sync", "sum", "write", "clear",
                                        "capture", "promote", "idle"}
    /\ \A k \in Hooks : hook[k].pc # "idle" => hook[k].link \in Links /\ hook[k].cart \in Carts
    /\ notified \in [Carts -> Nat]
    /\ clash \subseteq Carts /\ raced \subseteq Carts

\* An order is paid only if its customer paid one of its links: neither a second
\* link nor an old invoice number settles another order.
PaidWasPaid ==
    \A c \in Carts : cart[c].paid => \E l \in Links : link[l].cart = c /\ link[l].paid

\* "paidAt is set once": whatever a late link, a promotion that had read the draft,
\* a cancellation or the sweep write, the order stays paid, and it is cancelled or
\* completed by operators only (or made a draft again by them first).
PaidStaysPaid ==
    [][\A c \in Carts :
          cart[c].paid /\ cart'[c].status # "deleted" =>
              /\ cart'[c].paid /\ cart'[c].pay = "paid"
              /\ \/ cart'[c].status \in {cart[c].status, "new", "confirmed"}
                 \/ cart[c].status = "draft" \/ PatchStatus(c)]_vars

\* "Flips an order to paid exactly once": one notice of a payment, unless two
\* webhook handlers had read the order before either settled it.
NotifiedOnce == \A c \in Carts : notified[c] <= 1 \/ c \in clash

\* What an order's totals count is its lines, unless two transactions changed it
\* at a time or a draft without lines was captured from the marker.
TotalsMatchLines ==
    \A c \in Carts : Row(c) => cart[c].total = cart[c].lines \/ c \in raced

\* An invoice is lost where another link took its number's place on the order,
\* the number was never stored, or a fault came after the nonce was claimed.
Misplaced(l) == link[l].kind = "invoice" /\ (cart[link[l].cart].ref # l \/ budget.faults > 0)

Seen(l) ==
    /\ link[l].cart # NoCart
    /\ cart[link[l].cart].paid \/ cart[link[l].cart].status = "deleted" \/ Misplaced(l)

\* Money that arrived is seen on its order in the end, unless its invoice was lost
\* or the order deleted: the gateway repeats the webhook until it is answered.
MoneyIsSeen == \A l \in Links : link[l].paid ~> Seen(l)
=============================================================================
