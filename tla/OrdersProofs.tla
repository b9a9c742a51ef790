----------------------------- MODULE OrdersProofs -----------------------------
(***************************************************************************)
(* For any number of carts, items, handlers, links and webhooks: what is   *)
(* paid was paid for, is notified once and stays paid, and an order's      *)
(* totals are those of its lines.                                          *)
(***************************************************************************)
EXTENDS Orders, TLAPS

CartRow == [status : Statuses \cup {"unborn", "deleted"}, chat : BOOLEAN, call : BOOLEAN,
            lines : SUBSET Items, total : SUBSET Items,
            pay : {"none", "pending", "paid"}, paid : BOOLEAN, ref : 0 .. MaxLinks]

LinkRow == [cart : Carts \cup {NoCart}, kind : Gateways \cup {"echo"}, sent : BOOLEAN,
            paid : BOOLEAN, acked : BOOLEAN, extra : Int]

\* The pcs of a handler that is between two sections of its turn.
Free == {"idle", "look", "link", "sync", "clear", "capture"}
Busy == {"mint", "intent", "sum", "write", "promote"}

TurnRow == [pc : Free \cup Busy, chan : {"whatsapp", "messenger", "call", "desk"}, seen : BOOLEAN,
            cart : Carts \cup {NoCart}, link : 0 .. MaxLinks, op : {"add", "remove"},
            item : SUBSET Items, read : SUBSET Items]

HookRow == [pc : {"idle", "claim", "find", "read", "settle", "notify", "answer"},
            link : 0 .. MaxLinks, cart : Carts \cup {NoCart}]

Types ==
    /\ cart \in [Carts -> CartRow]
    /\ link \in [Links -> LinkRow]
    /\ turn \in [Turns -> TurnRow]
    /\ hook \in [Hooks -> HookRow]
    /\ notified \in [Carts -> Nat]
    /\ clash \subseteq Carts /\ raced \subseteq Carts

\* A link that the customer may have belongs to a cart.
LinkOk(l) == link[l].sent \/ link[l].paid => link[l].cart \in Carts

\* A cart's money came by a link of its own, and so did the number it awaits.
CartOk(c) ==
    /\ cart[c].status = "unborn" => cart[c] = Blank
    /\ cart[c].paid => cart[c].status \in Statuses /\ cart[c].pay = "paid"
    /\ cart[c].paid => \E l \in Links : link[l].cart = c /\ link[l].paid
    /\ cart[c].ref \in Links => link[cart[c].ref].cart = c
    /\ cart[c].status \in Statuses => cart[c].total = cart[c].lines \/ c \in raced

\* What a handler has read of its cart holds until it commits, unless the cart was raced.
TurnOk(h) ==
    LET t == turn[h]
        c == turn[h].cart
    IN  /\ t.pc \in Busy => c \in Carts
        /\ t.pc = "intent" => t.link \in Links /\ link[t.link].cart = c
        /\ t.pc = "write" /\ c \notin raced /\ cart[c].status # "deleted" => t.read = Edited(h, cart[c].lines)
        /\ t.pc = "promote" => t.read = {} \/ t.item = {}
        /\ t.pc = "promote" /\ c \notin raced /\ cart[c].status # "deleted" => t.read = cart[c].lines

\* A webhook is about money that came by the cart's link.
HookOk(k) ==
    hook[k].pc # "idle" => /\ hook[k].link \in Links
                           /\ link[hook[k].link].paid /\ link[hook[k].link].cart = hook[k].cart

On(k, pc, c) == hook[k].pc = pc /\ hook[k].cart = c

\* One webhook settles a cart and notifies of it, and then none does.
NoticeOk(c) ==
    c \notin clash =>
        /\ notified[c] <= 1
        /\ \A j, k \in Hooks : On(j, "settle", c) /\ On(k, "settle", c) => j = k
        /\ \A j, k \in Hooks : On(j, "notify", c) /\ On(k, "notify", c) => j = k
        /\ \A j, k \in Hooks : ~(On(j, "settle", c) /\ On(k, "notify", c))
        /\ \A k \in Hooks : On(k, "settle", c) \/ On(k, "notify", c) => notified[c] = 0
        /\ notified[c] > 0 \/ (\E k \in Hooks : On(k, "notify", c))
              => cart[c].paid \/ cart[c].status = "deleted"

Inv ==
    /\ Types
    /\ \A l \in Links : LinkOk(l)
    /\ \A c \in Carts : CartOk(c)
    /\ \A h \in Turns : TurnOk(h)
    /\ \A k \in Hooks : HookOk(k)
    /\ \A c \in Carts : NoticeOk(c)

-----------------------------------------------------------------------------
(* What leaves each part of the invariant alone.                            *)

\* A link keeps its cart and its money.
LinksGrow ==
    /\ link' \in [Links -> LinkRow]
    /\ \A l \in Links : /\ link[l].cart \in Carts => link'[l].cart = link[l].cart
                        /\ link[l].paid => link'[l].paid
                        /\ LinkOk(l)'

LEMMA SameLinks == Inv /\ link' = link => LinksGrow
  BY DEF Inv, Types, LinksGrow, LinkOk

LEMMA CartStays ==
    ASSUME Inv, NEW c \in Carts, cart'[c] = cart[c], LinksGrow, raced \subseteq raced'
    PROVE  CartOk(c)'
<1>1. CartOk(c)
  BY DEF Inv
<1>2. \A l \in Links : link[l].cart = c => link'[l].cart = c /\ (link[l].paid => link'[l].paid)
  BY DEF LinksGrow
<1>3. (cart[c].status = "unborn" => cart[c] = Blank)'
  BY <1>1 DEF CartOk, Blank
<1>4. cart'[c].paid => cart'[c].status \in Statuses /\ cart'[c].pay = "paid"
  BY <1>1 DEF CartOk
<1>5. cart'[c].paid => \E l \in Links : link'[l].cart = c /\ link'[l].paid
  BY <1>1, <1>2 DEF CartOk
<1>6. cart'[c].ref \in Links => link'[cart'[c].ref].cart = c
  BY <1>1, <1>2 DEF CartOk
<1>7. cart'[c].status \in Statuses => cart'[c].total = cart'[c].lines \/ c \in raced'
  BY <1>1 DEF CartOk
<1> QED
  BY <1>3, <1>4, <1>5, <1>6, <1>7 DEF CartOk

\* A handler's reading survives what the others do to its cart.
LEMMA TurnStays ==
    ASSUME Inv, NEW h \in Turns, turn'[h] = turn[h], LinksGrow, raced \subseteq raced',
           Holds(h, turn[h].cart) =>
               \/ turn[h].cart \in raced' \/ cart'[turn[h].cart].status = "deleted"
               \/ /\ cart'[turn[h].cart].lines = cart[turn[h].cart].lines
                  /\ cart[turn[h].cart].status # "deleted"
    PROVE  TurnOk(h)'
<1> DEFINE t == turn[h]
           c == turn[h].cart
<1>1. TurnOk(h) /\ turn'[h] = t
  BY DEF Inv
<1>2. t.pc \in Busy => c \in Carts
  BY <1>1 DEF TurnOk
<1>3. t.pc = "intent" => t.link \in Links /\ link'[t.link].cart = c
  BY <1>1, <1>2 DEF TurnOk, LinksGrow, Busy
<1>4. t.pc = "write" /\ c \notin raced' /\ cart'[c].status # "deleted"
         => cart'[c].lines = cart[c].lines /\ cart[c].status # "deleted" /\ c \notin raced
  BY DEF Holds
<1>5. t.pc = "promote" /\ c \notin raced' /\ cart'[c].status # "deleted"
         => cart'[c].lines = cart[c].lines /\ cart[c].status # "deleted" /\ c \notin raced
  BY DEF Holds
<1>6. t.pc = "write" /\ c \notin raced' /\ cart'[c].status # "deleted"
         => t.read = IF t.op = "add" THEN cart'[c].lines \cup t.item ELSE cart'[c].lines \ t.item
  BY <1>1, <1>4 DEF TurnOk, Edited
<1>7. t.pc = "promote" => t.read = {} \/ t.item = {}
  BY <1>1 DEF TurnOk
<1>8. t.pc = "promote" /\ c \notin raced' /\ cart'[c].status # "deleted" => t.read = cart'[c].lines
  BY <1>1, <1>5 DEF TurnOk
<1> QED
  BY <1>1, <1>2, <1>3, <1>6, <1>7, <1>8 DEF TurnOk, Edited

LEMMA FreeIsOk ==
    ASSUME NEW h \in Turns, turn'[h].pc \in Free
    PROVE  TurnOk(h)'
  BY DEF TurnOk, Free, Busy

LEMMA HookStays ==
    ASSUME Inv, NEW k \in Hooks, hook'[k] = hook[k], LinksGrow
    PROVE  HookOk(k)'
<1>1. HookOk(k) /\ \A l \in Links : LinkOk(l)
  BY DEF Inv
<1>2. hook[k].pc # "idle" => link[hook[k].link].cart \in Carts
  BY <1>1 DEF HookOk, LinkOk
<1> QED
  BY <1>1, <1>2 DEF HookOk, LinksGrow

LEMMA NoticeStays ==
    ASSUME Inv, NEW c \in Carts, clash \subseteq clash', notified'[c] = notified[c],
           \A k \in Hooks : /\ On(k, "settle", c)' => On(k, "settle", c)
                            /\ On(k, "notify", c)' => On(k, "notify", c),
           cart[c].paid \/ cart[c].status = "deleted" => cart'[c].paid \/ cart'[c].status = "deleted"
    PROVE  NoticeOk(c)'
<1>1. NoticeOk(c)
  BY DEF Inv
<1> QED
  BY <1>1 DEF NoticeOk

\* The parts put together, where the webhooks do nothing.
LEMMA WithoutHooks ==
    ASSUME Inv, LinksGrow, cart' \in [Carts -> CartRow], turn' \in [Turns -> TurnRow],
           UNCHANGED <<hook, notified, clash>>, raced \subseteq raced', raced' \subseteq Carts,
           \A c \in Carts : /\ CartOk(c)'
                            /\ cart[c].paid \/ cart[c].status = "deleted"
                                 => cart'[c].paid \/ cart'[c].status = "deleted",
           \A h \in Turns : TurnOk(h)'
    PROVE  Inv'
<1>1. \A k \in Hooks : HookOk(k)'
  BY HookStays
<1>2. \A c \in Carts : NoticeOk(c)'
  <2> TAKE c \in Carts
  <2>1. \A k \in Hooks : /\ On(k, "settle", c)' => On(k, "settle", c)
                         /\ On(k, "notify", c)' => On(k, "notify", c)
    BY DEF On
  <2> QED
    BY <2>1, NoticeStays
<1>3. Types'
  BY DEF Inv, Types, LinksGrow
<1>4. \A l \in Links : LinkOk(l)'
  BY DEF LinksGrow
<1> QED
  BY <1>1, <1>2, <1>3, <1>4 DEF Inv

-----------------------------------------------------------------------------
(* The handlers of messages, calls and operators' requests.                 *)

\* Only the handler's record changes, and the links.
LEMMA TurnAlone ==
    ASSUME Inv, NEW h \in Turns, NEW t \in TurnRow, turn' = [turn EXCEPT ![h] = t], TurnOk(h)',
           LinksGrow, UNCHANGED <<cart, hook, notified, clash, raced>>
    PROVE  Inv'
<1>1. turn' \in [Turns -> TurnRow] /\ \A g \in Turns \ {h} : turn'[g] = turn[g]
  BY DEF Inv, Types
<1>2. \A g \in Turns : TurnOk(g)'
  <2>1. ASSUME NEW g \in Turns \ {h} PROVE TurnOk(g)'
    <3>1. Holds(g, turn[g].cart) =>
            \/ cart'[turn[g].cart].status = "deleted" \/ cart[turn[g].cart].status # "deleted"
      OBVIOUS
    <3> QED
      BY <1>1, <3>1, TurnStays
  <2> QED
    BY <2>1
<1>3. \A c \in Carts : CartOk(c)'
  BY CartStays
<1>4. cart' \in [Carts -> CartRow] /\ raced' \subseteq Carts
  BY DEF Inv, Types
<1> QED
  BY <1>1, <1>2, <1>3, <1>4, WithoutHooks

LEMMA LeavesFree ==
    ASSUME Types, NEW h \in Turns, Leave(h)
    PROVE  \E t \in TurnRow : t.pc \in Free /\ turn' = [turn EXCEPT ![h] = t]
<1> DEFINE next == After(h, Section(turn[h].pc))
           t == IF next = "idle" THEN Idle
                ELSE [Idle EXCEPT !.pc = next, !.chan = turn[h].chan, !.seen = turn[h].seen]
<1>1. next \in Free
  BY DEF After, Section, Free
<1>2. turn[h] \in TurnRow
  BY DEF Types
<1>3. turn[h].chan \in {"whatsapp", "messenger", "call", "desk"} /\ turn[h].seen \in BOOLEAN
  BY <1>2 DEF TurnRow
<1>4. turn' = [turn EXCEPT ![h] = t]
  BY DEF Leave
<1> HIDE DEF next
<1>5. Idle \in TurnRow /\ Idle.pc \in Free
  BY OrdersAssumption DEF Idle, TurnRow, Free
<1>6. t \in TurnRow /\ t.pc \in Free
  BY <1>1, <1>3, <1>5 DEF TurnRow
<1> QED
  BY <1>4, <1>6

LEMMA LeaveAlone ==
    ASSUME Inv, NEW h \in Turns, Leave(h), LinksGrow, UNCHANGED <<cart, hook, notified, clash, raced>>
    PROVE  Inv'
<1>1. PICK t \in TurnRow : t.pc \in Free /\ turn' = [turn EXCEPT ![h] = t]
  BY LeavesFree DEF Inv
<1>2. TurnOk(h)'
  BY <1>1, FreeIsOk DEF Inv, Types
<1> QED
  BY <1>1, <1>2, TurnAlone

LEMMA FreshIsUnborn ==
    ASSUME Inv, NEW c \in Fresh
    PROVE  /\ c \in Carts /\ cart[c] = Blank /\ cart[c].status = "unborn"
           /\ \A h \in Turns : turn[h].cart # c
<1>1. c \in Unused
  BY DEF Fresh
<1>2. c \in Carts /\ CartOk(c)
  BY <1>1 DEF Unused, Inv
<1> QED
  BY <1>1, <1>2 DEF Unused, CartOk

\* What is read of a cart at work is what it holds now.
LEMMA ReadSteps ==
    ASSUME Inv, NEW h \in Turns
    PROVE  Look(h) \/ LinkRead(h) \/ SyncRead(h) \/ Sum(h) \/ CaptureRead(h) => Inv'
<1>0. turn[h] \in TurnRow /\ TurnOk(h) /\ cart \in [Carts -> CartRow]
  BY DEF Inv, Types
<1>1. ASSUME Look(h) PROVE Inv'
  <2>1. PICK lines \in {cart[c].lines : c \in Drafts} \cup {{}} :
           turn' = [turn EXCEPT ![h].seen = lines # {},
                                ![h].pc = IF turn[h].chan = "whatsapp" THEN "link" ELSE "sync"]
    BY <1>1 DEF Look
  <2> DEFINE t == [turn[h] EXCEPT !.seen = lines # {}, !.pc = IF turn[h].chan = "whatsapp" THEN "link" ELSE "sync"]
  <2>2. (lines # {}) \in BOOLEAN
    OBVIOUS
  <2>3. t \in TurnRow /\ t.pc \in Free
    BY <1>0, <2>2 DEF TurnRow, Free
  <2>4. turn' = [turn EXCEPT ![h] = t]
    BY <2>1
  <2> HIDE DEF t
  <2>5. TurnOk(h)'
    BY <2>3, <2>4, FreeIsOk DEF Inv, Types
  <2> QED
    BY <1>1, <2>3, <2>4, <2>5, SameLinks, TurnAlone DEF Look
<1>2. ASSUME LinkRead(h) PROVE Inv'
  <2>1. CASE Leave(h)
    BY <1>2, <2>1, SameLinks, LeaveAlone DEF LinkRead
  <2>2. ASSUME NEW c \in Drafts, turn' = [turn EXCEPT ![h].cart = c, ![h].pc = "mint"]
        PROVE  Inv'
    <3> DEFINE t == [turn[h] EXCEPT !.cart = c, !.pc = "mint"]
    <3>1. t \in TurnRow /\ t.pc = "mint" /\ t.cart \in Carts
      BY <1>0 DEF TurnRow, Busy, Drafts
    <3>2. turn' = [turn EXCEPT ![h] = t]
      BY <2>2
    <3> HIDE DEF t
    <3>3. turn'[h] = t
      BY <3>2 DEF Inv, Types
    <3>4. TurnOk(h)'
      BY <3>1, <3>3 DEF TurnOk
    <3> QED
      BY <1>2, <3>1, <3>2, <3>4, SameLinks, TurnAlone DEF LinkRead
  <2> QED
    BY <1>2, <2>1, <2>2 DEF LinkRead
<1>3. ASSUME SyncRead(h) PROVE Inv'
  <2>1. CASE Leave(h)
    BY <1>3, <2>1, SameLinks, LeaveAlone DEF SyncRead
  <2>2. ASSUME NEW c \in Carts, NEW i \in Items,
               turn' = [turn EXCEPT ![h] = [turn[h] EXCEPT !.cart = c, !.op = "add", !.item = {i}, !.pc = "sum"]]
        PROVE  Inv'
    <3> DEFINE t == [turn[h] EXCEPT !.cart = c, !.op = "add", !.item = {i}, !.pc = "sum"]
    <3>1. t \in TurnRow /\ t.pc = "sum" /\ t.cart \in Carts
      BY <1>0 DEF TurnRow, Busy
    <3> HIDE DEF t
    <3>2. turn' = [turn EXCEPT ![h] = t]
      BY <2>2 DEF t
    <3>3. turn'[h] = t
      BY <3>2 DEF Inv, Types
    <3>4. TurnOk(h)'
      BY <3>1, <3>3 DEF TurnOk
    <3> QED
      BY <1>3, <3>1, <3>2, <3>4, SameLinks, TurnAlone DEF SyncRead
  <2> QED
    BY <1>3, <2>1, <2>2, FreshIsUnborn DEF SyncRead, Drafts
<1>4. ASSUME Sum(h) PROVE Inv'
  <2>1. CASE Leave(h)
    BY <1>4, <2>1, SameLinks, LeaveAlone DEF Sum
  <2>2. CASE turn' = [turn EXCEPT ![h].read = Edited(h, cart[turn[h].cart].lines), ![h].pc = "write"]
    <3> DEFINE c == turn[h].cart
               s == Edited(h, cart[c].lines)
               t == [turn[h] EXCEPT !.read = s, !.pc = "write"]
    <3>1. c \in Carts
      BY <1>0, <1>4 DEF Sum, At, TurnOk, Busy
    <3>2. s \in SUBSET Items
      BY <1>0, <3>1 DEF Edited, TurnRow, CartRow
    <3>3. s = IF turn[h].op = "add" THEN cart[c].lines \cup turn[h].item ELSE cart[c].lines \ turn[h].item
      BY DEF Edited
    <3> HIDE DEF s
    <3>4. /\ t \in TurnRow /\ t.pc = "write" /\ t.cart = c /\ t.read = s
          /\ t.op = turn[h].op /\ t.item = turn[h].item
      BY <1>0, <3>2 DEF TurnRow, Busy
    <3>5. turn' = [turn EXCEPT ![h] = t]
      BY <2>2 DEF s
    <3> HIDE DEF t
    <3>6. turn'[h] = t /\ cart' = cart
      BY <1>4, <3>5 DEF Inv, Types, Sum
    <3>7. TurnOk(h)'
      BY <3>1, <3>3, <3>4, <3>6 DEF TurnOk, Edited
    <3> QED
      BY <1>4, <3>4, <3>5, <3>7, SameLinks, TurnAlone DEF Sum
  <2> QED
    BY <1>4, <2>1, <2>2 DEF Sum
<1>5. ASSUME CaptureRead(h) PROVE Inv'
  <2>1. CASE Leave(h)
    BY <1>5, <2>1, SameLinks, LeaveAlone DEF CaptureRead
  <2>2. ASSUME NEW c \in Carts, NEW s \in SUBSET Items, NEW i \in SUBSET Items,
               s = cart[c].lines, s = {} \/ i = {},
               turn' = [turn EXCEPT ![h] = [turn[h] EXCEPT !.cart = c, !.read = s, !.item = i, !.pc = "promote"]]
        PROVE  Inv'
    <3> DEFINE t == [turn[h] EXCEPT !.cart = c, !.read = s, !.item = i, !.pc = "promote"]
    <3>1. t \in TurnRow /\ t.pc = "promote" /\ t.cart = c /\ t.read = s /\ t.item = i
      BY <1>0 DEF TurnRow, Busy
    <3> HIDE DEF t
    <3>2. turn' = [turn EXCEPT ![h] = t]
      BY <2>2 DEF t
    <3>3. turn'[h] = t /\ cart' = cart
      BY <1>5, <3>2 DEF Inv, Types, CaptureRead
    <3>4. TurnOk(h)'
      BY <2>2, <3>1, <3>3 DEF TurnOk
    <3> QED
      BY <1>5, <3>1, <3>2, <3>4, SameLinks, TurnAlone DEF CaptureRead
  <2>3. ASSUME NEW c \in Drafts,
               \E s \in IF cart[c].lines # {} THEN {{}} ELSE {{i} : i \in Items} :
                   turn' = [turn EXCEPT ![h] = [turn[h] EXCEPT !.cart = c, !.read = cart[c].lines,
                                                               !.item = s, !.pc = "promote"]]
        PROVE  Inv'
    <3>1. c \in Carts /\ cart[c].lines \in SUBSET Items
      BY <1>0 DEF Drafts, CartRow
    <3>2. PICK s \in IF cart[c].lines # {} THEN {{}} ELSE {{i} : i \in Items} :
             turn' = [turn EXCEPT ![h] = [turn[h] EXCEPT !.cart = c, !.read = cart[c].lines,
                                                         !.item = s, !.pc = "promote"]]
      BY <2>3
    <3>3. s \in SUBSET Items /\ (cart[c].lines = {} \/ s = {})
      OBVIOUS
    <3> QED
      BY <2>2, <3>1, <3>2, <3>3, Zenon
  <2>4. ASSUME NEW c \in Fresh, NEW i \in Items,
               turn' = [turn EXCEPT ![h] = [turn[h] EXCEPT !.cart = c, !.read = {}, !.item = {i}, !.pc = "promote"]]
        PROVE  Inv'
    <3>1. c \in Carts /\ {} = cart[c].lines /\ {} \in SUBSET Items /\ {i} \in SUBSET Items
      BY FreshIsUnborn DEF Blank
    <3> QED
      BY <2>2, <2>4, <3>1, Zenon
  <2> QED
    BY <1>5, <2>1, <2>3, <2>4 DEF CaptureRead
<1> QED
  BY <1>1, <1>2, <1>3, <1>4, <1>5

\* A cart is written; whoever holds it and is left with its reading has raced.
LEMMA CartWrite ==
    ASSUME Inv, NEW c \in Carts, NEW r \in CartRow, cart' = [cart EXCEPT ![c] = r], CartOk(c)',
           cart[c].paid \/ cart[c].status = "deleted" => r.paid \/ r.status = "deleted",
           LinksGrow, UNCHANGED <<hook, notified, clash>>, raced \subseteq raced', raced' \subseteq Carts,
           turn' \in [Turns -> TurnRow],
           \A g \in Turns :
               \/ TurnOk(g)'
               \/ /\ turn'[g] = turn[g]
                  /\ Holds(g, c) => \/ c \in raced' \/ r.status = "deleted"
                                    \/ r.lines = cart[c].lines /\ cart[c].status # "deleted"
    PROVE  Inv'
<1>1. cart' \in [Carts -> CartRow] /\ cart'[c] = r /\ \A b \in Carts \ {c} : cart'[b] = cart[b]
  BY DEF Inv, Types
<1>2. \A b \in Carts : CartOk(b)'
  BY <1>1, CartStays
<1>3. \A g \in Turns : TurnOk(g)'
  <2> TAKE g \in Turns
  <2>1. ASSUME turn'[g] = turn[g],
               Holds(g, c) => \/ c \in raced' \/ r.status = "deleted"
                              \/ r.lines = cart[c].lines /\ cart[c].status # "deleted"
        PROVE  TurnOk(g)'
    <3> DEFINE b == turn[g].cart
    <3>1. Holds(g, b) => b \in Carts
      BY DEF Inv, TurnOk, Holds, Busy
    <3>2. Holds(g, b) => \/ b \in raced' \/ cart'[b].status = "deleted"
                         \/ cart'[b].lines = cart[b].lines /\ cart[b].status # "deleted"
      BY <1>1, <2>1, <3>1
    <3> QED
      BY <2>1, <3>2, TurnStays
  <2> QED
    BY <2>1
<1>4. \A b \in Carts : cart[b].paid \/ cart[b].status = "deleted" => cart'[b].paid \/ cart'[b].status = "deleted"
  BY <1>1
<1> QED
  BY <1>1, <1>2, <1>3, <1>4, WithoutHooks

\* Carts change their status and nothing else.
LEMMA Restatus ==
    ASSUME Inv, cart' \in [Carts -> CartRow],
           \A c \in Carts :
               \/ cart'[c] = cart[c]
               \/ /\ cart[c].status \in Statuses
                  /\ \E s \in Statuses : cart'[c] = [cart[c] EXCEPT !.status = s],
           turn' \in [Turns -> TurnRow],
           \A h \in Turns : turn'[h] = turn[h] \/ turn'[h].pc \in Free,
           UNCHANGED <<link, hook, notified, clash, raced>>
    PROVE  Inv'
<1>1. \A c \in Carts :
         \/ cart'[c] = cart[c]
         \/ /\ cart[c].status \in Statuses /\ cart'[c].status \in Statuses
            /\ cart'[c].lines = cart[c].lines /\ cart'[c].total = cart[c].total
            /\ cart'[c].pay = cart[c].pay /\ cart'[c].paid = cart[c].paid /\ cart'[c].ref = cart[c].ref
  <2> TAKE c \in Carts
  <2>1. cart[c] \in CartRow
    BY DEF Inv, Types
  <2>2. ASSUME NEW s \in Statuses, cart[c].status \in Statuses, cart'[c] = [cart[c] EXCEPT !.status = s]
        PROVE  /\ cart[c].status \in Statuses /\ cart'[c].status \in Statuses
               /\ cart'[c].lines = cart[c].lines /\ cart'[c].total = cart[c].total
               /\ cart'[c].pay = cart[c].pay /\ cart'[c].paid = cart[c].paid /\ cart'[c].ref = cart[c].ref
    BY <2>1, <2>2 DEF CartRow
  <2> QED
    BY <2>2
<1>2. "unborn" \notin Statuses /\ "deleted" \notin Statuses
  BY DEF Statuses
<1>3. LinksGrow
  BY SameLinks
<1>4. \A c \in Carts : CartOk(c)'
  <2> TAKE c \in Carts
  <2>1. CASE cart'[c] = cart[c]
    BY <1>3, <2>1, CartStays
  <2>2. CASE /\ cart[c].status \in Statuses /\ cart'[c].status \in Statuses
             /\ cart'[c].lines = cart[c].lines /\ cart'[c].total = cart[c].total
             /\ cart'[c].pay = cart[c].pay /\ cart'[c].paid = cart[c].paid /\ cart'[c].ref = cart[c].ref
    <3>1. CartOk(c)
      BY DEF Inv
    <3> QED
      BY <1>2, <2>2, <3>1 DEF CartOk
  <2> QED
    BY <1>1, <2>1, <2>2
<1>5. \A h \in Turns : TurnOk(h)'
  <2> TAKE h \in Turns
  <2>1. CASE turn'[h] = turn[h]
    <3> DEFINE c == turn[h].cart
    <3>1. Holds(h, c) => c \in Carts
      BY DEF Inv, TurnOk, Holds, Busy
    <3>2. Holds(h, c) => \/ cart'[c].status = "deleted"
                         \/ cart'[c].lines = cart[c].lines /\ cart[c].status # "deleted"
      BY <1>1, <1>2, <3>1
    <3> QED
      BY <1>3, <2>1, <3>2, TurnStays
  <2> QED
    BY <2>1, FreeIsOk
<1>6. \A c \in Carts : cart[c].paid \/ cart[c].status = "deleted" => cart'[c].paid \/ cart'[c].status = "deleted"
  BY <1>1, <1>2
<1>7. raced' \subseteq Carts
  BY DEF Inv, Types
<1> QED
  BY <1>3, <1>4, <1>5, <1>6, <1>7, WithoutHooks

LEMMA CancelStep ==
    ASSUME Inv, CancelDrafts, turn' \in [Turns -> TurnRow],
           \A h \in Turns : turn'[h] = turn[h] \/ turn'[h].pc \in Free,
           UNCHANGED <<link, hook, notified, clash, raced>>
    PROVE  Inv'
<1>1. \A c \in Carts : /\ c \in Drafts => cart[c].status \in Statuses
                       /\ cart'[c] = IF c \in Drafts THEN [cart[c] EXCEPT !.status = "cancelled"] ELSE cart[c]
  BY DEF CancelDrafts, Drafts, Statuses
<1>2. \A c \in Carts : cart[c] \in CartRow /\ [cart[c] EXCEPT !.status = "cancelled"] \in CartRow
  BY DEF Inv, Types, CartRow, Statuses
<1>3. cart' \in [Carts -> CartRow]
  BY <1>2 DEF CancelDrafts
<1>4. "cancelled" \in Statuses
  BY DEF Statuses
<1> QED
  BY <1>1, <1>3, <1>4, Restatus

LEMMA BeginSteps ==
    ASSUME Inv, NEW h \in Turns
    PROVE  Begin(h) \/ Clear(h) \/ Submit(h) \/ EditLine(h) => Inv'
<1>0. turn[h] \in TurnRow /\ turn \in [Turns -> TurnRow] /\ cart \in [Carts -> CartRow]
  BY DEF Inv, Types
<1>1. ASSUME NEW t \in TurnRow, t.pc \in Free, turn' = [turn EXCEPT ![h] = t],
             cart' = cart \/ CancelDrafts, UNCHANGED <<link, hook, notified, clash, raced>>
      PROVE  Inv'
  <2>1. turn' \in [Turns -> TurnRow] /\ \A g \in Turns : turn'[g] = turn[g] \/ turn'[g].pc \in Free
    BY <1>0, <1>1
  <2>2. CASE cart' = cart
    BY <1>0, <1>1, <2>1, <2>2, Restatus
  <2> QED
    BY <1>1, <2>1, <2>2, CancelStep
<1>2. Idle \in TurnRow
  BY OrdersAssumption DEF Idle, TurnRow, Free
<1>3. ASSUME Begin(h) PROVE Inv'
  <2>1. PICK chan \in Channels \cap {"whatsapp", "messenger"} :
           turn' = [turn EXCEPT ![h] = [Idle EXCEPT !.pc = "look", !.chan = chan]]
    BY <1>3 DEF Begin
  <2> DEFINE t == [Idle EXCEPT !.pc = "look", !.chan = chan]
  <2>2. t \in TurnRow /\ t.pc \in Free
    BY <1>2 DEF TurnRow, Free
  <2> HIDE DEF t
  <2>3. turn' = [turn EXCEPT ![h] = t]
    BY <2>1 DEF t
  <2> QED
    BY <1>1, <1>3, <2>2, <2>3 DEF Begin
<1>4. ASSUME Clear(h) PROVE Inv'
  <2> DEFINE t == [turn[h] EXCEPT !.pc = "capture"]
  <2>1. t \in TurnRow /\ t.pc \in Free
    BY <1>0 DEF TurnRow, Free
  <2>2. turn' = [turn EXCEPT ![h] = t]
    BY <1>4 DEF Clear, Goto
  <2> HIDE DEF t
  <2> QED
    BY <1>1, <1>4, <2>1, <2>2 DEF Clear
<1>5. ASSUME NEW t \in TurnRow, t.pc = "sum", t.cart \in Carts, turn' = [turn EXCEPT ![h] = t],
             UNCHANGED <<cart, link, hook, notified, clash, raced>>
      PROVE  Inv'
  <2>1. turn'[h] = t
    BY <1>0, <1>5
  <2>2. TurnOk(h)'
    BY <1>5, <2>1 DEF TurnOk
  <2> QED
    BY <1>5, <2>2, SameLinks, TurnAlone
<1>6. ASSUME Submit(h) PROVE Inv'
  <2> DEFINE start == [Idle EXCEPT !.chan = "call"]
             t == [start EXCEPT !.pc = "capture"]
  <2>1. t \in TurnRow /\ t.pc \in Free
    BY <1>2 DEF TurnRow, Free
  <2>2. UNCHANGED <<cart, link, hook, notified, clash, raced>>
    BY <1>6 DEF Submit
  <2>3. CASE turn' = [turn EXCEPT ![h] = t]
    <3> HIDE DEF t
    <3> QED
      BY <1>1, <2>1, <2>2, <2>3
  <2>4. ASSUME NEW c \in Carts, NEW i \in Items,
               turn' = [turn EXCEPT ![h] = [start EXCEPT !.cart = c, !.item = {i}, !.pc = "sum"]]
        PROVE  Inv'
    <3> DEFINE u == [start EXCEPT !.cart = c, !.item = {i}, !.pc = "sum"]
    <3>1. u \in TurnRow /\ u.pc = "sum" /\ u.cart \in Carts
      BY <1>2 DEF TurnRow, Busy
    <3> HIDE DEF u
    <3>2. turn' = [turn EXCEPT ![h] = u]
      BY <2>4 DEF u
    <3> QED
      BY <1>5, <2>2, <3>1, <3>2
  <2> QED
    BY <1>6, <2>3, <2>4 DEF Submit
<1>7. ASSUME EditLine(h) PROVE Inv'
  <2>1. PICK c \in Carts, i \in Items, op \in {"add", "remove"} :
           turn' = [turn EXCEPT ![h] = [Idle EXCEPT !.cart = c, !.op = op, !.item = {i}, !.pc = "sum"]]
    BY <1>7 DEF EditLine
  <2> DEFINE t == [Idle EXCEPT !.cart = c, !.op = op, !.item = {i}, !.pc = "sum"]
  <2>2. t \in TurnRow /\ t.pc = "sum" /\ t.cart \in Carts
    BY <1>2 DEF TurnRow, Busy
  <2> HIDE DEF t
  <2>3. turn' = [turn EXCEPT ![h] = t]
    BY <2>1 DEF t
  <2> QED
    BY <1>5, <1>7, <2>2, <2>3 DEF EditLine
<1> QED
  BY <1>3, <1>4, <1>6, <1>7

LEMMA SendGrows ==
    ASSUME Inv, NEW h \in Turns, Send(h)
    PROVE  LinksGrow
<1>1. CASE ~At(h, "intent")
  BY <1>1, SameLinks DEF Send
<1>2. CASE At(h, "intent")
  <2> DEFINE m == turn[h].link
  <2>1. m \in Links /\ link[m].cart \in Carts
    BY <1>2 DEF Inv, TurnOk, At, Busy
  <2>2. link \in [Links -> LinkRow] /\ link[m] \in LinkRow
    BY <2>1 DEF Inv, Types
  <2> HIDE DEF m
  <2> DEFINE r == [link[m] EXCEPT !.sent = TRUE]
  <2>3. r \in LinkRow /\ r.cart = link[m].cart /\ r.paid = link[m].paid
    BY <2>2 DEF LinkRow
  <2>4. link' = [link EXCEPT ![m] = r]
    BY <1>2 DEF Send, m
  <2> HIDE DEF r
  <2>5. link' \in [Links -> LinkRow] /\ link'[m] = r /\ \A l \in Links \ {m} : link'[l] = link[l]
    BY <2>1, <2>2, <2>3, <2>4
  <2>6. \A l \in Links : LinkOk(l)'
    BY <2>1, <2>3, <2>5 DEF LinkOk, Inv
  <2> QED
    BY <2>1, <2>3, <2>5, <2>6 DEF LinksGrow
<1> QED
  BY <1>1, <1>2

\* A link is made where there was none.
LEMMA MintStep ==
    ASSUME Inv, NEW h \in Turns, Mint(h)
    PROVE  Inv'
<1>0. turn[h] \in TurnRow /\ turn[h].cart \in Carts
  BY DEF Inv, Types, Mint, At, TurnOk, Busy
<1>1. CASE Leave(h) /\ UNCHANGED link
  BY <1>1, SameLinks, LeaveAlone DEF Mint
<1>2. ASSUME NEW m \in Links, NEW kind \in Gateways, link[m].cart = NoCart,
             link' = [link EXCEPT ![m].cart = turn[h].cart, ![m].kind = kind],
             turn' = [turn EXCEPT ![h].link = m, ![h].pc = "intent"]
      PROVE  Inv'
  <2> DEFINE r == [link[m] EXCEPT !.cart = turn[h].cart, !.kind = kind]
             t == [turn[h] EXCEPT !.link = m, !.pc = "intent"]
  <2>1. link \in [Links -> LinkRow] /\ link[m] \in LinkRow /\ LinkOk(m) /\ turn \in [Turns -> TurnRow]
    BY DEF Inv, Types
  <2>2. r \in LinkRow /\ r.cart = turn[h].cart /\ r.paid = link[m].paid
    BY <1>0, <2>1 DEF LinkRow
  <2>a. m \in 0 .. MaxLinks
    BY OrdersAssumption DEF Links
  <2>3. t \in TurnRow /\ t.pc = "intent" /\ t.link = m /\ t.cart = turn[h].cart
    BY <1>0, <2>a DEF TurnRow, Busy
  <2>4. link' = [link EXCEPT ![m] = r] /\ turn' = [turn EXCEPT ![h] = t]
    BY <1>2
  <2> HIDE DEF r, t
  <2>5. link' \in [Links -> LinkRow] /\ link'[m] = r /\ \A l \in Links \ {m} : link'[l] = link[l]
    BY <2>1, <2>2, <2>4
  <2>6. turn'[h] = t
    BY <2>1, <2>4
  <2>7. \A l \in Links : LinkOk(l)'
    BY <1>0, <2>2, <2>5 DEF LinkOk, Inv
  <2>8. LinksGrow
    BY <1>2, <2>2, <2>5, <2>7, OrdersAssumption DEF LinksGrow
  <2>9. TurnOk(h)'
    BY <1>0, <2>2, <2>3, <2>5, <2>6 DEF TurnOk
  <2> QED
    BY <2>3, <2>4, <2>8, <2>9, TurnAlone DEF Mint
<1> QED
  BY <1>1, <1>2 DEF Mint

LEMMA FaultStep ==
    ASSUME Inv, NEW h \in Turns, TurnFault(h)
    PROVE  Inv'
<1>1. CASE Leave(h) /\ Send(h)
  BY <1>1, SendGrows, LeaveAlone DEF TurnFault
<1>2. CASE turn' = [turn EXCEPT ![h] = Idle] /\ UNCHANGED link
  <2>1. Idle \in TurnRow /\ Idle.pc \in Free
    BY OrdersAssumption DEF Idle, TurnRow, Free
  <2>2. TurnOk(h)'
    BY <1>2, <2>1, FreeIsOk DEF Inv, Types
  <2> QED
    BY <1>2, <2>1, <2>2, SameLinks, TurnAlone DEF TurnFault
<1> QED
  BY <1>1, <1>2 DEF TurnFault

\* A handler leaves a section with its cart written.
LEMMA LeaveWrite ==
    ASSUME Inv, NEW h \in Turns, Leave(h), NEW c \in Carts, NEW r \in CartRow,
           cart' = [cart EXCEPT ![c] = r], CartOk(c)',
           cart[c].paid \/ cart[c].status = "deleted" => r.paid \/ r.status = "deleted",
           LinksGrow, UNCHANGED <<hook, notified, clash>>, raced \subseteq raced', raced' \subseteq Carts,
           \A g \in Turns \ {h} :
               Holds(g, c) => c \in raced' \/ (r.lines = cart[c].lines /\ cart[c].status # "deleted")
    PROVE  Inv'
<1>1. PICK t \in TurnRow : t.pc \in Free /\ turn' = [turn EXCEPT ![h] = t]
  BY LeavesFree DEF Inv
<1>2. turn' \in [Turns -> TurnRow] /\ turn'[h] = t /\ \A g \in Turns \ {h} : turn'[g] = turn[g]
  BY <1>1 DEF Inv, Types
<1>3. TurnOk(h)'
  BY <1>1, <1>2, FreeIsOk
<1>4. \A g \in Turns : \/ TurnOk(g)'
                       \/ /\ turn'[g] = turn[g]
                          /\ Holds(g, c) => \/ c \in raced' \/ r.status = "deleted"
                                            \/ r.lines = cart[c].lines /\ cart[c].status # "deleted"
  BY <1>2, <1>3
<1> QED
  BY <1>2, <1>4, CartWrite

\* The order awaits the number of its own link.
LEMMA IntentStep ==
    ASSUME Inv, NEW h \in Turns, Intent(h)
    PROVE  Inv'
<1>1. turn[h].cart \in Carts /\ turn[h].link \in Links /\ link[turn[h].link].cart = turn[h].cart
  BY DEF Inv, TurnOk, Intent, At, Busy
<1>a. PICK c \in Carts, m \in Links : c = turn[h].cart /\ m = turn[h].link /\ link[m].cart = c
  BY <1>1
<1> DEFINE n == IF link[m].kind = "invoice" THEN m ELSE cart[c].ref
           r == [cart[c] EXCEPT !.pay = "pending", !.ref = n]
<1>2. LinksGrow /\ Leave(h)
  BY SendGrows DEF Intent
<1>3. CASE cart' = cart
  BY <1>2, <1>3, LeaveAlone DEF Intent
<1>4. CASE Row(c) /\ ~cart[c].paid /\ cart' = [cart EXCEPT ![c].pay = "pending", ![c].ref = n]
  <2>1. cart[c] \in CartRow /\ CartOk(c) /\ cart \in [Carts -> CartRow]
    BY <1>1 DEF Inv, Types
  <2>2. n \in 0 .. MaxLinks
    BY <1>a, <2>1 DEF CartRow, Links
  <2>3. n \in Links => link'[n].cart = c
    BY <1>a, <1>2, <2>1 DEF CartOk, LinksGrow
  <2>4. cart' = [cart EXCEPT ![c] = [cart[c] EXCEPT !.pay = "pending", !.ref = n]]
    BY <1>4
  <2> HIDE DEF n
  <2>5. /\ r \in CartRow /\ r.status = cart[c].status /\ r.lines = cart[c].lines /\ r.total = cart[c].total
        /\ r.paid = cart[c].paid /\ r.ref = n
    BY <2>1, <2>2 DEF CartRow
  <2> HIDE DEF r
  <2>6. cart' = [cart EXCEPT ![c] = r]
    BY <2>4 DEF r
  <2>7. cart'[c] = r
    BY <1>a, <2>1, <2>6
  <2>8. cart[c].status \in Statuses /\ ~cart[c].paid
    BY <1>4 DEF Row
  <2>9. CartOk(c)'
    <3>1. r.status \in Statuses /\ ~r.paid
      BY <2>5, <2>8
    <3>2. r.total = r.lines \/ c \in raced'
      BY <2>1, <2>5, <2>8 DEF CartOk, Intent
    <3>3. r.ref \in Links => link'[r.ref].cart = c
      BY <2>3, <2>5
    <3>4. r.status # "unborn"
      BY <3>1 DEF Statuses
    <3> QED
      BY <2>7, <3>1, <3>2, <3>3, <3>4 DEF CartOk
  <2>10. raced' = raced /\ raced' \subseteq Carts /\ cart[c].status # "deleted" /\ UNCHANGED <<hook, notified, clash>>
    BY <2>8 DEF Intent, Inv, Types, Statuses
  <2>11. \A g \in Turns \ {h} :
            Holds(g, c) => c \in raced' \/ (r.lines = cart[c].lines /\ cart[c].status # "deleted")
    BY <2>5, <2>10
  <2>12. cart[c].paid \/ cart[c].status = "deleted" => r.paid \/ r.status = "deleted"
    BY <2>8, <2>10
  <2>13. raced \subseteq raced'
    BY <2>10
  <2> QED
    BY <1>a, <1>2, <2>5, <2>6, <2>9, <2>10, <2>11, <2>12, <2>13, LeaveWrite
<1> QED
  BY <1>a, <1>3, <1>4 DEF Intent

\* What others hold of a cart that is written is marked.
LEMMA OverlapMarks ==
    ASSUME Inv, NEW h \in Turns, NEW c \in Carts, Overlap(h, c)
    PROVE  /\ raced \subseteq raced' /\ raced' \subseteq Carts
           /\ \A g \in Turns \ {h} : Holds(g, c) => c \in raced'
  BY DEF Overlap, Inv, Types

\* The lines are those of the sum, or the cart was raced.
LEMMA WriteStep ==
    ASSUME Inv, NEW h \in Turns, Write(h)
    PROVE  Inv'
<1>1. turn[h].cart \in Carts
  BY DEF Inv, TurnOk, Write, At, Busy
<1>2. PICK c \in Carts : c = turn[h].cart
  BY <1>1
<1>3. LinksGrow /\ Leave(h) /\ turn[h].pc = "write" /\ UNCHANGED <<hook, notified, clash>>
  BY SameLinks DEF Write, At
<1>4. CASE cart[c].status = "deleted"
  <2>1. UNCHANGED <<cart, raced>>
    BY <1>2, <1>4 DEF Write
  <2> QED
    BY <1>3, <2>1, LeaveAlone
<1>5. CASE cart[c].status # "deleted"
  <2> DEFINE lines == Edited(h, cart[c].lines)
             status == IF cart[c].status = "unborn" THEN "draft" ELSE cart[c].status
             chat == cart[c].chat \/ cart[c].status = "unborn"
             call == cart[c].call \/ turn[h].chan = "call"
             r == [cart[c] EXCEPT !.lines = lines, !.total = turn[h].read, !.status = status,
                                  !.chat = chat, !.call = call]
  <2>1. /\ cart[c] \in CartRow /\ CartOk(c) /\ cart \in [Carts -> CartRow]
        /\ turn[h] \in TurnRow /\ TurnOk(h)
    BY DEF Inv, Types
  <2>2. cart' = [cart EXCEPT ![c] = r] /\ Overlap(h, c)
    BY <1>2, <1>5, <2>1, ZenonT(40) DEF Write
  <2>3. lines \in SUBSET Items /\ turn[h].read \in SUBSET Items
    BY <2>1 DEF Edited, TurnRow, CartRow
  <2>4. status \in Statuses /\ (cart[c].status \in Statuses => status = cart[c].status)
    BY <1>5, <2>1 DEF CartRow, Statuses
  <2>5. chat \in BOOLEAN /\ call \in BOOLEAN
    BY <2>1 DEF CartRow
  <2>6. c \notin raced => turn[h].read = lines
    BY <1>2, <1>3, <1>5, <2>1 DEF TurnOk
  <2> HIDE DEF lines, status, chat, call
  <2>7. /\ r \in CartRow /\ r.status = status /\ r.lines = lines /\ r.total = turn[h].read
        /\ r.paid = cart[c].paid /\ r.pay = cart[c].pay /\ r.ref = cart[c].ref
    BY <2>1, <2>3, <2>4, <2>5 DEF CartRow
  <2> HIDE DEF r
  <2>8. cart'[c] = r
    BY <2>1, <2>2
  <2>9. /\ raced \subseteq raced' /\ raced' \subseteq Carts
        /\ \A g \in Turns \ {h} : Holds(g, c) => c \in raced'
    BY <2>2, OverlapMarks
  <2>10. CartOk(c)'
    <3>1. r.status \in Statuses /\ r.status # "unborn"
      BY <2>4, <2>7 DEF Statuses
    <3>2. r.paid => r.pay = "paid" /\ \E l \in Links : link[l].cart = c /\ link[l].paid
      BY <2>1, <2>7 DEF CartOk
    <3>3. r.ref \in Links => link[r.ref].cart = c
      BY <2>1, <2>7 DEF CartOk
    <3>4. link' = link
      BY DEF Write
    <3>5. r.total = r.lines \/ c \in raced'
      BY <2>6, <2>7, <2>9
    <3> QED
      BY <2>8, <3>1, <3>2, <3>3, <3>4, <3>5 DEF CartOk
  <2>11. cart[c].paid \/ cart[c].status = "deleted" => r.paid \/ r.status = "deleted"
    BY <1>5, <2>7
  <2> QED
    BY <1>3, <2>2, <2>7, <2>9, <2>10, <2>11, LeaveWrite
<1> QED
  BY <1>4, <1>5

\* The order is what was read and what was added, or the cart was raced.
LEMMA PromoteStep ==
    ASSUME Inv, NEW h \in Turns, Promote(h)
    PROVE  Inv'
<1>1. turn[h].cart \in Carts
  BY DEF Inv, TurnOk, Promote, At, Busy
<1>2. PICK c \in Carts : c = turn[h].cart
  BY <1>1
<1>3. LinksGrow /\ turn[h].pc = "promote" /\ UNCHANGED <<hook, notified, clash>>
  BY SameLinks DEF Promote, At
<1>4. CASE cart[c].status = "deleted"
  <2>1. UNCHANGED <<cart, raced>> /\ Leave(h)
    BY <1>2, <1>4 DEF Promote
  <2> QED
    BY <1>3, <2>1, LeaveAlone
<1>5. CASE cart[c].status # "deleted"
  <2> DEFINE born == cart[c].status # "unborn"
             total == turn[h].read \cup turn[h].item
             lines == IF turn[h].chan = "whatsapp" /\ born THEN cart[c].lines \cap total
                      ELSE cart[c].lines \cup turn[h].item
             chat == born \/ turn[h].chan # "call"
             call == cart[c].call \/ turn[h].chan = "call"
             r == [cart[c] EXCEPT !.status = "new", !.total = total, !.lines = lines,
                                  !.chat = chat, !.call = call]
  <2>1. /\ cart[c] \in CartRow /\ CartOk(c) /\ cart \in [Carts -> CartRow]
        /\ turn[h] \in TurnRow /\ TurnOk(h)
    BY DEF Inv, Types
  <2>2. cart' = [cart EXCEPT ![c] = r]
    BY <1>2, <1>5, <2>1, ZenonT(40) DEF Promote
  <2>3. lines \in SUBSET Items /\ total \in SUBSET Items
    BY <2>1 DEF TurnRow, CartRow
  <2>4. chat \in BOOLEAN /\ call \in BOOLEAN
    BY <2>1 DEF CartRow
  <2>5. /\ raced \subseteq raced' /\ raced' \subseteq Carts
        /\ \A g \in Turns \ {h} : Holds(g, c) => c \in raced'
        /\ born /\ turn[h].chan = "whatsapp" /\ turn[h].read = {} => c \in raced'
    BY <1>2, <1>5, OverlapMarks DEF Promote, Inv, Types
  <2>6. c \notin raced' => total = lines
    BY <1>2, <1>3, <1>5, <2>1, <2>5 DEF TurnOk
  <2> HIDE DEF lines, total, chat, call
  <2>7. /\ r \in CartRow /\ r.status = "new" /\ r.lines = lines /\ r.total = total
        /\ r.paid = cart[c].paid /\ r.pay = cart[c].pay /\ r.ref = cart[c].ref
    BY <2>1, <2>3, <2>4 DEF CartRow, Statuses
  <2> HIDE DEF r
  <2>8. cart'[c] = r
    BY <2>1, <2>2
  <2>9. CartOk(c)'
    <3>1. r.status \in Statuses /\ r.status # "unborn"
      BY <2>7 DEF Statuses
    <3>2. r.paid => r.pay = "paid" /\ \E l \in Links : link[l].cart = c /\ link[l].paid
      BY <2>1, <2>7 DEF CartOk
    <3>3. r.ref \in Links => link[r.ref].cart = c
      BY <2>1, <2>7 DEF CartOk
    <3>4. link' = link
      BY DEF Promote
    <3>5. r.total = r.lines \/ c \in raced'
      BY <2>6, <2>7
    <3> QED
      BY <2>8, <3>1, <3>2, <3>3, <3>4, <3>5 DEF CartOk
  <2>10. cart[c].paid \/ cart[c].status = "deleted" => r.paid \/ r.status = "deleted"
    BY <1>5, <2>7
  <2>11. CASE Leave(h)
    BY <1>3, <2>2, <2>5, <2>7, <2>9, <2>10, <2>11, LeaveWrite
  <2>12. CASE Goto(h, "mint")
    <3> DEFINE t == [turn[h] EXCEPT !.pc = "mint"]
    <3>1. t \in TurnRow /\ t.pc = "mint" /\ t.cart = c
      BY <1>2, <2>1 DEF TurnRow, Busy
    <3>2. turn' = [turn EXCEPT ![h] = t]
      BY <2>12 DEF Goto
    <3> HIDE DEF t
    <3>3. turn' \in [Turns -> TurnRow] /\ turn'[h] = t /\ \A g \in Turns \ {h} : turn'[g] = turn[g]
      BY <3>1, <3>2 DEF Inv, Types
    <3>4. TurnOk(h)'
      BY <3>1, <3>3 DEF TurnOk
    <3>5. \A g \in Turns : \/ TurnOk(g)'
                           \/ /\ turn'[g] = turn[g]
                              /\ Holds(g, c) => \/ c \in raced' \/ r.status = "deleted"
                                                \/ r.lines = cart[c].lines /\ cart[c].status # "deleted"
      BY <2>5, <3>3, <3>4
    <3> QED
      BY <1>3, <2>2, <2>5, <2>7, <2>9, <2>10, <3>3, <3>5, CartWrite
  <2> QED
    BY <1>2, <1>5, <2>11, <2>12 DEF Promote
<1> QED
  BY <1>4, <1>5

\* A row appears, or is gone with its lines.
LEMMA RowSteps ==
    ASSUME Inv, NEW c \in Carts
    PROVE  Desk(c) => Inv'
<1>0. cart \in [Carts -> CartRow] /\ turn \in [Turns -> TurnRow] /\ raced \subseteq Carts /\ c \in Carts
  BY DEF Inv, Types
<1>1. ASSUME PostCart(c) PROVE Inv'
  <2>1. PICK i \in Items, s \in {"draft", "new"}, chat \in BOOLEAN :
           cart' = [cart EXCEPT ![c] = [Blank EXCEPT !.status = s, !.chat = chat,
                                                     !.lines = {i}, !.total = {i}]]
    BY <1>1 DEF PostCart
  <2> DEFINE r == [Blank EXCEPT !.status = s, !.chat = chat, !.lines = {i}, !.total = {i}]
  <2>2. Blank \in CartRow /\ ~Blank.paid /\ Blank.ref = 0 /\ Blank.status = "unborn"
    BY OrdersAssumption DEF Blank, CartRow
  <2>3. /\ r \in CartRow /\ r.status = s /\ r.lines = r.total /\ ~r.paid /\ r.ref = 0
    BY <2>2 DEF CartRow, Statuses
  <2>4. cart' = [cart EXCEPT ![c] = r]
    BY <2>1
  <2> HIDE DEF r
  <2>5. cart'[c] = r /\ s \in Statuses /\ s # "unborn" /\ 0 \notin Links
    BY <1>0, <2>4 DEF Statuses, Links
  <2>6. CartOk(c)'
    BY <2>3, <2>5 DEF CartOk
  <2>7. cart[c] = Blank /\ \A h \in Turns : turn[h].cart # c
    BY <1>1, FreshIsUnborn DEF PostCart
  <2>8. /\ cart[c].paid \/ cart[c].status = "deleted" => r.paid \/ r.status = "deleted"
        /\ \A g \in Turns : ~Holds(g, c)
    BY <2>2, <2>7 DEF Holds
  <2>9. /\ LinksGrow /\ UNCHANGED <<hook, notified, clash>> /\ turn' = turn /\ raced' = raced
    BY <1>1, SameLinks DEF PostCart
  <2> QED
    BY <1>0, <2>3, <2>4, <2>6, <2>8, <2>9, CartWrite
<1>2. ASSUME PatchStatus(c) PROVE Inv'
  <2>1. PICK s \in Statuses : cart' = [cart EXCEPT ![c].status = s]
    BY <1>2 DEF PatchStatus
  <2> DEFINE r == [cart[c] EXCEPT !.status = s]
  <2>2. r \in CartRow
    BY <1>0 DEF CartRow
  <2>3. cart' = [cart EXCEPT ![c] = r]
    BY <2>1
  <2>4. cart' \in [Carts -> CartRow] /\ cart'[c] = r /\ \A b \in Carts \ {c} : cart'[b] = cart[b]
    BY <1>0, <2>2, <2>3
  <2>5. cart[c].status \in Statuses /\ UNCHANGED <<link, turn, hook, notified, clash, raced>>
    BY <1>2 DEF PatchStatus, Row
  <2> QED
    BY <1>0, <2>4, <2>5, Restatus
<1>3. ASSUME DeleteCart(c) PROVE Inv'
  <2> DEFINE r == [Blank EXCEPT !.status = "deleted"]
  <2>1. Blank \in CartRow /\ ~Blank.paid /\ Blank.ref = 0
    BY OrdersAssumption DEF Blank, CartRow
  <2>2. /\ r \in CartRow /\ r.status = "deleted" /\ ~r.paid /\ r.ref = 0
    BY <2>1 DEF CartRow
  <2>3. cart' = [cart EXCEPT ![c] = r]
    BY <1>3 DEF DeleteCart
  <2> HIDE DEF r
  <2>4. cart'[c] = r /\ 0 \notin Links /\ "deleted" \notin Statuses
    BY <1>0, <2>3 DEF Links, Statuses
  <2>5. CartOk(c)'
    BY <2>2, <2>4 DEF CartOk
  <2>6. /\ LinksGrow /\ UNCHANGED <<hook, notified, clash>> /\ turn' = turn /\ raced' = raced
    BY <1>3, SameLinks DEF DeleteCart
  <2> QED
    BY <1>0, <2>2, <2>3, <2>5, <2>6, CartWrite
<1> QED
  BY <1>1, <1>2, <1>3 DEF Desk

LEMMA SweepStep == Inv /\ Sweep => Inv'
<1> SUFFICES ASSUME Inv, Sweep PROVE Inv'
  OBVIOUS
<1>1. CancelDrafts /\ UNCHANGED <<link, turn, hook, notified, clash, raced>> /\ turn \in [Turns -> TurnRow]
  BY DEF Sweep, Inv, Types
<1> QED
  BY <1>1, CancelStep

-----------------------------------------------------------------------------
(* The gateways' webhooks.                                                  *)

LEMMA PayStep ==
    ASSUME Inv, NEW m \in Links, Pay(m)
    PROVE  Inv'
<1>1. link \in [Links -> LinkRow] /\ link[m] \in LinkRow /\ LinkOk(m) /\ link[m].sent
  BY DEF Inv, Types, Pay
<1> DEFINE r == [link[m] EXCEPT !.paid = TRUE]
<1>2. r \in LinkRow /\ r.cart = link[m].cart /\ r.paid
  BY <1>1 DEF LinkRow
<1>3. link' = [link EXCEPT ![m] = r]
  BY DEF Pay
<1> HIDE DEF r
<1>4. link' \in [Links -> LinkRow] /\ link'[m] = r /\ \A l \in Links \ {m} : link'[l] = link[l]
  BY <1>1, <1>2, <1>3
<1>5. \A l \in Links : LinkOk(l)'
  BY <1>1, <1>2, <1>4 DEF LinkOk, Inv
<1>6. LinksGrow
  BY <1>2, <1>4, <1>5 DEF LinksGrow
<1>7. \A c \in Carts : CartOk(c)'
  <2> TAKE c \in Carts
  <2> QED
    BY <1>6, CartStays DEF Pay
<1>8. \A h \in Turns : TurnOk(h)'
  <2> TAKE h \in Turns
  <2>1. \/ cart'[turn[h].cart].status = "deleted"
        \/ cart'[turn[h].cart].lines = cart[turn[h].cart].lines /\ cart[turn[h].cart].status # "deleted"
    BY DEF Pay
  <2> QED
    BY <1>6, <2>1, TurnStays DEF Pay
<1>9. /\ cart' \in [Carts -> CartRow] /\ turn' \in [Turns -> TurnRow]
      /\ UNCHANGED <<cart, hook, notified, clash>> /\ raced' = raced /\ raced' \subseteq Carts
  BY DEF Inv, Types, Pay
<1> QED
  BY <1>6, <1>7, <1>8, <1>9, WithoutHooks

\* One webhook's record changes, and the notices of the cart it settles.
LEMMA HookMove ==
    ASSUME Inv, LinksGrow, NEW k \in Hooks, NEW w \in HookRow, hook' = [hook EXCEPT ![k] = w], HookOk(k)',
           UNCHANGED <<cart, turn, raced>>, notified' \in [Carts -> Nat],
           clash \subseteq clash', clash' \subseteq Carts,
           \A c \in Carts : \/ NoticeOk(c)'
                            \/ /\ notified'[c] = notified[c]
                               /\ w.pc \in {"settle", "notify"} => w.cart # c
    PROVE  Inv'
<1>1. hook' \in [Hooks -> HookRow] /\ hook'[k] = w /\ \A j \in Hooks \ {k} : hook'[j] = hook[j]
  BY DEF Inv, Types
<1>2. \A j \in Hooks : HookOk(j)'
  BY <1>1, HookStays
<1>3. \A c \in Carts : NoticeOk(c)'
  <2> TAKE c \in Carts
  <2>1. ASSUME notified'[c] = notified[c], w.pc \in {"settle", "notify"} => w.cart # c
        PROVE  NoticeOk(c)'
    <3>1. \A j \in Hooks : /\ On(j, "settle", c)' => On(j, "settle", c)
                           /\ On(j, "notify", c)' => On(j, "notify", c)
      BY <1>1, <2>1 DEF On
    <3> QED
      BY <2>1, <3>1, NoticeStays
  <2> QED
    BY <2>1
<1>4. \A c \in Carts : CartOk(c)'
  BY CartStays
<1>5. \A h \in Turns : TurnOk(h)'
  <2> TAKE h \in Turns
  <2>1. \/ cart'[turn[h].cart].status = "deleted"
        \/ cart'[turn[h].cart].lines = cart[turn[h].cart].lines /\ cart[turn[h].cart].status # "deleted"
    OBVIOUS
  <2> QED
    BY <2>1, TurnStays
<1>6. Types'
  BY <1>1 DEF Inv, Types, LinksGrow
<1>7. \A l \in Links : LinkOk(l)'
  BY DEF LinksGrow
<1> QED
  BY <1>2, <1>3, <1>4, <1>5, <1>6, <1>7 DEF Inv

\* A webhook that goes on to a step before the settlement, or after it, or ends.
LEMMA HookPlain ==
    ASSUME Inv, LinksGrow, NEW k \in Hooks, NEW w \in HookRow, hook' = [hook EXCEPT ![k] = w],
           w.pc = "idle" \/ (w.link \in Links /\ link[w.link].paid /\ link[w.link].cart = w.cart),
           w.pc \notin {"settle", "notify"},
           UNCHANGED <<cart, turn, raced, notified>>, clash \subseteq clash', clash' \subseteq Carts
    PROVE  Inv'
<1>1. hook'[k] = w /\ notified' \in [Carts -> Nat]
  BY DEF Inv, Types
<1>2. \A l \in Links : link[l].paid => link'[l].paid /\ link'[l].cart = link[l].cart
  BY DEF Inv, LinkOk, LinksGrow
<1>3. HookOk(k)'
  BY <1>1, <1>2 DEF HookOk
<1> QED
  BY <1>1, <1>3, HookMove

LEMMA HookEnds ==
    ASSUME Inv, LinksGrow, NEW k \in Hooks, hook' = [hook EXCEPT ![k] = Off],
           UNCHANGED <<cart, turn, raced, notified>>, clash \subseteq clash', clash' \subseteq Carts
    PROVE  Inv'
<1>1. Off \in HookRow /\ Off.pc = "idle"
  BY OrdersAssumption DEF Off, HookRow
<1> QED
  BY <1>1, HookPlain

LEMMA AnswerEnds ==
    ASSUME Inv, NEW k \in Hooks, hook[k].pc # "idle", Answer(k),
           UNCHANGED <<cart, turn, raced, notified>>, clash \subseteq clash', clash' \subseteq Carts
    PROVE  Inv'
<1>1. hook[k].link \in Links
  BY DEF Inv, HookOk
<1>2. PICK m \in Links : m = hook[k].link
  BY <1>1
<1>3. link \in [Links -> LinkRow] /\ link[m] \in LinkRow
  BY DEF Inv, Types
<1> DEFINE r == [link[m] EXCEPT !.acked = TRUE]
<1>4. r \in LinkRow /\ r.cart = link[m].cart /\ r.paid = link[m].paid /\ r.sent = link[m].sent
  BY <1>3 DEF LinkRow
<1>5. link' = [link EXCEPT ![m] = r]
  BY <1>2 DEF Answer
<1> HIDE DEF r
<1>6. link' \in [Links -> LinkRow] /\ link'[m] = r /\ \A l \in Links \ {m} : link'[l] = link[l]
  BY <1>3, <1>4, <1>5
<1>7. \A l \in Links : LinkOk(l)'
  BY <1>4, <1>6 DEF LinkOk, Inv
<1>8. LinksGrow
  BY <1>4, <1>6, <1>7 DEF LinksGrow
<1> QED
  BY <1>8, HookEnds DEF Answer

\* The webhook of a paid link, until its cart is read.
LEMMA EarlyHooks ==
    ASSUME Inv, NEW k \in Hooks
    PROVE  (\E l \in Links : Receive(k, l)) \/ Claim(k) \/ Find(k) \/ Reply(k) \/ HookFault(k) => Inv'
<1>0. hook \in [Hooks -> HookRow] /\ hook[k] \in HookRow /\ HookOk(k) /\ clash \subseteq Carts
  BY DEF Inv, Types
<1>1. ASSUME NEW m \in Links, Receive(k, m) PROVE Inv'
  <2>1. link \in [Links -> LinkRow] /\ link[m] \in LinkRow /\ LinkOk(m) /\ link[m].paid
    BY <1>1 DEF Inv, Types, Receive
  <2>2. LinksGrow
    <3>1. CASE link' = link
      BY <3>1, SameLinks
    <3>2. CASE link' = [link EXCEPT ![m].extra = @ + 1]
      <4>0. link[m].extra + 1 \in Int
        BY <2>1 DEF LinkRow
      <4> DEFINE e == link[m].extra + 1
      <4> HIDE DEF e
      <4> DEFINE r == [link[m] EXCEPT !.extra = e]
      <4>1. r \in LinkRow /\ r.cart = link[m].cart /\ r.paid = link[m].paid /\ r.sent = link[m].sent
        BY <2>1, <4>0 DEF LinkRow, e
      <4>2. link' = [link EXCEPT ![m] = r]
        BY <2>1, <3>2 DEF e
      <4> HIDE DEF r
      <4>3. link' \in [Links -> LinkRow] /\ link'[m] = r /\ \A l \in Links \ {m} : link'[l] = link[l]
        BY <2>1, <4>1, <4>2
      <4>4. \A l \in Links : LinkOk(l)'
        BY <4>1, <4>3 DEF LinkOk, Inv
      <4> QED
        BY <4>1, <4>3, <4>4 DEF LinksGrow
    <3> QED
      BY <1>1, <3>1, <3>2 DEF Receive
  <2> DEFINE pc == IF link[m].kind = "invoice" THEN "claim" ELSE "read"
             w == [pc |-> pc, link |-> m, cart |-> link[m].cart]
  <2>3. m \in 0 .. MaxLinks
    BY OrdersAssumption DEF Links
  <2>4. w \in HookRow /\ w.pc \notin {"settle", "notify"}
    BY <2>1, <2>3 DEF HookRow, LinkOk
  <2>5. w.link = m /\ w.cart = link[m].cart
    OBVIOUS
  <2>6. hook' = [hook EXCEPT ![k] = w] /\ UNCHANGED <<cart, turn, raced, notified>> /\ clash' = clash
    BY <1>1 DEF Receive
  <2> HIDE DEF w
  <2> QED
    BY <1>0, <2>1, <2>2, <2>4, <2>5, <2>6, HookPlain
<1>2. ASSUME NEW w \in HookRow, hook[k].pc # "idle", hook' = [hook EXCEPT ![k] = w],
             w.link = hook[k].link, w.cart = hook[k].cart, w.pc \notin {"settle", "notify"},
             UNCHANGED <<link, cart, turn, raced, notified, clash>>
      PROVE  Inv'
  BY <1>0, <1>2, SameLinks, HookPlain DEF HookOk
<1>3. ASSUME Claim(k) PROVE Inv'
  <2>1. hook[k].pc = "claim" /\ UNCHANGED <<cart, turn, raced, notified>> /\ clash' = clash
    BY <1>3 DEF Claim
  <2>2. CASE Answer(k)
    BY <1>0, <2>1, <2>2, AnswerEnds
  <2>3. CASE Step(k, "find") /\ UNCHANGED link
    <3> DEFINE w == [hook[k] EXCEPT !.pc = "find"]
    <3>1. /\ w \in HookRow /\ w.link = hook[k].link /\ w.cart = hook[k].cart
          /\ w.pc \notin {"settle", "notify"}
      BY <1>0 DEF HookRow
    <3>2. hook' = [hook EXCEPT ![k] = w]
      BY <2>3 DEF Step
    <3> HIDE DEF w
    <3> QED
      BY <1>2, <2>1, <2>3, <3>1, <3>2
  <2> QED
    BY <1>3, <2>2, <2>3 DEF Claim
<1>4. ASSUME Find(k) PROVE Inv'
  <2>1. hook[k].pc = "find" /\ UNCHANGED <<cart, turn, raced, notified>> /\ clash' = clash
    BY <1>4 DEF Find
  <2>2. CASE Answer(k)
    BY <1>0, <2>1, <2>2, AnswerEnds
  <2>3. ASSUME NEW c \in Carts, cart[c].ref = hook[k].link,
               hook' = [hook EXCEPT ![k].cart = c, ![k].pc = "read"], UNCHANGED link
        PROVE  Inv'
    <3>1. c = hook[k].cart
      BY <1>0, <2>1, <2>3 DEF Inv, CartOk, HookOk
    <3> DEFINE w == [hook[k] EXCEPT !.cart = c, !.pc = "read"]
    <3>2. /\ w \in HookRow /\ w.link = hook[k].link /\ w.cart = hook[k].cart
          /\ w.pc \notin {"settle", "notify"}
      BY <1>0, <3>1 DEF HookRow
    <3>3. hook' = [hook EXCEPT ![k] = w]
      BY <2>3
    <3> HIDE DEF w
    <3> QED
      BY <1>2, <2>1, <2>3, <3>2, <3>3
  <2> QED
    BY <1>4, <2>2, <2>3 DEF Find
<1>5. ASSUME Reply(k) PROVE Inv'
  BY <1>0, <1>5, AnswerEnds DEF Reply
<1>6. ASSUME HookFault(k) PROVE Inv'
  BY <1>0, <1>6, SameLinks, HookEnds DEF HookFault
<1> QED
  BY <1>1, <1>3, <1>4, <1>5, <1>6

\* Who reads an order that is not paid is the first, or has met another.
LEMMA ReadStep ==
    ASSUME Inv, NEW k \in Hooks, Read(k)
    PROVE  Inv'
<1>0. hook[k] \in HookRow /\ HookOk(k) /\ hook[k].pc = "read" /\ clash \subseteq Carts /\ notified \in [Carts -> Nat]
  BY DEF Inv, Types, Read
<1>1. hook[k].cart \in Carts
  BY <1>0 DEF HookOk, Inv, LinkOk
<1>2. PICK c \in Carts : c = hook[k].cart
  BY <1>1
<1>3. UNCHANGED <<cart, turn, raced, notified>> /\ clash \subseteq clash' /\ clash' \subseteq Carts
  BY <1>0, <1>1 DEF Read
<1>4. CASE Answer(k)
  BY <1>0, <1>3, <1>4, AnswerEnds
<1>5. CASE Row(c) /\ ~cart[c].paid /\ Step(k, "settle") /\ UNCHANGED link
  <2> DEFINE w == [hook[k] EXCEPT !.pc = "settle"]
  <2>1. w \in HookRow /\ w.link = hook[k].link /\ w.cart = c /\ w.pc = "settle"
    BY <1>0, <1>2 DEF HookRow
  <2>2. hook' = [hook EXCEPT ![k] = w]
    BY <1>5 DEF Step
  <2> HIDE DEF w
  <2>3. hook'[k] = w /\ \A j \in Hooks \ {k} : hook'[j] = hook[j]
    BY <2>2 DEF Inv, Types
  <2>4. HookOk(k)'
    BY <1>0, <1>2, <1>5, <2>1, <2>3 DEF HookOk
  <2>5. NoticeOk(c)'
    <3>1. SUFFICES ASSUME c \notin clash' PROVE NoticeOk(c)'
      BY DEF NoticeOk
    <3>2. \A j \in Hooks \ {k} : ~On(j, "settle", c)
      BY <1>2, <3>1 DEF Read, On
    <3>3. NoticeOk(c) /\ c \notin clash
      BY <1>3, <3>1 DEF Inv
    <3>4. ~(cart[c].paid \/ cart[c].status = "deleted")
      BY <1>5 DEF Row, Statuses
    <3>5. notified[c] = 0 /\ \A j \in Hooks : ~On(j, "notify", c)
      BY <1>0, <3>3, <3>4 DEF NoticeOk
    <3>6. /\ notified'[c] = 0
          /\ \A j \in Hooks : ~On(j, "notify", c)' /\ (On(j, "settle", c)' => j = k)
      BY <1>3, <2>1, <2>3, <3>2, <3>5 DEF On
    <3> QED
      BY <3>6 DEF NoticeOk
  <2>6. \A b \in Carts : NoticeOk(b)' \/ (notified'[b] = notified[b] /\ (w.pc \in {"settle", "notify"} => w.cart # b))
    BY <1>3, <2>1, <2>5
  <2>7. LinksGrow /\ notified' \in [Carts -> Nat]
    BY <1>0, <1>3, <1>5, SameLinks
  <2> QED
    BY <1>3, <2>1, <2>2, <2>4, <2>6, <2>7, HookMove
<1> QED
  BY <1>2, <1>4, <1>5 DEF Read

LEMMA NotifyStep ==
    ASSUME Inv, NEW k \in Hooks, Notify(k)
    PROVE  Inv'
<1>0. hook[k] \in HookRow /\ HookOk(k) /\ hook[k].pc = "notify" /\ clash \subseteq Carts /\ notified \in [Carts -> Nat]
  BY DEF Inv, Types, Notify
<1>1. hook[k].cart \in Carts
  BY <1>0 DEF HookOk, Inv, LinkOk
<1>2. PICK c \in Carts : c = hook[k].cart
  BY <1>1
<1>3. UNCHANGED <<cart, link, turn, raced, clash>> /\ clash \subseteq clash' /\ clash' \subseteq Carts
  BY <1>0 DEF Notify
<1>4. /\ notified' \in [Carts -> Nat] /\ notified'[c] = notified[c] + 1
      /\ \A b \in Carts \ {c} : notified'[b] = notified[b]
  BY <1>0, <1>2 DEF Notify
<1> DEFINE w == [hook[k] EXCEPT !.pc = "answer"]
<1>5. w \in HookRow /\ w.link = hook[k].link /\ w.cart = c /\ w.pc = "answer"
  BY <1>0, <1>2 DEF HookRow
<1>6. hook' = [hook EXCEPT ![k] = w]
  BY DEF Notify, Step
<1> HIDE DEF w
<1>7. hook'[k] = w /\ \A j \in Hooks \ {k} : hook'[j] = hook[j]
  BY <1>6 DEF Inv, Types
<1>8. HookOk(k)'
  BY <1>0, <1>2, <1>3, <1>5, <1>7 DEF HookOk
<1>9. NoticeOk(c)'
  <2>1. SUFFICES ASSUME c \notin clash PROVE NoticeOk(c)'
    BY <1>3 DEF NoticeOk
  <2>2. NoticeOk(c) /\ On(k, "notify", c)
    BY <1>0, <1>2 DEF Inv, On
  <2>3. /\ notified[c] = 0 /\ (cart[c].paid \/ cart[c].status = "deleted")
        /\ \A j \in Hooks : ~On(j, "settle", c) /\ (On(j, "notify", c) => j = k)
    BY <2>1, <2>2 DEF NoticeOk
  <2>4. /\ notified'[c] = 1 /\ (cart'[c].paid \/ cart'[c].status = "deleted")
        /\ \A j \in Hooks : ~On(j, "settle", c)' /\ ~On(j, "notify", c)'
    BY <1>3, <1>4, <1>5, <1>7, <2>3 DEF On
  <2> QED
    BY <2>4 DEF NoticeOk
<1>10. \A b \in Carts : NoticeOk(b)' \/ (notified'[b] = notified[b] /\ (w.pc \in {"settle", "notify"} => w.cart # b))
  BY <1>4, <1>5, <1>9
<1> QED
  BY <1>3, <1>4, <1>5, <1>6, <1>8, <1>10, SameLinks, HookMove

\* The order is paid by a link of its own, and whoever settled it notifies of it.
LEMMA SettleStep ==
    ASSUME Inv, NEW k \in Hooks, Settle(k)
    PROVE  Inv'
<1>0. /\ hook \in [Hooks -> HookRow] /\ hook[k] \in HookRow /\ HookOk(k) /\ hook[k].pc = "settle"
      /\ clash \subseteq Carts /\ raced \subseteq Carts /\ notified \in [Carts -> Nat]
      /\ turn \in [Turns -> TurnRow] /\ cart \in [Carts -> CartRow]
  BY DEF Inv, Types, Settle
<1>1. hook[k].cart \in Carts /\ hook[k].link \in Links
  BY <1>0 DEF HookOk, Inv, LinkOk
<1>2. PICK c \in Carts, m \in Links : c = hook[k].cart /\ m = hook[k].link
  BY <1>1
<1>3. UNCHANGED <<link, turn, notified, clash, raced>> /\ LinksGrow
  BY SameLinks DEF Settle
<1>4. CASE hook' = [hook EXCEPT ![k] = Off] /\ UNCHANGED cart
  BY <1>0, <1>3, <1>4, HookEnds
<1>5. CASE /\ Row(c) /\ Step(k, "notify")
           /\ cart' = [cart EXCEPT ![c] = [cart[c] EXCEPT !.status = "confirmed", !.pay = "paid", !.paid = TRUE,
                                                          !.ref = IF link[m].kind = "invoice" THEN m ELSE 0]]
  <2> DEFINE n == IF link[m].kind = "invoice" THEN m ELSE 0
             r == [cart[c] EXCEPT !.status = "confirmed", !.pay = "paid", !.paid = TRUE, !.ref = n]
             w == [hook[k] EXCEPT !.pc = "notify"]
  <2>1. n \in 0 .. MaxLinks /\ (n \in Links => n = m)
    BY OrdersAssumption DEF Links
  <2>2. cart' = [cart EXCEPT ![c] = r]
    BY <1>5
  <2> HIDE DEF n
  <2>3. /\ r \in CartRow /\ r.status = "confirmed" /\ r.pay = "paid" /\ r.paid /\ r.ref = n
        /\ r.lines = cart[c].lines /\ r.total = cart[c].total
    BY <1>0, <2>1 DEF CartRow, Statuses
  <2> HIDE DEF r
  <2>4. cart' \in [Carts -> CartRow] /\ cart'[c] = r /\ \A b \in Carts \ {c} : cart'[b] = cart[b]
    BY <1>0, <2>2, <2>3
  <2>5. w \in HookRow /\ w.link = m /\ w.cart = c /\ w.pc = "notify"
    BY <1>0, <1>2 DEF HookRow
  <2>6. hook' = [hook EXCEPT ![k] = w]
    BY <1>5 DEF Step
  <2> HIDE DEF w
  <2>7. hook' \in [Hooks -> HookRow] /\ hook'[k] = w /\ \A j \in Hooks \ {k} : hook'[j] = hook[j]
    BY <1>0, <2>5, <2>6
  <2>8. link[m].cart = c /\ link[m].paid
    BY <1>0, <1>2 DEF HookOk
  <2>9. cart[c].status \in Statuses /\ cart[c].status # "deleted" /\ CartOk(c)
    BY <1>5 DEF Row, Statuses, Inv
  <2>10. \A b \in Carts : CartOk(b)'
    <3>1. CartOk(c)'
      <4>1. cart'[c].status \in Statuses /\ cart'[c].status # "unborn" /\ cart'[c].pay = "paid"
        BY <2>3, <2>4 DEF Statuses
      <4>2. link'[m].cart = c /\ link'[m].paid
        BY <1>3, <2>8
      <4>3. cart'[c].ref \in Links => link'[cart'[c].ref].cart = c
        BY <2>1, <2>3, <2>4, <4>2
      <4>4. cart'[c].total = cart'[c].lines \/ c \in raced'
        BY <1>3, <2>3, <2>4, <2>9 DEF CartOk
      <4> QED
        BY <4>1, <4>2, <4>3, <4>4 DEF CartOk
    <3>2. ASSUME NEW b \in Carts \ {c} PROVE CartOk(b)'
      BY <1>3, <2>4, CartStays
    <3> QED
      BY <3>1, <3>2
  <2>11. \A h \in Turns : TurnOk(h)'
    <3> TAKE h \in Turns
    <3> DEFINE b == turn[h].cart
    <3>1. Holds(h, b) => b \in Carts
      BY DEF Inv, TurnOk, Holds, Busy
    <3>2. Holds(h, b) => \/ cart'[b].status = "deleted"
                         \/ cart'[b].lines = cart[b].lines /\ cart[b].status # "deleted"
      BY <2>3, <2>4, <2>9, <3>1
    <3> QED
      BY <1>3, <3>2, TurnStays
  <2>12. \A j \in Hooks : HookOk(j)'
    <3>1. HookOk(k)'
      BY <1>3, <2>5, <2>7, <2>8 DEF HookOk
    <3> QED
      BY <1>3, <2>7, <3>1, HookStays
  <2>13. \A b \in Carts : NoticeOk(b)'
    <3>1. ASSUME NEW b \in Carts \ {c} PROVE NoticeOk(b)'
      <4>1. \A j \in Hooks : /\ On(j, "settle", b)' => On(j, "settle", b)
                             /\ On(j, "notify", b)' => On(j, "notify", b)
        BY <2>5, <2>7 DEF On
      <4>2. cart'[b] = cart[b] /\ notified'[b] = notified[b] /\ clash \subseteq clash'
        BY <1>3, <2>4
      <4> QED
        BY <4>1, <4>2, NoticeStays
    <3>2. NoticeOk(c)'
      <4>1. SUFFICES ASSUME c \notin clash PROVE NoticeOk(c)'
        BY <1>3 DEF NoticeOk
      <4>2. NoticeOk(c) /\ On(k, "settle", c)
        BY <1>0, <1>2 DEF Inv, On
      <4>3. /\ notified[c] = 0
            /\ \A j \in Hooks : ~On(j, "notify", c) /\ (On(j, "settle", c) => j = k)
        BY <4>1, <4>2 DEF NoticeOk
      <4>4. /\ notified'[c] = 0 /\ cart'[c].paid
            /\ \A j \in Hooks : ~On(j, "settle", c)' /\ (On(j, "notify", c)' => j = k)
        BY <1>3, <2>3, <2>4, <2>5, <2>7, <4>3 DEF On
      <4> QED
        BY <4>4 DEF NoticeOk
    <3> QED
      BY <3>1, <3>2
  <2>14. Types'
    BY <1>0, <1>3, <2>4, <2>7 DEF Types, LinksGrow
  <2>15. \A l \in Links : LinkOk(l)'
    BY <1>3 DEF LinksGrow
  <2> QED
    BY <2>10, <2>11, <2>12, <2>13, <2>14, <2>15 DEF Inv
<1> QED
  BY <1>2, <1>4, <1>5 DEF Settle

-----------------------------------------------------------------------------
(* The invariant, and what follows from it.                                 *)

LEMMA InitInv == Init => Inv
<1> SUFFICES ASSUME Init PROVE Inv
  OBVIOUS
<1>0. Carts # {} => (CHOOSE b \in Carts : TRUE) \in Carts
  OBVIOUS
<1>1. \A c \in Carts : \E s \in SUBSET Items :
         cart[c] = Blank \/ cart[c] = [Blank EXCEPT !.status = "draft", !.chat = TRUE, !.lines = s, !.total = s]
  BY DEF Init
<1>2. \A c \in Carts : /\ cart[c] \in CartRow /\ cart[c].ref = 0 /\ ~cart[c].paid
                       /\ cart[c].status = "unborn" => cart[c] = Blank
                       /\ cart[c].total = cart[c].lines
  <2> TAKE c \in Carts
  <2>1. Blank \in CartRow /\ Blank.ref = 0 /\ ~Blank.paid /\ Blank.total = Blank.lines /\ Blank.status = "unborn"
    BY OrdersAssumption DEF Blank, CartRow
  <2>2. PICK s \in SUBSET Items :
          cart[c] = Blank \/ cart[c] = [Blank EXCEPT !.status = "draft", !.chat = TRUE, !.lines = s, !.total = s]
    BY <1>1
  <2>3. CASE cart[c] = [Blank EXCEPT !.status = "draft", !.chat = TRUE, !.lines = s, !.total = s]
    BY <2>1, <2>3 DEF CartRow, Statuses
  <2> QED
    BY <2>1, <2>2, <2>3
<1>3. cart \in [Carts -> CartRow]
  <2>1. PICK s \in SUBSET Items :
          cart = [c \in Carts |-> IF c = (CHOOSE b \in Carts : TRUE) /\ s # {}
                                  THEN [Blank EXCEPT !.status = "draft", !.chat = TRUE,
                                                     !.lines = s, !.total = s] ELSE Blank]
    BY DEF Init
  <2>2. cart = [c \in Carts |-> cart[c]]
    BY <2>1
  <2> QED
    BY <1>2, <2>2
<1>4. link \in [Links -> LinkRow] /\ \A l \in Links : LinkOk(l)
  BY DEF Init, LinkRow, LinkOk
<1>5. turn \in [Turns -> TurnRow] /\ \A h \in Turns : turn[h].pc \in Free
  BY OrdersAssumption DEF Init, Idle, TurnRow, Free
<1>6. hook \in [Hooks -> HookRow] /\ \A k \in Hooks : hook[k].pc = "idle"
  BY OrdersAssumption DEF Init, Off, HookRow
<1>7. notified \in [Carts -> Nat] /\ (\A c \in Carts : notified[c] = 0) /\ clash = {} /\ raced = {}
  BY DEF Init
<1>8. Types
  BY <1>3, <1>4, <1>5, <1>6, <1>7 DEF Types
<1>9. \A c \in Carts : CartOk(c)
  BY <1>2 DEF CartOk, Links
<1>10. \A h \in Turns : TurnOk(h)
  BY <1>5 DEF TurnOk, Free, Busy
<1>11. \A k \in Hooks : HookOk(k)
  BY <1>6 DEF HookOk
<1>12. \A c \in Carts : NoticeOk(c)
  BY <1>6, <1>7 DEF NoticeOk, On
<1> QED
  BY <1>4, <1>8, <1>9, <1>10, <1>11, <1>12 DEF Inv

LEMMA InvStutters == Inv /\ UNCHANGED vars => Inv'
<1> SUFFICES ASSUME Inv, UNCHANGED vars PROVE Inv'
  OBVIOUS
<1> USE DEF vars
<1>1. LinksGrow
  BY SameLinks
<1>2. \A c \in Carts : CartOk(c)'
  BY <1>1, CartStays
<1>3. \A h \in Turns : TurnOk(h)'
  <2> TAKE h \in Turns
  <2>1. \/ cart'[turn[h].cart].status = "deleted"
        \/ cart'[turn[h].cart].lines = cart[turn[h].cart].lines /\ cart[turn[h].cart].status # "deleted"
    OBVIOUS
  <2> QED
    BY <1>1, <2>1, TurnStays
<1>4. cart' \in [Carts -> CartRow] /\ turn' \in [Turns -> TurnRow] /\ raced' \subseteq Carts
  BY DEF Inv, Types
<1> QED
  BY <1>1, <1>2, <1>3, <1>4, WithoutHooks

LEMMA InvStep == Inv /\ [Next]_vars => Inv'
<1> SUFFICES ASSUME Inv, [Next]_vars PROVE Inv'
  OBVIOUS
<1>1. ASSUME NEW h \in Turns, Chat(h) \/ TurnFault(h) \/ Submit(h) \/ EditLine(h) PROVE Inv'
  BY <1>1, BeginSteps, ReadSteps, MintStep, IntentStep, WriteStep, PromoteStep, FaultStep DEF Chat
<1>2. ASSUME NEW c \in Carts, Desk(c) PROVE Inv'
  BY <1>2, RowSteps
<1>3. ASSUME NEW l \in Links, Pay(l) PROVE Inv'
  BY <1>3, PayStep
<1>4. ASSUME NEW k \in Hooks, Settlement(k) \/ HookFault(k) PROVE Inv'
  BY <1>4, EarlyHooks, ReadStep, SettleStep, NotifyStep DEF Settlement
<1> QED
  BY <1>1, <1>2, <1>3, <1>4, SweepStep, InvStutters DEF Next

LEMMA InvHolds == Spec => []Inv
  BY InitInv, InvStep, PTL DEF Spec

\* What the other parts do not need of the links and the claimed invoices.
Invoices ==
    /\ nonce \subseteq Links
    /\ \A l \in Links : link[l].kind \in {"echo", "invoice"} /\ link[l].extra \in 0 .. MaxExtra

LEMMA InvoicesStep == Inv /\ Invoices /\ [Next]_vars => Invoices'
<1> SUFFICES ASSUME Inv, Invoices, [Next]_vars PROVE Invoices'
  OBVIOUS
<1>0. link \in [Links -> LinkRow] /\ hook \in [Hooks -> HookRow] /\ \A k \in Hooks : HookOk(k)
  BY DEF Inv, Types
<1> USE GatewaysAssumption DEF Invoices
<1>1. ASSUME NEW h \in Turns, Mint(h) PROVE Invoices'
  <2>1. nonce' = nonce
    BY <1>1 DEF Mint
  <2>2. CASE UNCHANGED link
    BY <2>1, <2>2
  <2>3. CASE \E l \in Links, kind \in Gateways : link' = [link EXCEPT ![l].cart = turn[h].cart, ![l].kind = kind]
    <3>1. PICK l \in Links, kind \in Gateways : link' = [link EXCEPT ![l].cart = turn[h].cart, ![l].kind = kind]
      BY <2>3
    <3>2. \A m \in Links : link'[m].extra = link[m].extra /\ link'[m].kind \in {link[m].kind, kind}
      BY <1>0, <3>1 DEF LinkRow
    <3> QED
      BY <2>1, <3>2
  <2> QED
    BY <1>1, <2>2, <2>3 DEF Mint
<1>2. ASSUME NEW h \in Turns, Intent(h) \/ TurnFault(h) PROVE Invoices'
  <2>1. Send(h) \/ UNCHANGED link
    BY <1>2 DEF Intent, TurnFault
  <2>2. nonce' = nonce
    BY <1>2 DEF Intent, TurnFault
  <2>3. \A l \in Links : link'[l].kind = link[l].kind /\ link'[l].extra = link[l].extra
    <3>1. CASE link' = link
      BY <3>1
    <3>2. CASE link' = [link EXCEPT ![turn[h].link].sent = TRUE]
      BY <1>0, <3>2 DEF LinkRow
    <3> QED
      BY <2>1, <3>1, <3>2 DEF Send
  <2> QED
    BY <1>0, <2>2, <2>3
<1>3. ASSUME NEW h \in Turns,
             \/ Begin(h) \/ Look(h) \/ LinkRead(h) \/ SyncRead(h) \/ Sum(h) \/ Write(h) \/ Clear(h)
             \/ CaptureRead(h) \/ Promote(h) \/ Submit(h) \/ EditLine(h)
      PROVE  Invoices'
  <2>1. UNCHANGED <<link, nonce>>
    BY <1>3 DEF Begin, Look, LinkRead, SyncRead, Sum, Write, Clear, CaptureRead, Promote, Submit, EditLine
  <2> QED
    BY <2>1
<1>4. ASSUME (\E c \in Carts : Desk(c)) \/ Sweep \/ UNCHANGED vars PROVE Invoices'
  <2>1. UNCHANGED <<link, nonce>>
    BY <1>4 DEF Desk, PostCart, PatchStatus, DeleteCart, Sweep, vars
  <2> QED
    BY <2>1
<1>5. ASSUME NEW l \in Links, Pay(l) PROVE Invoices'
  BY <1>0, <1>5 DEF Pay
<1>6. ASSUME NEW k \in Hooks, Claim(k) \/ Find(k) \/ Read(k) \/ Reply(k) PROVE Invoices'
  <2>1. Answer(k) \/ UNCHANGED link
    BY <1>6 DEF Claim, Find, Read, Reply
  <2>2. nonce' = nonce \/ (hook[k].pc = "claim" /\ nonce' = nonce \cup {hook[k].link})
    BY <1>6 DEF Claim, Find, Read, Reply
  <2>3. \A l \in Links : link'[l].kind = link[l].kind /\ link'[l].extra = link[l].extra
    <3>1. CASE link' = link
      BY <3>1
    <3>2. CASE link' = [link EXCEPT ![hook[k].link].acked = TRUE]
      BY <1>0, <3>2 DEF LinkRow
    <3> QED
      BY <2>1, <3>1, <3>2 DEF Answer
  <2> QED
    BY <1>0, <2>2, <2>3 DEF HookOk
<1>7. ASSUME NEW k \in Hooks, (\E l \in Links : Receive(k, l)) \/ Settle(k) \/ Notify(k) \/ HookFault(k)
      PROVE  Invoices'
  <2>1. CASE \E l \in Links : Receive(k, l)
    <3>1. PICK l \in Links : Receive(k, l)
      BY <2>1
    <3>2. nonce' = nonce
      BY <3>1 DEF Receive
    <3>3. CASE link' = link
      BY <3>2, <3>3
    <3>4. CASE link[l].extra < MaxExtra /\ link' = [link EXCEPT ![l].extra = @ + 1]
      <4>1. \A m \in Links : link'[m].kind = link[m].kind
                            /\ link'[m].extra = IF m = l THEN link[m].extra + 1 ELSE link[m].extra
        BY <1>0, <3>4 DEF LinkRow
      <4>2. link[l].extra + 1 \in 0 .. MaxExtra
        BY <3>4
      <4> QED
        BY <3>2, <4>1, <4>2
    <3> QED
      BY <3>1, <3>3, <3>4 DEF Receive
  <2>2. CASE Settle(k) \/ Notify(k) \/ HookFault(k)
    BY <2>2 DEF Settle, Notify, HookFault
  <2> QED
    BY <1>7, <2>1, <2>2
<1> QED
  BY <1>1, <1>2, <1>3, <1>4, <1>5, <1>6, <1>7 DEF Next, Chat, Settlement

\* The rows and the handlers' records keep their types, for any number of carts,
\* items, handlers, links and webhooks.
THEOREM OrdersTypes == Spec => []TypeOK
<1>1. Init => Invoices
  BY GatewaysAssumption DEF Init, Invoices
<1>2. Inv /\ Invoices => TypeOK
  <2> SUFFICES ASSUME Inv, Invoices PROVE TypeOK
    OBVIOUS
  <2>1. Types /\ \A k \in Hooks : HookOk(k)
    BY DEF Inv
  <2>2. link \in [Links -> [cart : Carts \cup {NoCart}, kind : {"echo", "invoice"}, sent : BOOLEAN, paid : BOOLEAN,
                            acked : BOOLEAN, extra : 0 .. MaxExtra]]
    BY <2>1 DEF Types, LinkRow, Invoices
  <2>3. \A h \in Turns : turn[h].pc \in {"look", "link", "mint", "intent", "sync", "sum", "write", "clear",
                                        "capture", "promote", "idle"}
    BY <2>1 DEF Types, TurnRow, Free, Busy
  <2>4. \A k \in Hooks : hook[k].pc # "idle" => hook[k].link \in Links /\ hook[k].cart \in Carts
    <3>1. \A l \in Links : LinkOk(l)
      BY DEF Inv
    <3> QED
      BY <2>1, <3>1 DEF HookOk, LinkOk
  <2> QED
    BY <2>1, <2>2, <2>3, <2>4 DEF TypeOK, Types, CartRow, Invoices
<1> QED
  BY <1>1, <1>2, InvHolds, InvoicesStep, PTL DEF Spec

\* An order is paid only if its customer paid one of its links, whichever
\* webhooks of however many links arrive, late, repeated or together.
THEOREM OrdersPaidWasPaid == Spec => []PaidWasPaid
<1>1. Inv => PaidWasPaid
  BY DEF Inv, CartOk, PaidWasPaid
<1> QED
  BY <1>1, InvHolds, PTL

\* A payment is notified once, however many webhooks tell of it, unless two of
\* their handlers had read the order before either settled it.
THEOREM OrdersNotifiedOnce == Spec => []NotifiedOnce
<1>1. Inv => NotifiedOnce
  BY DEF Inv, NoticeOk, NotifiedOnce
<1> QED
  BY <1>1, InvHolds, PTL

\* What an order's totals count is its lines, unless two transactions changed it
\* at a time or a draft without lines was captured from the marker.
THEOREM OrdersTotals == Spec => []TotalsMatchLines
<1>1. Inv => TotalsMatchLines
  BY DEF Inv, CartOk, Row, TotalsMatchLines
<1> QED
  BY <1>1, InvHolds, PTL

\* What a step may do to an order that is paid.
Keeps(c) ==
    cart[c].paid /\ cart'[c].status # "deleted" =>
        /\ cart'[c].paid /\ cart'[c].pay = "paid"
        /\ \/ cart'[c].status \in {cart[c].status, "new", "confirmed"}
           \/ cart[c].status = "draft" \/ PatchStatus(c)

LEMMA SameKeeps ==
    ASSUME Inv, NEW c \in Carts, cart'[c] = cart[c]
    PROVE  Keeps(c)
  BY DEF Keeps, Inv, CartOk

LEMMA StatusKeeps ==
    ASSUME Inv, NEW c \in Carts, CancelDrafts
    PROVE  Keeps(c)
<1>1. CASE c \notin Drafts
  BY <1>1, SameKeeps DEF CancelDrafts
<1>2. CASE c \in Drafts
  <2>1. cart[c] \in CartRow /\ cart'[c] = [cart[c] EXCEPT !.status = "cancelled"] /\ cart[c].status = "draft"
    BY <1>2 DEF CancelDrafts, Drafts, Inv, Types
  <2>2. cart'[c].paid = cart[c].paid /\ cart'[c].pay = cart[c].pay
    BY <2>1 DEF CartRow
  <2> QED
    BY <2>1, <2>2 DEF Keeps, Inv, CartOk
<1> QED
  BY <1>1, <1>2

LEMMA ChatKeeps ==
    ASSUME Inv, NEW h \in Turns, NEW c \in Carts, Chat(h)
    PROVE  Keeps(c)
<1>0. cart \in [Carts -> CartRow] /\ cart[c] \in CartRow /\ CartOk(c)
  BY DEF Inv, Types
<1>1. CASE cart' = cart
  BY <1>1, SameKeeps
<1>2. CASE CancelDrafts
  BY <1>2, StatusKeeps
<1>3. CASE Intent(h)
  <2>1. CASE cart[c].paid
    <3>1. cart'[c] = cart[c]
      BY <1>0, <1>3, <2>1 DEF Intent
    <3> QED
      BY <3>1, SameKeeps
  <2> QED
    BY <2>1 DEF Keeps
<1>4. CASE Write(h)
  <2>1. CASE turn[h].cart # c
    BY <1>0, <1>4, <2>1, SameKeeps DEF Write
  <2>2. CASE turn[h].cart = c /\ cart[c].paid
    <3>1. cart[c].status \in Statuses /\ cart[c].pay = "paid" /\ cart[c].status # "unborn"
      BY <1>0, <2>2 DEF CartOk, Statuses
    <3> DEFINE lines == Edited(h, cart[c].lines)
               chat == cart[c].chat \/ cart[c].status = "unborn"
               call == cart[c].call \/ turn[h].chan = "call"
               r == [cart[c] EXCEPT !.lines = lines, !.total = turn[h].read, !.status = cart[c].status,
                                    !.chat = chat, !.call = call]
    <3>a. cart'[c] = cart[c] \/ cart'[c] = r
      BY <1>0, <1>4, <2>2, <3>1, ZenonT(40) DEF Write
    <3> HIDE DEF lines, chat, call
    <3>2. cart'[c].paid = cart[c].paid /\ cart'[c].pay = cart[c].pay /\ cart'[c].status = cart[c].status
      BY <1>0, <3>a DEF CartRow
    <3> QED
      BY <2>2, <3>1, <3>2 DEF Keeps
  <2> QED
    BY <2>1, <2>2 DEF Keeps
<1>5. CASE Promote(h)
  <2>1. CASE turn[h].cart # c \/ cart' = cart
    BY <1>0, <1>5, <2>1, SameKeeps DEF Promote
  <2>2. CASE turn[h].cart = c /\ cart[c].paid /\ cart' # cart
    <3>1. cart[c].pay = "paid"
      BY <1>0, <2>2 DEF CartOk
    <3> DEFINE born == cart[c].status # "unborn"
               total == turn[h].read \cup turn[h].item
               lines == IF turn[h].chan = "whatsapp" /\ born THEN cart[c].lines \cap total
                        ELSE cart[c].lines \cup turn[h].item
               chat == born \/ turn[h].chan # "call"
               call == cart[c].call \/ turn[h].chan = "call"
               r == [cart[c] EXCEPT !.status = "new", !.total = total, !.lines = lines,
                                    !.chat = chat, !.call = call]
    <3>b. cart[c].status # "deleted"
      BY <1>5, <2>2 DEF Promote
    <3>c. cart' = [cart EXCEPT ![c] = r]
      BY <1>0, <1>5, <2>2, <3>b, ZenonT(40) DEF Promote
    <3>a. cart'[c] = r
      BY <1>0, <3>c
    <3> HIDE DEF lines, total, chat, call
    <3>2. cart'[c].paid = cart[c].paid /\ cart'[c].pay = cart[c].pay /\ cart'[c].status = "new"
      BY <1>0, <3>a DEF CartRow
    <3> QED
      BY <2>2, <3>1, <3>2 DEF Keeps
  <2> QED
    BY <2>1, <2>2 DEF Keeps
<1> QED
  BY <1>1, <1>2, <1>3, <1>4, <1>5
     DEF Chat, Begin, Look, LinkRead, Mint, SyncRead, Sum, Clear, CaptureRead

LEMMA DeskKeeps ==
    ASSUME Inv, NEW b \in Carts, NEW c \in Carts, Desk(b)
    PROVE  Keeps(c)
<1>0. cart \in [Carts -> CartRow] /\ cart[c] \in CartRow /\ CartOk(c)
  BY DEF Inv, Types
<1>1. CASE PostCart(b)
  <2>1. cart[b] = Blank
    BY <1>1, FreshIsUnborn DEF PostCart
  <2>2. c = b => ~cart[c].paid
    BY <2>1 DEF Blank
  <2>3. c # b => cart'[c] = cart[c]
    BY <1>0, <1>1 DEF PostCart
  <2> QED
    BY <2>2, <2>3, SameKeeps DEF Keeps
<1>2. CASE PatchStatus(b)
  <2>1. PICK s \in Statuses : cart' = [cart EXCEPT ![b].status = s]
    BY <1>2 DEF PatchStatus
  <2>2. c # b => cart'[c] = cart[c]
    BY <1>0, <2>1
  <2>3. c = b => cart'[c] = [cart[c] EXCEPT !.status = s]
    BY <1>0, <2>1
  <2>4. c = b => cart'[c].paid = cart[c].paid /\ cart'[c].pay = cart[c].pay
    BY <1>0, <2>3 DEF CartRow
  <2> QED
    BY <1>0, <1>2, <2>2, <2>4, SameKeeps DEF Keeps, CartOk
<1>3. CASE DeleteCart(b)
  <2>1. c # b => cart'[c] = cart[c]
    BY <1>0, <1>3 DEF DeleteCart
  <2>2. c = b => cart'[c].status = "deleted"
    BY <1>0, <1>3 DEF DeleteCart, Blank
  <2> QED
    BY <2>1, <2>2, SameKeeps DEF Keeps
<1> QED
  BY <1>1, <1>2, <1>3 DEF Desk

LEMMA SettleKeeps ==
    ASSUME Inv, NEW k \in Hooks, NEW c \in Carts, Settle(k)
    PROVE  Keeps(c)
<1>0. cart \in [Carts -> CartRow] /\ cart[c] \in CartRow
  BY DEF Inv, Types
<1>1. CASE hook[k].cart # c \/ cart' = cart
  BY <1>0, <1>1, SameKeeps DEF Settle
<1>2. CASE hook[k].cart = c /\ cart' # cart
  <2> DEFINE n == IF link[hook[k].link].kind = "invoice" THEN hook[k].link ELSE 0
  <2>1. cart'[c] = [cart[c] EXCEPT !.status = "confirmed", !.pay = "paid", !.paid = TRUE, !.ref = n]
    BY <1>0, <1>2 DEF Settle
  <2> HIDE DEF n
  <2>2. cart'[c].paid /\ cart'[c].pay = "paid" /\ cart'[c].status = "confirmed"
    BY <1>0, <2>1 DEF CartRow
  <2> QED
    BY <2>2 DEF Keeps
<1> QED
  BY <1>1, <1>2

\* A paid order stays paid through every late link, promotion, edit and sweep, and
\* only operators cancel or complete it (or make it a draft again first).
THEOREM OrdersPaidStaysPaid == Spec => PaidStaysPaid
<1>1. ASSUME Inv, [Next]_vars, NEW c \in Carts PROVE Keeps(c)
  <2>1. CASE cart' = cart
    BY <1>1, <2>1, SameKeeps
  <2>2. ASSUME NEW h \in Turns, Chat(h) PROVE Keeps(c)
    BY <1>1, <2>2, ChatKeeps
  <2>3. ASSUME NEW b \in Carts, Desk(b) PROVE Keeps(c)
    BY <1>1, <2>3, DeskKeeps
  <2>4. CASE Sweep
    BY <1>1, <2>4, StatusKeeps DEF Sweep
  <2>5. ASSUME NEW k \in Hooks, Settlement(k) \/ HookFault(k) PROVE Keeps(c)
    <3>1. CASE Settle(k)
      BY <1>1, <3>1, SettleKeeps
    <3> QED
      BY <2>1, <2>5, <3>1 DEF Settlement, HookFault, Receive, Claim, Find, Read, Notify, Reply
  <2> QED
    BY <1>1, <2>1, <2>2, <2>3, <2>4, <2>5 DEF Next, vars, TurnFault, Submit, EditLine, Pay
<1>2. Inv /\ [Next]_vars =>
         [\A c \in Carts :
             cart[c].paid /\ cart'[c].status # "deleted" =>
                 /\ cart'[c].paid /\ cart'[c].pay = "paid"
                 /\ \/ cart'[c].status \in {cart[c].status, "new", "confirmed"}
                    \/ cart[c].status = "draft" \/ PatchStatus(c)]_vars
  BY <1>1 DEF Keeps
<1> QED
  BY <1>2, InvHolds, PTL DEF Spec, PaidStaysPaid
=============================================================================
