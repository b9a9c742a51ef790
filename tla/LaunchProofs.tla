---------------------------- MODULE LaunchProofs ----------------------------
(***************************************************************************)
(* For any number of broadcasts, requests and fanout slots: the plan's     *)
(* monthly cap on launches, from the count of the launches between their   *)
(* check and the counter (CapInv); and the audience of a broadcast, whole  *)
(* whenever no fanout is at work on it, from what each fanout, job and     *)
(* request promises of it (Audience).                                      *)
(***************************************************************************)
EXTENDS BroadcastLaunch, FiniteSetTheorems, TLAPS

\* Launches whose check has passed: those that are still to be written, and those that
\* are written and still to be counted.
Checked == {a \in Requests : req[a].draft /\ req[a].pc = "write"}
Written == {a \in Requests : req[a].draft /\ req[a].pc # "write"}

Bit(x) == IF x THEN 1 ELSE 0

Req == [pc : {"idle", "write", "dequeue", "rollback", "enqueue", "bump"},
        op : Sends \cup {"none", "pause", "resume", "cancel", "delete"},
        b : Broadcasts \cup {NoBroadcast}, draft : BOOLEAN]

\* The second part makes room for what is checked, the third bounds what the usage
\* does not show.
CapInv ==
    /\ req \in [Requests -> Req]
    /\ \A a \in Requests : req[a].draft => req[a].op \in Sends /\ req[a].pc # "idle"
    /\ usage \in Nat /\ launched \in Int /\ uncounted \in Nat
    /\ launched + Cardinality(Checked) <= Cap + uncounted
    /\ launched <= usage + Cardinality(Written) + uncounted

LEMMA CheckedFinite ==
    /\ IsFiniteSet(Checked) /\ Cardinality(Checked) \in Nat
    /\ IsFiniteSet(Written) /\ Cardinality(Written) \in Nat
  BY LaunchAssumption, FS_Subset, FS_CardinalityType DEF Checked, Written

LEMMA InitCap == Init => CapInv
<1> SUFFICES ASSUME Init PROVE CapInv
  OBVIOUS
<1>1. req \in [Requests -> Req] /\ \A a \in Requests : ~req[a].draft
  BY DEF Init, NoReq, Req
<1>2. Checked = {} /\ Written = {}
  BY <1>1 DEF Checked, Written
<1>3. Cardinality({}) = 0
  BY FS_EmptySet
<1> QED
  BY <1>1, <1>2, <1>3, LaunchAssumption DEF Init, CapInv

\* A handler's step moves its own launch only.
LEMMA RequestMoves ==
    ASSUME CapInv, NEW a \in Requests, NEW r \in Req, ToReq(a, r)
    PROVE  /\ Cardinality(Checked') = Cardinality(Checked) - Bit(req[a].draft /\ req[a].pc = "write")
                                       + Bit(r.draft /\ r.pc = "write")
           /\ Cardinality(Written') = Cardinality(Written) - Bit(req[a].draft /\ req[a].pc # "write")
                                       + Bit(r.draft /\ r.pc # "write")
           /\ req' \in [Requests -> Req]
           /\ \A c \in Requests \ {a} : req'[c] = req[c]
           /\ req'[a] = r
<1>1. /\ req' \in [Requests -> Req] /\ req'[a] = r
      /\ \A c \in Requests \ {a} : req'[c] = req[c]
  BY DEF ToReq, CapInv
<1>2. /\ Checked' = IF r.draft /\ r.pc = "write" THEN Checked \cup {a} ELSE Checked \ {a}
      /\ Written' = IF r.draft /\ r.pc # "write" THEN Written \cup {a} ELSE Written \ {a}
      /\ a \in Checked <=> req[a].draft /\ req[a].pc = "write"
      /\ a \in Written <=> req[a].draft /\ req[a].pc # "write"
  BY <1>1 DEF Checked, Written
<1>3. ASSUME NEW S, IsFiniteSet(S), Cardinality(S) \in Nat
      PROVE  /\ Cardinality(S \cup {a}) = Cardinality(S) - Bit(a \in S) + 1
             /\ Cardinality(S \ {a}) = Cardinality(S) - Bit(a \in S)
  <2>1. /\ Cardinality(S \cup {a}) = IF a \in S THEN Cardinality(S) ELSE Cardinality(S) + 1
        /\ Cardinality(S \ {a}) = IF a \in S THEN Cardinality(S) - 1 ELSE Cardinality(S)
    BY <1>3, FS_AddElement, FS_RemoveElement
  <2>2. Bit(a \in S) = IF a \in S THEN 1 ELSE 0
    BY DEF Bit
  <2> HIDE DEF Bit
  <2>3. CASE a \in S
    BY <1>3, <2>1, <2>2, <2>3
  <2>4. CASE a \notin S
    BY <1>3, <2>1, <2>2, <2>4
  <2> QED
    BY <2>3, <2>4
<1>4. ASSUME NEW S, Cardinality(S) \in Nat, NEW x \in BOOLEAN
      PROVE  /\ x => Cardinality(S) - Bit(a \in S) + Bit(x) = Cardinality(S) - Bit(a \in S) + 1
             /\ ~x => Cardinality(S) - Bit(a \in S) + Bit(x) = Cardinality(S) - Bit(a \in S)
  BY <1>4 DEF Bit
<1>5. CASE r.draft /\ r.pc = "write"
  BY <1>1, <1>2, <1>3, <1>4, <1>5, CheckedFinite DEF Bit
<1>6. CASE r.draft /\ r.pc # "write"
  BY <1>1, <1>2, <1>3, <1>4, <1>6, CheckedFinite DEF Bit
<1>7. CASE ~r.draft
  BY <1>1, <1>2, <1>3, <1>4, <1>7, CheckedFinite DEF Bit
<1> QED
  BY <1>5, <1>6, <1>7

LEMMA OtherSteps ==
    ASSUME CapInv, UNCHANGED <<req, usage, launched, uncounted>>
    PROVE  CapInv'
  BY DEF CapInv, Checked, Written

LEMMA ReceiveStep ==
    ASSUME CapInv, NEW a \in Requests, NEW b \in Broadcasts,
           NEW op \in Sends \cup {"pause", "resume", "cancel", "delete"}, Receive(a, op, b)
    PROVE  CapInv'
<1> DEFINE draft == op \in Sends /\ status[b] = "draft"
           r == [pc |-> "write", op |-> op, b |-> b, draft |-> draft]
<1>1. /\ req[a].pc = "idle" /\ ToReq(a, r) /\ (draft => UnderTheCap)
      /\ uncounted' = IF draft /\ Underway # {} THEN uncounted + 1 ELSE uncounted
      /\ UNCHANGED <<usage, launched>>
  BY DEF Receive
<1>2. r \in Req /\ r.draft = draft /\ r.pc = "write" /\ r.op = op
  BY DEF Req
<1>3. ~req[a].draft
  BY <1>1 DEF CapInv
<1> HIDE DEF r, draft
<1>4. /\ Cardinality(Checked') = Cardinality(Checked) + Bit(draft)
      /\ Cardinality(Written') = Cardinality(Written)
      /\ req' \in [Requests -> Req] /\ req'[a] = r
      /\ \A c \in Requests \ {a} : req'[c] = req[c]
  <2>1. Bit(req[a].draft /\ req[a].pc = "write") = 0 /\ Bit(req[a].draft /\ req[a].pc # "write") = 0
    BY <1>3 DEF Bit
  <2>2. Bit(r.draft /\ r.pc = "write") = Bit(draft) /\ Bit(r.draft /\ r.pc # "write") = 0
    BY <1>2 DEF Bit
  <2>3. Bit(draft) \in Nat
    BY DEF Bit
  <2> QED
    BY <1>1, <1>2, <2>1, <2>2, <2>3, RequestMoves, CheckedFinite
<1>5. \A c \in Requests : req'[c].draft => req'[c].op \in Sends /\ req'[c].pc # "idle"
  BY <1>2, <1>4 DEF CapInv, draft
<1>6. /\ launched + Cardinality(Checked') <= Cap + uncounted'
      /\ launched <= usage + Cardinality(Written') + uncounted'
      /\ uncounted' \in Nat
  <2>1. CASE draft /\ Underway # {}
    BY <1>1, <1>4, <2>1, CheckedFinite, LaunchAssumption DEF CapInv, Bit
  <2>2. CASE draft /\ Underway = {}
    <3>1. Checked = {} /\ Written = {}
      BY <2>2 DEF Underway, Checked, Written
    <3>2. usage < Cap
      BY <1>1, <2>2 DEF UnderTheCap
    <3> QED
      BY <1>1, <1>4, <2>2, <3>1, <3>2, FS_EmptySet, LaunchAssumption DEF CapInv, Bit
  <2>3. CASE ~draft
    BY <1>1, <1>4, <2>3, CheckedFinite, LaunchAssumption DEF CapInv, Bit
  <2> QED
    BY <2>1, <2>2, <2>3
<1> QED
  BY <1>1, <1>4, <1>5, <1>6 DEF CapInv

\* What is left to show of a step that keeps the launch, or ends the handler.
LEMMA HandlerStep ==
    ASSUME CapInv, NEW a \in Requests, NEW r \in Req, ToReq(a, r),
           r.draft => req[a].draft /\ r.op = req[a].op /\ r.pc \notin {"idle", "write"},
           usage' \in Nat, launched' \in Int, uncounted' \in Nat,
           launched' <= launched + Bit(req[a].draft /\ req[a].pc = "write") + uncounted' - uncounted,
           launched' - usage' - uncounted' <= launched - usage - uncounted
                                 + Bit(r.draft) - Bit(req[a].draft /\ req[a].pc # "write")
    PROVE  CapInv'
<1>1. /\ Cardinality(Checked') = Cardinality(Checked) - Bit(req[a].draft /\ req[a].pc = "write")
      /\ Cardinality(Written') = Cardinality(Written) - Bit(req[a].draft /\ req[a].pc # "write") + Bit(r.draft)
      /\ req' \in [Requests -> Req] /\ req'[a] = r
      /\ \A c \in Requests \ {a} : req'[c] = req[c]
  <2>1. Bit(r.draft /\ r.pc = "write") = 0 /\ Bit(r.draft /\ r.pc # "write") = Bit(r.draft)
    BY DEF Bit
  <2>2. Bit(req[a].draft /\ req[a].pc = "write") \in Nat
    BY DEF Bit
  <2> QED
    BY <2>1, <2>2, RequestMoves, CheckedFinite
<1>2. \A c \in Requests : req'[c].draft => req'[c].op \in Sends /\ req'[c].pc # "idle"
  BY <1>1 DEF CapInv
<1>3. /\ Bit(req[a].draft /\ req[a].pc = "write") \in Nat /\ Bit(r.draft) \in Nat
      /\ Bit(req[a].draft /\ req[a].pc # "write") \in Nat
  BY DEF Bit
<1>4. /\ usage \in Nat /\ launched \in Int /\ uncounted \in Nat
      /\ launched + Cardinality(Checked) <= Cap + uncounted
      /\ launched <= usage + Cardinality(Written) + uncounted
  BY DEF CapInv
<1>5. /\ launched' + Cardinality(Checked') <= Cap + uncounted'
      /\ launched' <= usage' + Cardinality(Written') + uncounted'
  BY <1>1, <1>3, <1>4, CheckedFinite, LaunchAssumption
<1> QED
  BY <1>1, <1>2, <1>5 DEF CapInv

LEMMA SendSteps ==
    ASSUME CapInv, NEW a \in Requests,
           \/ SendWrite(a) \/ SendRollback(a) \/ SendDequeue(a) \/ SendEnqueue(a) \/ SendBump(a)
    PROVE  CapInv'
<1>1. /\ req[a] \in Req /\ usage \in Nat /\ launched \in Int /\ uncounted \in Nat
      /\ NoReq \in Req /\ ~NoReq.draft
  BY DEF CapInv, Req, NoReq
<1>2. ASSUME NEW pc \in {"dequeue", "rollback", "enqueue", "bump"}
      PROVE  LET r == [req[a] EXCEPT !.pc = pc]
             IN  r \in Req /\ r.draft = req[a].draft /\ r.op = req[a].op /\ r.pc = pc
  BY <1>1 DEF Req
<1>3. CASE SendWrite(a)
  <2>1. req[a].pc = "write" /\ UNCHANGED <<usage, uncounted>>
    BY <1>3 DEF SendWrite
  <2>2. CASE ToReq(a, NoReq) /\ UNCHANGED launched
    BY <1>1, <2>1, <2>2, HandlerStep DEF Bit
  <2>3. ASSUME NEW pc \in {"dequeue", "rollback"}, ToReq(a, [req[a] EXCEPT !.pc = pc]),
               launched' = IF req[a].draft THEN launched + 1 ELSE launched
        PROVE  CapInv'
    <3> DEFINE r == [req[a] EXCEPT !.pc = pc]
    <3>1. r \in Req /\ r.draft = req[a].draft /\ r.op = req[a].op /\ r.pc = pc /\ ToReq(a, r)
      BY <1>2, <2>3
    <3> HIDE DEF r
    <3> QED
      BY <1>1, <2>1, <2>3, <3>1, HandlerStep DEF Bit
  <2> QED
    BY <1>3, <2>2, <2>3 DEF SendWrite
<1>4. CASE SendRollback(a)
  <2>1. /\ req[a].pc = "rollback" /\ ToReq(a, NoReq) /\ UNCHANGED <<usage, uncounted>>
        /\ launched' = IF req[a].draft THEN launched - 1 ELSE launched
    BY <1>4 DEF SendRollback
  <2> QED
    BY <1>1, <2>1, HandlerStep DEF Bit
<1>5. CASE SendDequeue(a)
  <2>1. req[a].pc = "dequeue" /\ ToReq(a, [req[a] EXCEPT !.pc = "enqueue"]) /\ UNCHANGED <<usage, launched, uncounted>>
    BY <1>5 DEF SendDequeue
  <2> QED
    <3> DEFINE r == [req[a] EXCEPT !.pc = "enqueue"]
    <3>1. r \in Req /\ r.draft = req[a].draft /\ r.op = req[a].op /\ r.pc = "enqueue" /\ ToReq(a, r)
      BY <1>2, <2>1
    <3> HIDE DEF r
    <3> QED
      BY <1>1, <2>1, <3>1, HandlerStep DEF Bit
<1>6. CASE SendEnqueue(a)
  <2>1. /\ req[a].pc = "enqueue" /\ UNCHANGED <<usage, launched, uncounted>>
        /\ ToReq(a, IF req[a].draft THEN [req[a] EXCEPT !.pc = "bump"] ELSE NoReq)
    BY <1>6 DEF SendEnqueue, seen
  <2>2. CASE req[a].draft
    <3> DEFINE r == [req[a] EXCEPT !.pc = "bump"]
    <3>1. r \in Req /\ r.draft = req[a].draft /\ r.op = req[a].op /\ r.pc = "bump" /\ ToReq(a, r)
      BY <1>2, <2>1, <2>2
    <3> HIDE DEF r
    <3> QED
      BY <1>1, <2>1, <3>1, HandlerStep DEF Bit
  <2>3. CASE ~req[a].draft
    BY <1>1, <2>1, <2>3, HandlerStep DEF Bit
  <2> QED
    BY <2>2, <2>3
<1>7. CASE SendBump(a)
  <2>1. req[a].pc = "bump" /\ ToReq(a, NoReq) /\ usage' = usage + 1 /\ UNCHANGED <<launched, uncounted>>
    BY <1>7 DEF SendBump, seen
  <2> QED
    BY <1>1, <2>1, HandlerStep DEF Bit
<1> QED
  BY <1>3, <1>4, <1>5, <1>6, <1>7

LEMMA OpSteps ==
    ASSUME CapInv, NEW a \in Requests,
           OpWrite(a) \/ ResumeEnqueue(a) \/ OpDequeue(a) \/ RequestFault(a)
    PROVE  CapInv'
<1>1. /\ req[a] \in Req /\ usage \in Nat /\ launched \in Int /\ uncounted \in Nat
      /\ NoReq \in Req /\ ~NoReq.draft
  BY DEF CapInv, Req, NoReq
<1>2. ASSUME NEW pc \in {"dequeue", "enqueue"}, req[a].op \notin Sends
      PROVE  LET r == [req[a] EXCEPT !.pc = pc] IN r \in Req /\ ~r.draft
  BY <1>1, <1>2 DEF Req, CapInv
<1>3. CASE OpWrite(a)
  <2>1. /\ req[a].op \notin Sends /\ ~req[a].draft /\ UNCHANGED <<usage, launched, uncounted>>
        /\ \/ ToReq(a, NoReq)
           \/ \E pc \in {"dequeue", "enqueue"} : ToReq(a, [req[a] EXCEPT !.pc = pc])
    <3>1. req[a].op \notin Sends /\ UNCHANGED <<usage, launched, uncounted>>
      BY <1>3 DEF OpWrite
    <3>2. req[a].op \in {"none", "pause", "resume", "cancel", "delete"} /\ ~req[a].draft
      BY <1>1, <3>1 DEF Req, CapInv
    <3>3. \/ ToReq(a, NoReq)
          \/ \E pc \in {"dequeue", "enqueue"} : ToReq(a, [req[a] EXCEPT !.pc = pc])
      BY <1>3 DEF OpWrite
    <3> QED
      BY <3>1, <3>2, <3>3
  <2>2. CASE ToReq(a, NoReq)
    BY <1>1, <2>1, <2>2, HandlerStep DEF Bit
  <2>3. ASSUME NEW pc \in {"dequeue", "enqueue"}, ToReq(a, [req[a] EXCEPT !.pc = pc])
        PROVE  CapInv'
    <3> DEFINE r == [req[a] EXCEPT !.pc = pc]
    <3>1. r \in Req /\ ~r.draft /\ ToReq(a, r)
      BY <1>2, <2>1, <2>3
    <3> HIDE DEF r
    <3> QED
      BY <1>1, <2>1, <3>1, HandlerStep DEF Bit
  <2> QED
    BY <2>1, <2>2, <2>3
<1>4. CASE ResumeEnqueue(a) \/ OpDequeue(a)
  <2>1. req[a].op \notin Sends /\ ToReq(a, NoReq) /\ UNCHANGED <<usage, launched, uncounted>>
    BY <1>4 DEF ResumeEnqueue, OpDequeue, Sends, seen
  <2>2. ~req[a].draft
    BY <2>1 DEF CapInv
  <2> QED
    BY <1>1, <2>1, <2>2, HandlerStep DEF Bit
<1>5. CASE RequestFault(a)
  <2>1. /\ ToReq(a, NoReq) /\ UNCHANGED <<usage, launched>>
        /\ uncounted' = IF req[a].draft /\ req[a].pc # "write" THEN uncounted + 1 ELSE uncounted
    BY <1>5 DEF RequestFault
  <2> QED
    BY <1>1, <2>1, HandlerStep DEF Bit
<1> QED
  BY <1>3, <1>4, <1>5

LEMMA CapStep == CapInv /\ [Next]_vars => CapInv'
<1> SUFFICES ASSUME CapInv, [Next]_vars PROVE CapInv'
  OBVIOUS
<1>1. CASE UNCHANGED vars
  BY <1>1, OtherSteps DEF vars, seen
<1>2. ASSUME NEW a \in Requests, Handle(a) \/ RequestFault(a) PROVE CapInv'
  BY <1>2, SendSteps, OpSteps DEF Handle
<1>3. ASSUME NEW f \in Fans, FanWork(f) \/ FanFault(f) PROVE CapInv'
  BY <1>3, OtherSteps DEF FanWork, FanFault, FanTake, FanPromote, FanCount, FanStream, FanPage, FanFail, seen
<1>4. ASSUME NEW b \in Broadcasts, Due(b) \/ Complete(b) \/ Reap(b) PROVE CapInv'
  BY <1>4, OtherSteps DEF Due, Complete, Reap, ReaperFind, ReaperFinish, seen
<1> QED
  BY <1>1, <1>2, <1>3, <1>4, ReceiveStep DEF Next

\* For any cap and any number of requests the month's launches stay within the cap, but
\* for those checked while another one was to be counted and those whose count was lost
\* (broadcasts.routes.ts, api/src/lib/billing.ts).
THEOREM LaunchesCapped == Spec => []LaunchesWithinCap
<1>1. CapInv => LaunchesWithinCap
  BY CheckedFinite, LaunchAssumption DEF CapInv, LaunchesWithinCap
<1> QED
  BY <1>1, InitCap, CapStep, PTL DEF Spec

-----------------------------------------------------------------------------
(* The audience.  What a fanout slot does with a CSV is counted by the batch *)
(* it has reached; what a broadcast that is sending still owes is at one of  *)
(* few places.                                                               *)

FanRec == [pc : {"idle", "promote", "count", "stream", "page", "failed"},
           b : Broadcasts \cup {NoBroadcast}, job : {"main", "again"},
           old : Statuses \cup {"none"}, n : Nat]

Jobs == [state : {"none", "delayed", "ready", "active", "done"}, left : Int]

\* A slot or a handler that is idle has no broadcast, any other has one.
Shape ==
    /\ req \in [Requests -> Req] /\ fan \in [Fans -> FanRec]
    /\ \A a \in Requests : req[a].pc = "idle" <=> req[a].b = NoBroadcast
    /\ \A f \in Fans : fan[f].pc = "idle" <=> fan[f].b = NoBroadcast
    /\ \A f \in Fans : fan[f].pc \in {"promote", "count"} => fan[f].n = 0
    /\ \A f \in Fans : fan[f].pc = "stream" => fan[f].n < Batches
    /\ status \in [Broadcasts -> Statuses]
    /\ rows \in [Broadcasts -> 0 .. Batches] /\ released \in [Broadcasts -> 0 .. Batches]
    /\ job \in [Broadcasts -> Jobs]
    /\ again \in [Broadcasts -> {"none", "ready", "active"}]

FanAt(f, b, pc) == fan[f].b = b /\ fan[f].pc = pc

\* A CSV has one reader, who is as far as its rows, and is whole for whoever pages.
Reading(b) ==
    /\ \A f, g \in Fans : FanAt(f, b, "stream") /\ FanAt(g, b, "stream") => f = g
    /\ \A f \in Fans : FanAt(f, b, "stream") => fan[f].n = rows[b] /\ rows[b] < Batches
    /\ \A f \in Fans : FanAt(f, b, "page") => rows[b] = Batches
    /\ (\A f \in Fans : ~FanAt(f, b, "stream")) => rows[b] \in {0, Batches}

\* An active job has its slot.
Locked(b) ==
    job[b].state = "active" => \E f \in FansAt(b) : fan[f].job = "main" /\ fan[f].pc # "failed"

ReqAt(a, b, pc, o) == req[a].b = b /\ req[a].pc = pc /\ req[a].op \in o

Ends == {"cancel", "delete"}
Over == {"cancelled", "deleted", "completed", "failed"}

\* Somebody is still to enqueue the fanout, or to take the launch back.
Promised(b) ==
    \E a \in Requests : \/ req[a].b = b /\ req[a].pc \in {"rollback", "enqueue"}
                        \/ ReqAt(a, b, "dequeue", Sends)

\* Of a broadcast whose requests neither overlap nor break off: its handler is alone,
\* finds no job where it is about to add one, nor anybody who would send again what it
\* has ended, and sending ends in a release.
Orderly(b) ==
    /\ \A a, c \in At(b) : a = c
    /\ \A a \in Requests : ReqAt(a, b, "enqueue", Sends) =>
          job[b].state = "none" /\ \A f \in FansAt(b) : fan[f].job = "again"
    /\ \A a \in Requests : ReqAt(a, b, "dequeue", Ends) =>
          status[b] \in Over /\ \A f \in Fans : FanAt(f, b, "promote") => fan[f].old # "scheduled"
    /\ status[b] = "sending" =>
          Promised(b) \/ Waits(b) \/ FansAt(b) # {} \/ released[b] = rows[b]

AudienceAt(b) ==
    /\ b \in Csv \ torn => Reading(b)
    /\ Locked(b)
    /\ b \notin crossed => Orderly(b)

Audience == Shape /\ \A b \in Broadcasts : AudienceAt(b)

LEMMA NoBroadcastIsNone == NoBroadcast \notin Broadcasts
  BY LaunchAssumption

\* The step leaves every other broadcast alone.
Apart(q) ==
    \A c \in Broadcasts \ {q} :
        /\ status'[c] = status[c] /\ rows'[c] = rows[c] /\ released'[c] = released[c]
        /\ job'[c] = job[c] /\ again'[c] = again[c]
        /\ \A f \in Fans : fan[f].b = c \/ fan'[f].b = c => fan'[f] = fan[f]
        /\ \A a \in Requests : req[a].b = c \/ req'[a].b = c => req'[a] = req[a]
        /\ (c \in torn => c \in torn') /\ (c \in crossed => c \in crossed')

LEMMA OneAtATime ==
    ASSUME Audience, Shape', NEW q \in Broadcasts, Apart(q), AudienceAt(q)'
    PROVE  Audience'
<1>1. ASSUME NEW c \in Broadcasts \ {q} PROVE AudienceAt(c)'
  <2>1. /\ status'[c] = status[c] /\ rows'[c] = rows[c] /\ released'[c] = released[c]
        /\ job'[c] = job[c] /\ again'[c] = again[c]
        /\ \A f \in Fans : fan[f].b = c \/ fan'[f].b = c => fan'[f] = fan[f]
        /\ \A a \in Requests : req[a].b = c \/ req'[a].b = c => req'[a] = req[a]
        /\ (c \in torn => c \in torn') /\ (c \in crossed => c \in crossed')
    BY DEF Apart
  <2>2. AudienceAt(c)
    BY DEF Audience
  <2>3. \A f \in Fans : fan'[f].b = c <=> fan[f].b = c
    BY <2>1
  <2>4. \A a \in Requests : req'[a].b = c <=> req[a].b = c
    BY <2>1
  <2>5. FansAt(c)' = FansAt(c) /\ At(c)' = At(c)
    BY <2>3, <2>4 DEF FansAt, At
  <2>6. c \in Csv \ torn' => Reading(c)'
    <3>1. ASSUME NEW f \in Fans, NEW pc
          PROVE  /\ FanAt(f, c, pc)' <=> FanAt(f, c, pc)
                 /\ FanAt(f, c, pc) => fan'[f].n = fan[f].n
      BY <2>1 DEF FanAt
    <3>2. c \in Csv \ torn' => Reading(c)
      BY <2>1, <2>2 DEF AudienceAt
    <3> QED
      BY <2>1, <3>1, <3>2 DEF Reading
  <2>7. Locked(c)'
    <3>1. \A f \in FansAt(c) : fan'[f] = fan[f]
      BY <2>1 DEF FansAt
    <3> QED
      BY <2>1, <2>2, <2>5, <3>1 DEF AudienceAt, Locked
  <2>8. ASSUME c \notin crossed' PROVE Orderly(c)'
    <3>1. Orderly(c)
      BY <2>1, <2>2, <2>8 DEF AudienceAt
    <3>2. \A f \in FansAt(c) : fan'[f] = fan[f]
      BY <2>1 DEF FansAt
    <3>3. \A a \in Requests : \A o, pc : ReqAt(a, c, pc, o)' <=> ReqAt(a, c, pc, o)
      BY <2>1 DEF ReqAt
    <3>4. Promised(c)' <=> Promised(c)
      BY <2>1, <3>3 DEF Promised
    <3>5. Waits(c)' <=> Waits(c)
      BY <2>1 DEF Waits
    <3>6. \A f \in Fans : FanAt(f, c, "promote")' => FanAt(f, c, "promote") /\ fan'[f] = fan[f]
      BY <2>1 DEF FanAt
    <3> QED
      BY <2>1, <2>5, <3>1, <3>2, <3>3, <3>4, <3>5, <3>6 DEF Orderly
  <2> QED
    BY <2>6, <2>7, <2>8 DEF AudienceAt
<1> QED
  BY <1>1 DEF Audience

-----------------------------------------------------------------------------
(* The requests.                                                             *)

\* What every step of a handler leaves of the rest, and moves of its own record.
Handles(a, t, q) ==
    /\ ToReq(a, t) /\ t \in Req /\ (t.pc = "idle" <=> t.b = NoBroadcast)
    /\ req[a].b \in {q, NoBroadcast} /\ t.b \in {q, NoBroadcast}
    /\ fan' = fan /\ torn' = torn /\ released' = released
    /\ crossed' \in {crossed, crossed \cup {q}}
    /\ status' \in [Broadcasts -> Statuses] /\ \A c \in Broadcasts \ {q} : status'[c] = status[c]
    /\ rows' \in [Broadcasts -> 0 .. Batches] /\ \A c \in Broadcasts \ {q} : rows'[c] = rows[c]
    /\ job' \in [Broadcasts -> Jobs] /\ \A c \in Broadcasts \ {q} : job'[c] = job[c]
    /\ again' \in [Broadcasts -> {"none", "ready", "active"}]
    /\ \A c \in Broadcasts \ {q} : again'[c] = again[c]
    /\ q \in Csv => rows'[q] = rows[q]
    /\ job'[q].state = "active" => job[q].state = "active"

\* Then the order of its broadcast is all that is left to show, where it is alone.
LEMMA HandlesKeeps ==
    ASSUME Audience, NEW a \in Requests, NEW t, NEW q \in Broadcasts, Handles(a, t, q),
           ASSUME q \notin crossed',
                  Orderly(q),
                  \A c \in Requests \ {a} : req[c].b = q \/ req'[c].b = q => req[a].b = NoBroadcast,
                  req'[a] = t
           PROVE  Orderly(q)'
    PROVE  Audience'
<1> USE DEF Handles
<1>1. req' \in [Requests -> Req] /\ req'[a] = t /\ \A c \in Requests \ {a} : req'[c] = req[c]
  BY DEF ToReq, Audience, Shape
<1>2. Shape'
  BY <1>1 DEF Audience, Shape
<1>3. Apart(q)
  BY <1>1, NoBroadcastIsNone DEF Apart
<1>4. q \in Csv \ torn' => Reading(q)'
  BY DEF Audience, AudienceAt, Reading, FanAt
<1>5. Locked(q)'
  BY DEF Audience, AudienceAt, Locked, FansAt
<1>6. ASSUME q \notin crossed' PROVE Orderly(q)'
  <2>1. Orderly(q)
    BY <1>6 DEF Audience, AudienceAt
  <2>2. \A c \in Requests \ {a} : req[c].b = q \/ req'[c].b = q => req[a].b = NoBroadcast
    BY <1>1, <2>1 DEF Orderly, At
  <2> QED
    BY <1>1, <1>6, <2>1, <2>2
<1> QED
  BY <1>2, <1>3, <1>4, <1>5, <1>6, OneAtATime DEF AudienceAt

\* What the order asks of a handler's next record.
Serves(t, q) ==
    /\ t.b = q /\ t.pc = "enqueue" /\ t.op \in Sends =>
          job'[q].state = "none" /\ \A f \in FansAt(q) : fan[f].job = "again"
    /\ t.b = q /\ t.pc = "dequeue" /\ t.op \in Ends =>
          status'[q] \in Over /\ \A f \in Fans : FanAt(f, q, "promote") => fan[f].old # "scheduled"
    /\ status'[q] = "sending" =>
          \/ t.b = q /\ (t.pc \in {"rollback", "enqueue"} \/ (t.pc = "dequeue" /\ t.op \in Sends))
          \/ Waits(q)' \/ FansAt(q) # {} \/ released[q] = rows'[q]

LEMMA ServesKeeps ==
    ASSUME Audience, NEW a \in Requests, NEW t, NEW q \in Broadcasts, req[a].b = q, Handles(a, t, q),
           ASSUME q \notin crossed', Orderly(q) PROVE Serves(t, q)
    PROVE  Audience'
<1>1. ASSUME q \notin crossed', Orderly(q),
             \A c \in Requests \ {a} : req[c].b = q \/ req'[c].b = q => req[a].b = NoBroadcast,
             req'[a] = t
      PROVE  Orderly(q)'
  <2>1. \A c \in Requests : req'[c].b = q => c = a
    BY <1>1, NoBroadcastIsNone
  <2>2. FansAt(q)' = FansAt(q) /\ \A f \in Fans : FanAt(f, q, "promote")' <=> FanAt(f, q, "promote")
    BY DEF Handles, FansAt, FanAt
  <2>3. Serves(t, q)
    BY <1>1
  <2>4. \A c, d \in At(q)' : c = d
    BY <2>1 DEF At
  <2>5. \A c \in Requests : ReqAt(c, q, "enqueue", Sends)' =>
          job'[q].state = "none" /\ \A f \in FansAt(q)' : fan'[f].job = "again"
    BY <1>1, <2>1, <2>2, <2>3 DEF ReqAt, Serves, Handles
  <2>6. \A c \in Requests : ReqAt(c, q, "dequeue", Ends)' =>
          status'[q] \in Over /\ \A f \in Fans : FanAt(f, q, "promote")' => fan'[f].old # "scheduled"
    BY <1>1, <2>1, <2>2, <2>3 DEF ReqAt, Serves, Handles
  <2>7. status'[q] = "sending" =>
          Promised(q)' \/ Waits(q)' \/ FansAt(q)' # {} \/ released'[q] = rows'[q]
    <3>1. t.b = q /\ (t.pc \in {"rollback", "enqueue"} \/ (t.pc = "dequeue" /\ t.op \in Sends)) => Promised(q)'
      BY <1>1 DEF Promised, ReqAt
    <3> QED
      BY <2>2, <2>3, <3>1 DEF Serves, Handles
  <2> QED
    BY <2>4, <2>5, <2>6, <2>7 DEF Orderly
<1> QED
  BY <1>1, HandlesKeeps

\* A handler at work has a broadcast; what it makes of its record.
LEMMA Handling ==
    ASSUME Shape, NEW a \in Requests, req[a].pc # "idle"
    PROVE  /\ req[a].b \in Broadcasts /\ req[a] \in Req
           /\ \A pc \in {"dequeue", "rollback", "enqueue", "bump"} :
                 LET t == [req[a] EXCEPT !.pc = pc]
                 IN  t \in Req /\ t.pc = pc /\ t.b = req[a].b /\ t.op = req[a].op /\ t.draft = req[a].draft
<1>1. req[a] \in Req /\ req[a].b # NoBroadcast
  BY DEF Shape
<1> QED
  BY <1>1 DEF Req

LEMMA NoReqIsFree == NoReq \in Req /\ NoReq.pc = "idle" /\ NoReq.b = NoBroadcast
  BY DEF NoReq, Req

\* Showing a status, or changing the job, of one broadcast.
LEMMA Shows ==
    ASSUME Shape, NEW q \in Broadcasts, NEW s \in Statuses, Show(q, s)
    PROVE  /\ status' \in [Broadcasts -> Statuses] /\ status'[q] = s
           /\ \A c \in Broadcasts \ {q} : status'[c] = status[c]
  BY DEF Shape, Show

LEMMA JobSet ==
    ASSUME Shape, NEW q \in Broadcasts, NEW j \in Jobs, job' = [job EXCEPT ![q] = j]
    PROVE  /\ job' \in [Broadcasts -> Jobs] /\ job'[q] = j
           /\ \A c \in Broadcasts \ {q} : job'[c] = job[c]
  BY DEF Shape

LEMMA JobStates ==
    ASSUME Shape, NEW q \in Broadcasts, NEW s \in {"none", "delayed", "ready", "active", "done"},
           job' = [job EXCEPT ![q].state = s]
    PROVE  /\ job' \in [Broadcasts -> Jobs] /\ job'[q].state = s
           /\ \A c \in Broadcasts \ {q} : job'[c] = job[c]
<1> DEFINE j == [job[q] EXCEPT !.state = s]
<1>1. job[q] \in Jobs
  BY DEF Shape
<1>2. j \in Jobs /\ j.state = s
  BY <1>1 DEF Jobs
<1> HIDE DEF j
<1>3. job' = [job EXCEPT ![q] = j]
  BY DEF j
<1> QED
  BY <1>2, <1>3, JobSet

LEMMA JobRemoved ==
    ASSUME Shape, NEW q \in Broadcasts, job' = Removed(q)
    PROVE  /\ job' \in [Broadcasts -> Jobs] /\ \A c \in Broadcasts \ {q} : job'[c] = job[c]
           /\ job'[q].state = IF job[q].state = "active" THEN "active" ELSE "none"
<1>1. NoJob \in Jobs /\ NoJob.state = "none"
  BY DEF NoJob, Jobs
<1>2. CASE job[q].state = "active"
  BY <1>2 DEF Removed, Shape
<1>3. CASE job[q].state # "active"
  <2>1. job' = [job EXCEPT ![q] = NoJob]
    BY <1>3 DEF Removed
  <2> QED
    BY <1>1, <1>3, <2>1, JobSet
<1> QED
  BY <1>2, <1>3

LEMMA ReceiveKeeps ==
    ASSUME Audience, NEW a \in Requests, NEW q \in Broadcasts,
           NEW op \in Sends \cup {"pause", "resume", "cancel", "delete"}, Receive(a, op, q)
    PROVE  Audience'
<1> DEFINE draft == op \in Sends /\ status[q] = "draft"
           t == [pc |-> "write", op |-> op, b |-> q, draft |-> draft]
<1>1. t \in Req /\ t.pc = "write" /\ t.b = q
  BY DEF Req
<1>2. /\ req[a].pc = "idle" /\ ToReq(a, t) /\ UNCHANGED <<table, queue, fan, torn>>
      /\ crossed' = IF At(q) # {} THEN crossed \cup {q} ELSE crossed
  BY DEF Receive
<1> HIDE DEF t, draft
<1>3. req[a].b = NoBroadcast
  BY <1>2 DEF Audience, Shape
<1>4. Handles(a, t, q)
  BY <1>1, <1>2, <1>3, NoBroadcastIsNone DEF Handles, Audience, Shape, table, queue
<1>5. ASSUME q \notin crossed', Orderly(q), req'[a] = t
      PROVE  Orderly(q)'
  <2>1. \A c \in Requests : req[c].b # q
    BY <1>2, <1>5 DEF At
  <2>2. \A c \in Requests \ {a} : req'[c] = req[c]
    BY <1>2 DEF ToReq, Audience, Shape
  <2>3. \A c \in Requests : req'[c].b = q => c = a
    BY <2>1, <2>2
  <2>4. ~Promised(q)
    BY <2>1 DEF Promised, ReqAt
  <2>5. FansAt(q)' = FansAt(q) /\ (Waits(q)' <=> Waits(q))
    BY <1>2 DEF FansAt, Waits, queue
  <2>6. \A c, d \in At(q)' : c = d
    BY <2>3 DEF At
  <2>7. \A c \in Requests, pc \in {"enqueue", "dequeue"} : \A o : ~ReqAt(c, q, pc, o)'
    BY <1>1, <1>5, <2>3 DEF ReqAt
  <2>8. status'[q] = "sending" => Waits(q)' \/ FansAt(q)' # {} \/ released'[q] = rows'[q]
    BY <1>2, <1>5, <2>4, <2>5 DEF Orderly, table
  <2> QED
    BY <2>6, <2>7, <2>8 DEF Orderly
<1> QED
  BY <1>4, <1>5, HandlesKeeps

LEMMA SendWriteKeeps ==
    ASSUME Audience, NEW a \in Requests, SendWrite(a)
    PROVE  Audience'
<1>0. PICK q \in Broadcasts : req[a].b = q
  BY Handling DEF SendWrite, Audience
<1> USE <1>0
<1>1. /\ req[a].pc = "write" /\ req[a].op \in Sends /\ UNCHANGED <<queue, fan, torn, crossed>>
      /\ Shape
  BY DEF SendWrite, Audience
<1>2. req[a] \in Req
  BY <1>1, Handling
<1>3. CASE status[q] = "deleted"
  <2>1. ToReq(a, NoReq) /\ UNCHANGED table
    BY <1>3 DEF SendWrite
  <2>2. Handles(a, NoReq, q)
    BY <1>1, <1>2, <2>1, NoReqIsFree DEF Handles, Shape, table, queue
  <2>3. Serves(NoReq, q)
    BY <1>2, <1>3, <2>1, NoReqIsFree, NoBroadcastIsNone DEF Serves, table
  <2> QED
    BY <1>2, <2>2, <2>3, ServesKeeps
<1>4. CASE status[q] # "deleted"
  <2>1. PICK pc \in {"dequeue", "rollback"} : ToReq(a, [req[a] EXCEPT !.pc = pc])
    BY <1>4 DEF SendWrite
  <2> DEFINE t == [req[a] EXCEPT !.pc = pc]
  <2>2. t \in Req /\ t.pc = pc /\ t.b = q /\ t.op = req[a].op
    BY <1>2 DEF Req
  <2>3. ToReq(a, t)
    BY <2>1
  <2> HIDE DEF t
  <2>4. /\ UNCHANGED released
        /\ rows' = IF q \in Csv THEN rows ELSE [rows EXCEPT ![q] = Batches]
        /\ \E s \in {"scheduled", "sending"} : Show(q, s)
    BY <1>4 DEF SendWrite
  <2>5. status' \in [Broadcasts -> Statuses] /\ \A c \in Broadcasts \ {q} : status'[c] = status[c]
    BY <1>1, <1>2, <2>4, Shows DEF Statuses
  <2>6. /\ rows' \in [Broadcasts -> 0 .. Batches] /\ \A c \in Broadcasts \ {q} : rows'[c] = rows[c]
        /\ q \in Csv => rows'[q] = rows[q]
    BY <1>1, <1>2, <2>4, LaunchAssumption DEF Shape
  <2>7. Handles(a, t, q)
    BY <1>1, <1>2, <2>2, <2>3, <2>4, <2>5, <2>6, NoBroadcastIsNone DEF Handles, Shape, queue
  <2>8. Serves(t, q)
    BY <1>1, <2>2 DEF Serves, Sends, Ends
  <2> QED
    BY <1>2, <2>7, <2>8, ServesKeeps
<1> QED
  BY <1>3, <1>4

LEMMA SendRollbackKeeps ==
    ASSUME Audience, NEW a \in Requests, SendRollback(a)
    PROVE  Audience'
<1>0. PICK q \in Broadcasts : req[a].b = q
  BY Handling DEF SendRollback, Audience
<1> USE <1>0
<1>1. /\ req[a].pc = "rollback" /\ ToReq(a, NoReq)
      /\ UNCHANGED <<rows, released, queue, fan, torn, crossed>>
      /\ Shape
      /\ \/ status[q] = "deleted" /\ UNCHANGED status
         \/ Show(q, "draft")
  BY DEF SendRollback, Audience, table
<1>2. /\ status' \in [Broadcasts -> Statuses] /\ \A c \in Broadcasts \ {q} : status'[c] = status[c]
      /\ status'[q] # "sending"
  <2>1. CASE status[q] = "deleted" /\ UNCHANGED status
    BY <1>1, <2>1 DEF Shape
  <2>2. CASE Show(q, "draft")
    BY <1>1, <2>2, Shows DEF Statuses
  <2> QED
    BY <1>1, <2>1, <2>2
<1>3. Handles(a, NoReq, q)
  BY <1>1, <1>2, NoReqIsFree DEF Handles, Shape, queue
<1>4. Serves(NoReq, q)
  BY <1>2, NoReqIsFree, NoBroadcastIsNone DEF Serves
<1> QED
  BY <1>3, <1>4, ServesKeeps

LEMMA SendDequeueKeeps ==
    ASSUME Audience, NEW a \in Requests, SendDequeue(a)
    PROVE  Audience'
<1>0. PICK q \in Broadcasts : req[a].b = q
  BY Handling DEF SendDequeue, Audience
<1> USE <1>0
<1> DEFINE t == [req[a] EXCEPT !.pc = "enqueue"]
<1>1. /\ req[a].pc = "dequeue" /\ req[a].op \in Sends /\ ToReq(a, t) /\ job' = Removed(q)
      /\ UNCHANGED <<status, rows, released, again, fan, torn>> /\ Shape
      /\ crossed' = IF FansAt(q) # {} THEN crossed \cup {q} ELSE crossed
  BY DEF SendDequeue, Audience, table
<1>2. t \in Req /\ t.pc = "enqueue" /\ t.b = q /\ t.op = req[a].op
  <2>1. req[a] \in Req
    BY <1>1, Handling
  <2> QED
    BY <2>1 DEF Req
<1> HIDE DEF t
<1>3. /\ job' \in [Broadcasts -> Jobs] /\ \A c \in Broadcasts \ {q} : job'[c] = job[c]
      /\ job'[q].state = IF job[q].state = "active" THEN "active" ELSE "none"
  BY <1>1, <1>2, JobRemoved
<1>4. Handles(a, t, q)
  BY <1>1, <1>2, <1>3, NoBroadcastIsNone DEF Handles, Shape
<1>5. ASSUME q \notin crossed' PROVE Serves(t, q)
  <2>1. FansAt(q) = {}
    BY <1>1, <1>5
  <2>2. job[q].state # "active"
    BY <1>2, <2>1 DEF Audience, AudienceAt, Locked
  <2> QED
    BY <1>2, <1>3, <2>1, <2>2 DEF Serves
<1> QED
  BY <1>2, <1>4, <1>5, ServesKeeps

LEMMA SendEnqueueKeeps ==
    ASSUME Audience, NEW a \in Requests, SendEnqueue(a)
    PROVE  Audience'
<1>0. PICK q \in Broadcasts : req[a].b = q
  BY Handling DEF SendEnqueue, Audience
<1> USE <1>0
<1> DEFINE fresh == Job(IF req[a].op = "schedule" THEN "delayed" ELSE "ready")
<1>1. /\ req[a].pc = "enqueue" /\ req[a].op \in Sends
      /\ job' = IF job[q].state # "none" THEN job ELSE [job EXCEPT ![q] = fresh]
      /\ UNCHANGED <<status, rows, released, again, fan, torn, crossed>> /\ Shape
  BY DEF SendEnqueue, Audience, table, seen
<1>2. PICK t \in {[req[a] EXCEPT !.pc = "bump"], NoReq} : ToReq(a, t)
  BY DEF SendEnqueue
<1>3. t \in Req /\ ((t.pc = "bump" /\ t.b = q) \/ (t.pc = "idle" /\ t.b = NoBroadcast))
  <2>1. CASE t = NoReq
    BY <2>1, NoReqIsFree
  <2>2. CASE t = [req[a] EXCEPT !.pc = "bump"]
    <3>1. req[a] \in Req
      BY <1>1, Handling
    <3> QED
      BY <2>2, <3>1 DEF Req
  <2> QED
    BY <1>2, <2>1, <2>2
<1>4. fresh \in Jobs /\ fresh.state \in {"delayed", "ready"}
  BY LaunchAssumption DEF Job, Jobs
<1> HIDE DEF fresh
<1>5. /\ job' \in [Broadcasts -> Jobs] /\ \A c \in Broadcasts \ {q} : job'[c] = job[c]
      /\ job'[q].state = "active" => job[q].state = "active"
      /\ job[q].state = "none" => job'[q].state \in {"delayed", "ready"}
  <2>1. CASE job[q].state # "none"
    BY <1>1, <2>1 DEF Shape
  <2>2. CASE job[q].state = "none"
    <3>1. job' = [job EXCEPT ![q] = fresh]
      BY <1>1, <2>2
    <3>2. /\ job' \in [Broadcasts -> Jobs] /\ job'[q] = fresh
          /\ \A c \in Broadcasts \ {q} : job'[c] = job[c]
      BY <1>1, <1>4, <3>1, JobSet
    <3> QED
      BY <1>4, <3>2
  <2> QED
    BY <2>1, <2>2
<1>6. Handles(a, t, q)
  BY <1>1, <1>2, <1>3, <1>5, NoBroadcastIsNone DEF Handles, Shape
<1>7. ASSUME Orderly(q) PROVE Serves(t, q)
  <2>1. job[q].state = "none"
    BY <1>1, <1>7 DEF Orderly, ReqAt
  <2>2. Waits(q)'
    BY <1>5, <2>1 DEF Waits
  <2> QED
    BY <1>3, <2>2 DEF Serves
<1> QED
  BY <1>6, <1>7, ServesKeeps

\* Where a handler leaves without a word, nothing was promised by it.
LEMMA Unpromised ==
    ASSUME Shape, NEW a \in Requests, NEW q \in Broadcasts, req[a].b = q, Orderly(q),
           req[a].pc \notin {"rollback", "enqueue", "dequeue"}, status[q] = "sending"
    PROVE  Waits(q) \/ FansAt(q) # {} \/ released[q] = rows[q]
<1>1. \A c \in Requests : req[c].b = q => c = a
  BY DEF Orderly, At
<1>2. ~Promised(q)
  BY <1>1 DEF Promised, ReqAt
<1> QED
  BY <1>2 DEF Orderly

LEMMA SendBumpKeeps ==
    ASSUME Audience, NEW a \in Requests, SendBump(a)
    PROVE  Audience'
<1>0. PICK q \in Broadcasts : req[a].b = q
  BY Handling DEF SendBump, Audience
<1> USE <1>0
<1>1. /\ req[a].pc = "bump" /\ ToReq(a, NoReq)
      /\ UNCHANGED <<status, rows, released, job, again, fan, torn, crossed>> /\ Shape
  BY DEF SendBump, Audience, table, queue, seen
<1>2. Handles(a, NoReq, q)
  BY <1>1, NoReqIsFree DEF Handles, Shape
<1>3. ASSUME Orderly(q) PROVE Serves(NoReq, q)
  <2>1. Waits(q)' <=> Waits(q)
    BY <1>1 DEF Waits
  <2>2. status[q] = "sending" => Waits(q) \/ FansAt(q) # {} \/ released[q] = rows[q]
    BY <1>1, <1>3, Unpromised
  <2> QED
    BY <1>1, <2>1, <2>2, NoReqIsFree, NoBroadcastIsNone DEF Serves
<1> QED
  BY <1>2, <1>3, ServesKeeps

LEMMA OpWriteKeeps ==
    ASSUME Audience, NEW a \in Requests, OpWrite(a)
    PROVE  Audience'
<1>0. PICK q \in Broadcasts : req[a].b = q
  BY Handling DEF OpWrite, Audience
<1> USE <1>0
<1> DEFINE op == req[a].op
<1>1. /\ req[a].pc = "write" /\ op \notin Sends
      /\ UNCHANGED <<rows, released, job, again, fan, torn>> /\ Shape
      /\ crossed' = IF FansAt(q) # {} THEN crossed \cup {q} ELSE crossed
  BY DEF OpWrite, Audience, queue
<1>2. CASE status[q] = "deleted"
  <2>1. ToReq(a, NoReq) /\ UNCHANGED status
    BY <1>2 DEF OpWrite
  <2>2. Handles(a, NoReq, q)
    BY <1>1, <2>1, NoReqIsFree DEF Handles, Shape
  <2>3. Serves(NoReq, q)
    BY <1>2, <2>1, NoReqIsFree, NoBroadcastIsNone DEF Serves
  <2> QED
    BY <2>2, <2>3, ServesKeeps
<1>3. ASSUME op = "pause", ToReq(a, NoReq), Show(q, "paused") PROVE Audience'
  <2>1. /\ status' \in [Broadcasts -> Statuses] /\ status'[q] = "paused"
        /\ \A c \in Broadcasts \ {q} : status'[c] = status[c]
    BY <1>1, <1>3, Shows DEF Statuses
  <2>2. Handles(a, NoReq, q)
    BY <1>1, <1>3, <2>1, NoReqIsFree DEF Handles, Shape
  <2>3. Serves(NoReq, q)
    BY <2>1, NoReqIsFree, NoBroadcastIsNone DEF Serves
  <2> QED
    BY <2>2, <2>3, ServesKeeps
<1>4. ASSUME NEW s \in {"sending", "cancelled", "deleted"}, Show(q, s),
             NEW pc \in {"enqueue", "dequeue"}, ToReq(a, [req[a] EXCEPT !.pc = pc]),
             pc = "enqueue" <=> s = "sending"
      PROVE  Audience'
  <2> DEFINE t == [req[a] EXCEPT !.pc = pc]
  <2>1. t \in Req /\ t.pc = pc /\ t.b = q /\ t.op = op
    <3>1. req[a] \in Req
      BY <1>1, Handling
    <3> QED
      BY <3>1 DEF Req
  <2>2. ToReq(a, t)
    BY <1>4
  <2> HIDE DEF t
  <2>3. /\ status' \in [Broadcasts -> Statuses] /\ status'[q] = s
        /\ \A c \in Broadcasts \ {q} : status'[c] = status[c]
    BY <1>1, <1>4, Shows DEF Statuses
  <2>4. Handles(a, t, q)
    BY <1>1, <2>1, <2>2, <2>3, NoBroadcastIsNone DEF Handles, Shape
  <2>5. ASSUME q \notin crossed' PROVE Serves(t, q)
    <3>1. \A f \in Fans : ~FanAt(f, q, "promote")
      BY <1>1, <2>5 DEF FansAt, FanAt
    <3> QED
      BY <1>1, <1>4, <2>1, <2>3, <3>1 DEF Serves, Over
  <2> QED
    BY <2>4, <2>5, ServesKeeps
<1>5. CASE status[q] # "deleted"
  <2>1. /\ Show(q, CASE op = "pause"  -> "paused"
                     [] op = "resume" -> "sending"
                     [] op = "cancel" -> "cancelled"
                     [] op = "delete" -> "deleted")
        /\ \/ op = "pause" /\ ToReq(a, NoReq)
           \/ op = "resume" /\ ToReq(a, [req[a] EXCEPT !.pc = "enqueue"])
           \/ op \in {"cancel", "delete"} /\ ToReq(a, [req[a] EXCEPT !.pc = "dequeue"])
    BY <1>5 DEF OpWrite
  <2>2. CASE op = "pause" /\ ToReq(a, NoReq)
    BY <1>3, <2>1, <2>2
  <2>3. CASE op = "resume" /\ ToReq(a, [req[a] EXCEPT !.pc = "enqueue"])
    <3>1. Show(q, "sending")
      BY <2>1, <2>3
    <3> QED
      BY <1>4, <2>3, <3>1
  <2>4. CASE op \in {"cancel", "delete"} /\ ToReq(a, [req[a] EXCEPT !.pc = "dequeue"])
    <3>1. Show(q, "cancelled") \/ Show(q, "deleted")
      BY <2>1, <2>4
    <3> QED
      BY <1>4, <2>4, <3>1
  <2> QED
    BY <2>1, <2>2, <2>3, <2>4
<1> QED
  BY <1>2, <1>5

LEMMA ResumeEnqueueKeeps ==
    ASSUME Audience, NEW a \in Requests, ResumeEnqueue(a)
    PROVE  Audience'
<1>0. PICK q \in Broadcasts : req[a].b = q
  BY Handling DEF ResumeEnqueue, Audience
<1> USE <1>0
<1>1. /\ req[a].pc = "enqueue" /\ ToReq(a, NoReq) /\ again' = [again EXCEPT ![q] = "ready"]
      /\ UNCHANGED <<status, rows, released, job, fan, torn, crossed>> /\ Shape
  BY DEF ResumeEnqueue, Audience, table, seen
<1>2. /\ again' \in [Broadcasts -> {"none", "ready", "active"}] /\ again'[q] = "ready"
      /\ \A c \in Broadcasts \ {q} : again'[c] = again[c]
  BY <1>1 DEF Shape
<1>3. Handles(a, NoReq, q)
  BY <1>1, <1>2, NoReqIsFree DEF Handles, Shape
<1>4. Serves(NoReq, q)
  BY <1>2, NoReqIsFree, NoBroadcastIsNone DEF Serves, Waits
<1> QED
  BY <1>3, <1>4, ServesKeeps

LEMMA OpDequeueKeeps ==
    ASSUME Audience, NEW a \in Requests, OpDequeue(a)
    PROVE  Audience'
<1>0. PICK q \in Broadcasts : req[a].b = q
  BY Handling DEF OpDequeue, Audience
<1> USE <1>0
<1>1. /\ req[a].pc = "dequeue" /\ req[a].op \in Ends /\ ToReq(a, NoReq) /\ job' = Removed(q)
      /\ UNCHANGED <<status, rows, released, again, fan, torn, crossed>> /\ Shape
  BY DEF OpDequeue, Audience, table, seen, Ends
<1>2. /\ job' \in [Broadcasts -> Jobs] /\ \A c \in Broadcasts \ {q} : job'[c] = job[c]
      /\ job'[q].state = IF job[q].state = "active" THEN "active" ELSE "none"
  BY <1>1, JobRemoved
<1>3. Handles(a, NoReq, q)
  BY <1>1, <1>2, NoReqIsFree DEF Handles, Shape
<1>4. ASSUME Orderly(q) PROVE Serves(NoReq, q)
  <2>1. status[q] \in Over
    BY <1>1, <1>4 DEF Orderly, ReqAt
  <2> QED
    BY <1>1, <2>1, NoReqIsFree, NoBroadcastIsNone DEF Serves, Over
<1> QED
  BY <1>3, <1>4, ServesKeeps

LEMMA RequestFaultKeeps ==
    ASSUME Audience, NEW a \in Requests, RequestFault(a)
    PROVE  Audience'
<1>0. PICK q \in Broadcasts : req[a].b = q
  BY Handling DEF RequestFault, Audience
<1> USE <1>0
<1>1. /\ req[a].pc # "idle" /\ ToReq(a, NoReq) /\ crossed' = crossed \cup {q}
      /\ UNCHANGED <<status, rows, released, job, again, fan, torn>> /\ Shape
  BY DEF RequestFault, Audience, table, queue
<1>2. Handles(a, NoReq, q)
  BY <1>1, NoReqIsFree DEF Handles, Shape
<1> QED
  BY <1>1, <1>2, ServesKeeps

-----------------------------------------------------------------------------
(* The fanout slots.                                                         *)

\* What every step of a slot leaves of the rest, and moves of its own record.
Works(f, t, q) ==
    /\ ToFan(f, t) /\ t \in FanRec /\ (t.pc = "idle" <=> t.b = NoBroadcast)
    /\ t.pc \in {"promote", "count"} => t.n = 0
    /\ t.pc = "stream" => t.n < Batches
    /\ fan[f].b \in {q, NoBroadcast} /\ t.b \in {q, NoBroadcast}
    /\ req' = req /\ crossed' = crossed /\ torn' \in {torn, torn \cup {q}}
    /\ status' \in [Broadcasts -> Statuses] /\ \A c \in Broadcasts \ {q} : status'[c] = status[c]
    /\ rows' \in [Broadcasts -> 0 .. Batches] /\ \A c \in Broadcasts \ {q} : rows'[c] = rows[c]
    /\ released' \in [Broadcasts -> 0 .. Batches]
    /\ \A c \in Broadcasts \ {q} : released'[c] = released[c]
    /\ job' \in [Broadcasts -> Jobs] /\ \A c \in Broadcasts \ {q} : job'[c] = job[c]
    /\ again' \in [Broadcasts -> {"none", "ready", "active"}]
    /\ \A c \in Broadcasts \ {q} : again'[c] = again[c]

\* A slot that neither reads the CSV nor begins to page leaves the reading alone.
Aside(f, t, q) ==
    /\ fan[f].pc # "stream" /\ t.pc \notin {"stream", "page"} /\ rows'[q] = rows[q]

\* The job that is active stays the slot's own, or another slot's.
Holding(f, t, q) ==
    job'[q].state = "active" =>
        \/ t.b = q /\ t.job = "main" /\ t.pc # "failed"
        \/ job[q].state = "active" /\ (fan[f].b # q \/ fan[f].job # "main" \/ fan[f].pc = "failed")

\* What the order asks of a slot's next record.
Follows(t, q) ==
    /\ \A a \in Requests : ReqAt(a, q, "enqueue", Sends) =>
          job'[q].state = "none" /\ (t.b = q => t.job = "again")
    /\ \A a \in Requests : ReqAt(a, q, "dequeue", Ends) =>
          status'[q] \in Over /\ (t.b = q /\ t.pc = "promote" => t.old # "scheduled")
    /\ status'[q] = "sending" => t.b = q \/ Waits(q)' \/ released'[q] = rows'[q]

LEMMA FollowsKeeps ==
    ASSUME Audience, NEW f \in Fans, NEW t, NEW q \in Broadcasts, Works(f, t, q),
           Holding(f, t, q),
           ASSUME q \in Csv \ torn', Reading(q), fan'[f] = t, \A g \in Fans \ {f} : fan'[g] = fan[g]
           PROVE  Reading(q)',
           ASSUME q \notin crossed, Orderly(q) PROVE Follows(t, q)
    PROVE  Audience'
<1> USE DEF Works
<1>1. fan' \in [Fans -> FanRec] /\ fan'[f] = t /\ \A g \in Fans \ {f} : fan'[g] = fan[g]
  BY DEF ToFan, Audience, Shape
<1>2. Shape'
  BY <1>1 DEF Audience, Shape
<1>3. Apart(q)
  BY <1>1, NoBroadcastIsNone DEF Apart
<1>4. q \in Csv \ torn' => Reading(q)'
  BY <1>1 DEF Audience, AudienceAt
<1>5. Locked(q)'
  <2> SUFFICES ASSUME job'[q].state = "active"
               PROVE  \E g \in Fans : fan'[g].b = q /\ fan'[g].job = "main" /\ fan'[g].pc # "failed"
    BY DEF Locked, FansAt
  <2>1. CASE t.b = q /\ t.job = "main" /\ t.pc # "failed"
    BY <1>1, <2>1
  <2>2. CASE job[q].state = "active" /\ (fan[f].b # q \/ fan[f].job # "main" \/ fan[f].pc = "failed")
    <3>1. PICK g \in Fans : fan[g].b = q /\ fan[g].job = "main" /\ fan[g].pc # "failed"
      BY <2>2 DEF Audience, AudienceAt, Locked, FansAt
    <3> QED
      BY <1>1, <2>2, <3>1
  <2> QED
    BY <2>1, <2>2 DEF Holding
<1>6. ASSUME q \notin crossed' PROVE Orderly(q)'
  <2>1. Orderly(q)
    BY <1>6 DEF Audience, AudienceAt
  <2>2. Follows(t, q)
    BY <1>6, <2>1
  <2>3. /\ \A c, d \in At(q)' : c = d
        /\ \A a \in Requests : \A pc, o : ReqAt(a, q, pc, o)' <=> ReqAt(a, q, pc, o)
        /\ Promised(q)' <=> Promised(q)
    BY <2>1 DEF Orderly, At, ReqAt, Promised
  <2>4. ASSUME NEW a \in Requests, ReqAt(a, q, "enqueue", Sends)
        PROVE  job'[q].state = "none" /\ \A g \in FansAt(q)' : fan'[g].job = "again"
    BY <1>1, <2>1, <2>2, <2>4 DEF Orderly, Follows, FansAt
  <2>5. ASSUME NEW a \in Requests, ReqAt(a, q, "dequeue", Ends)
        PROVE  status'[q] \in Over /\ \A g \in Fans : FanAt(g, q, "promote")' => fan'[g].old # "scheduled"
    BY <1>1, <2>1, <2>2, <2>5 DEF Orderly, Follows, FanAt
  <2>6. status'[q] = "sending" =>
            Promised(q)' \/ Waits(q)' \/ FansAt(q)' # {} \/ released'[q] = rows'[q]
    BY <1>1, <2>2 DEF Follows, FansAt
  <2> QED
    BY <2>3, <2>4, <2>5, <2>6 DEF Orderly
<1> QED
  BY <1>2, <1>3, <1>4, <1>5, <1>6, OneAtATime DEF AudienceAt

LEMMA AsideReads ==
    ASSUME NEW f \in Fans, NEW t, NEW q, Aside(f, t, q), Reading(q), fan'[f] = t,
           \A g \in Fans \ {f} : fan'[g] = fan[g]
    PROVE  Reading(q)'
<1>1. \A g \in Fans : FanAt(g, q, "stream")' <=> FanAt(g, q, "stream")
  BY DEF Aside, FanAt
<1>2. \A g \in Fans : FanAt(g, q, "stream") => fan'[g] = fan[g]
  BY DEF Aside, FanAt
<1>3. \A g \in Fans : FanAt(g, q, "page")' => FanAt(g, q, "page")
  BY DEF Aside, FanAt
<1> QED
  BY <1>1, <1>2, <1>3 DEF Aside, Reading

\* A slot at work has a broadcast; what it makes of its record.
LEMMA Working ==
    ASSUME Shape, NEW f \in Fans, fan[f].pc # "idle"
    PROVE  /\ fan[f].b \in Broadcasts /\ fan[f] \in FanRec
           /\ \A pc \in {"count", "stream", "page", "failed"} :
                 LET t == [fan[f] EXCEPT !.pc = pc]
                 IN  /\ t \in FanRec /\ t.pc = pc /\ t.b = fan[f].b /\ t.job = fan[f].job
                     /\ t.old = fan[f].old /\ t.n = fan[f].n
<1>1. fan[f] \in FanRec /\ fan[f].b # NoBroadcast
  BY DEF Shape
<1> QED
  BY <1>1 DEF FanRec

LEMMA NoFanIsFree == NoFan \in FanRec /\ NoFan.pc = "idle" /\ NoFan.b = NoBroadcast
  BY DEF NoFan, FanRec

LEMMA Ending ==
    ASSUME Shape, NEW q \in Broadcasts, NEW which \in {"main", "again"}, JobEnds(q, which)
    PROVE  /\ job' \in [Broadcasts -> Jobs] /\ \A c \in Broadcasts \ {q} : job'[c] = job[c]
           /\ again' \in [Broadcasts -> {"none", "ready", "active"}]
           /\ \A c \in Broadcasts \ {q} : again'[c] = again[c]
           /\ which = "main" => job'[q].state = "done"
           /\ which = "again" => job' = job
<1>1. CASE which = "main"
  <2>1. job' = [job EXCEPT ![q].state = "done"] /\ again' = again
    BY <1>1 DEF JobEnds
  <2> QED
    BY <1>1, <2>1, JobStates DEF Shape
<1>2. CASE which = "again"
  BY <1>2 DEF JobEnds, Shape
<1> QED
  BY <1>1, <1>2

LEMMA FanTakeKeeps ==
    ASSUME Audience, NEW f \in Fans, NEW q \in Broadcasts, FanTake(f, q)
    PROVE  Audience'
<1>1. /\ fan[f].pc = "idle" /\ Shape
      /\ UNCHANGED <<status, rows, released, req, torn, crossed>>
  BY DEF FanTake, Audience, table, seen
<1>2. fan[f].b = NoBroadcast
  BY <1>1 DEF Shape
<1>3. PICK which \in {"main", "again"} :
          /\ (IF which = "main" THEN job[q].state ELSE again[q]) = "ready"
          /\ IF status[q] \in {"paused", "cancelled", "deleted"}
             THEN JobEnds(q, which) /\ UNCHANGED fan
             ELSE /\ IF which = "main" THEN job' = [job EXCEPT ![q].state = "active"] /\ UNCHANGED again
                     ELSE again' = [again EXCEPT ![q] = "active"] /\ UNCHANGED job
                  /\ ToFan(f, [pc |-> "promote", b |-> q, job |-> which, old |-> status[q], n |-> 0])
  BY DEF FanTake
<1>4. \A a \in Requests : Orderly(q) /\ ReqAt(a, q, "enqueue", Sends) => which = "again"
  BY <1>3 DEF Orderly
<1>5. CASE status[q] \in {"paused", "cancelled", "deleted"}
  <2> DEFINE t == fan[f]
  <2>1. fan' = fan /\ t \in FanRec /\ t.pc = "idle" /\ t.b = NoBroadcast
    BY <1>1, <1>2, <1>3, <1>5 DEF Shape
  <2>2. ToFan(f, t)
    BY <1>1, <2>1 DEF ToFan, Shape
  <2> HIDE DEF t
  <2>3. JobEnds(q, which)
    BY <1>3, <1>5
  <2>4. /\ job' \in [Broadcasts -> Jobs] /\ \A c \in Broadcasts \ {q} : job'[c] = job[c]
        /\ again' \in [Broadcasts -> {"none", "ready", "active"}]
        /\ \A c \in Broadcasts \ {q} : again'[c] = again[c]
        /\ which = "main" => job'[q].state = "done"
        /\ which = "again" => job' = job
    BY <1>1, <2>3, Ending
  <2>5. Works(f, t, q)
    BY <1>1, <1>2, <2>1, <2>2, <2>4, NoBroadcastIsNone DEF Works, Shape
  <2>6. Aside(f, t, q)
    BY <1>1, <2>1 DEF Aside
  <2>7. Holding(f, t, q)
    BY <1>2, <2>4, NoBroadcastIsNone DEF Holding
  <2>8. ASSUME Orderly(q) PROVE Follows(t, q)
    BY <1>1, <1>4, <1>5, <2>1, <2>4, <2>8, NoBroadcastIsNone DEF Follows, Orderly
  <2> QED
    BY <2>5, <2>6, <2>7, <2>8, AsideReads, FollowsKeeps
<1>6. CASE status[q] \notin {"paused", "cancelled", "deleted"}
  <2> DEFINE t == [pc |-> "promote", b |-> q, job |-> which, old |-> status[q], n |-> 0]
  <2>1. /\ t \in FanRec /\ t.pc = "promote" /\ t.b = q /\ t.job = which /\ t.old = status[q] /\ t.n = 0
    BY <1>1 DEF FanRec, Shape
  <2>2. ToFan(f, t)
    BY <1>3, <1>6
  <2> HIDE DEF t
  <2>3. /\ job' \in [Broadcasts -> Jobs] /\ \A c \in Broadcasts \ {q} : job'[c] = job[c]
        /\ again' \in [Broadcasts -> {"none", "ready", "active"}]
        /\ \A c \in Broadcasts \ {q} : again'[c] = again[c]
        /\ which = "again" => job' = job
    <3>1. CASE which = "main"
      <4>1. job' = [job EXCEPT ![q].state = "active"] /\ again' = again
        BY <1>3, <1>6, <3>1
      <4> QED
        BY <1>1, <3>1, <4>1, JobStates DEF Shape
    <3>2. CASE which = "again"
      BY <1>1, <1>3, <1>6, <3>2 DEF Shape
    <3> QED
      BY <3>1, <3>2
  <2>4. Works(f, t, q)
    BY <1>1, <1>2, <2>1, <2>2, <2>3, NoBroadcastIsNone DEF Works, Shape
  <2>5. Aside(f, t, q)
    BY <1>1, <2>1 DEF Aside
  <2>6. Holding(f, t, q)
    BY <1>2, <2>1, <2>3, NoBroadcastIsNone DEF Holding
  <2>7. ASSUME Orderly(q) PROVE Follows(t, q)
    <3>1. ASSUME NEW a \in Requests, ReqAt(a, q, "enqueue", Sends)
          PROVE  job'[q].state = "none" /\ t.job = "again"
      BY <1>4, <2>1, <2>3, <2>7, <3>1 DEF Orderly
    <3>2. ASSUME NEW a \in Requests, ReqAt(a, q, "dequeue", Ends)
          PROVE  status'[q] \in Over /\ t.old # "scheduled"
      BY <1>1, <2>1, <2>7, <3>2 DEF Orderly, Over
    <3> QED
      BY <2>1, <3>1, <3>2 DEF Follows
  <2> QED
    BY <2>4, <2>5, <2>6, <2>7, AsideReads, FollowsKeeps
<1> QED
  BY <1>5, <1>6

LEMMA FanPromoteKeeps ==
    ASSUME Audience, NEW f \in Fans, FanPromote(f)
    PROVE  Audience'
<1>0. PICK q \in Broadcasts : fan[f].b = q
  BY Working DEF FanPromote, Audience
<1> USE <1>0
<1>1. /\ fan[f].pc = "promote" /\ Shape
      /\ UNCHANGED <<rows, released, job, again, req, torn, crossed>>
  BY DEF FanPromote, Audience, queue, seen
<1>2. PICK pc \in {"count", "page"} :
          ToFan(f, [fan[f] EXCEPT !.pc = pc]) /\ (q \in Csv => pc = "count")
  BY DEF FanPromote
<1> DEFINE t == [fan[f] EXCEPT !.pc = pc]
<1>3. /\ t \in FanRec /\ t.pc = pc /\ t.b = q /\ t.job = fan[f].job
      /\ t.old = fan[f].old /\ t.n = 0
  <2>1. fan[f].n = 0 /\ fan[f] \in FanRec
    BY <1>1 DEF Shape
  <2> QED
    BY <2>1 DEF FanRec
<1>4. ToFan(f, t)
  BY <1>2
<1> HIDE DEF t
<1>5. /\ status' \in [Broadcasts -> Statuses] /\ \A c \in Broadcasts \ {q} : status'[c] = status[c]
      /\ fan[f].old # "scheduled" => status' = status
  <2>1. CASE fan[f].old = "scheduled"
    <3>1. Show(q, "deleted") \/ Show(q, "sending")
      BY <2>1 DEF FanPromote
    <3> QED
      BY <1>1, <2>1, <3>1, Shows DEF Statuses
  <2>2. CASE fan[f].old # "scheduled"
    BY <1>1, <2>2 DEF FanPromote, Shape
  <2> QED
    BY <2>1, <2>2
<1>6. Works(f, t, q)
  BY <1>1, <1>3, <1>4, <1>5, NoBroadcastIsNone DEF Works, Shape
<1>7. q \in Csv => Aside(f, t, q)
  BY <1>1, <1>2, <1>3 DEF Aside
<1>8. Holding(f, t, q)
  BY <1>1, <1>2, <1>3 DEF Holding, FanRec
<1>9. ASSUME Orderly(q) PROVE Follows(t, q)
  BY <1>1, <1>2, <1>3, <1>5, <1>9 DEF Follows, Orderly, FanAt, FansAt
<1> QED
  BY <1>6, <1>7, <1>8, <1>9, AsideReads, FollowsKeeps

LEMMA FanCountKeeps ==
    ASSUME Audience, NEW f \in Fans, FanCount(f)
    PROVE  Audience'
<1>0. PICK q \in Broadcasts : fan[f].b = q
  BY Working DEF FanCount, Audience
<1> USE <1>0
<1>1. /\ fan[f].pc = "count" /\ Shape
      /\ UNCHANGED <<status, rows, released, job, again, req, crossed>>
      /\ torn' = IF \E g \in FansAt(q) : fan[g].pc = "stream" THEN torn \cup {q} ELSE torn
  BY DEF FanCount, Audience, table, queue
<1>2. PICK pc \in {"stream", "page"} :
          ToFan(f, [fan[f] EXCEPT !.pc = pc]) /\ (pc = "stream" <=> rows[q] = 0)
  BY DEF FanCount
<1> DEFINE t == [fan[f] EXCEPT !.pc = pc]
<1>3. /\ t \in FanRec /\ t.pc = pc /\ t.b = q /\ t.job = fan[f].job
      /\ t.n = 0
  <2>1. fan[f].n = 0 /\ fan[f] \in FanRec
    BY <1>1 DEF Shape
  <2> QED
    BY <1>2, <2>1 DEF FanRec
<1>4. ToFan(f, t)
  BY <1>2
<1> HIDE DEF t
<1>5. Works(f, t, q)
  BY LaunchAssumption, <1>1, <1>3, <1>4, NoBroadcastIsNone DEF Works, Shape
<1>6. Holding(f, t, q)
  BY <1>1, <1>2, <1>3 DEF Holding, FanRec
<1>7. ASSUME Orderly(q) PROVE Follows(t, q)
  BY <1>1, <1>2, <1>3, <1>7 DEF Follows, Orderly, FansAt
<1>8. ASSUME q \in Csv \ torn', Reading(q), fan'[f] = t, \A g \in Fans \ {f} : fan'[g] = fan[g]
      PROVE  Reading(q)'
  <2>1. \A g \in Fans : ~FanAt(g, q, "stream")
    BY <1>1, <1>8 DEF FansAt, FanAt
  <2>2. rows[q] \in {0, Batches} /\ Batches # 0 /\ 0 < Batches
    BY <1>8, <2>1, LaunchAssumption DEF Reading
  <2>3. \A g \in Fans : FanAt(g, q, "stream")' => g = f /\ pc = "stream"
    BY <1>3, <1>8, <2>1 DEF FanAt
  <2>4. \A g \in Fans : FanAt(g, q, "page")' => FanAt(g, q, "page") \/ (g = f /\ pc = "page")
    BY <1>3, <1>8 DEF FanAt
  <2>5. FanAt(f, q, "stream")' <=> pc = "stream"
    BY <1>3, <1>8 DEF FanAt
  <2> QED
    BY <1>1, <1>2, <1>3, <1>8, <2>2, <2>3, <2>4, <2>5 DEF Reading
<1> QED
  BY <1>5, <1>6, <1>7, <1>8, FollowsKeeps

LEMMA FanStreamKeeps ==
    ASSUME Audience, NEW f \in Fans, FanStream(f)
    PROVE  Audience'
<1>0. PICK q \in Broadcasts : fan[f].b = q
  BY Working DEF FanStream, Audience
<1> USE <1>0
<1>1. /\ fan[f].pc = "stream" /\ Shape
      /\ UNCHANGED <<status, released, job, again, req, torn, crossed>>
  BY DEF FanStream, Audience, queue, seen
<1>2. PICK n \in Nat : n = fan[f].n + 1 /\ n <= Batches
  <2>1. fan[f].n \in Nat /\ fan[f].n < Batches
    BY <1>1, Working DEF Shape, FanRec
  <2> QED
    BY <2>1, LaunchAssumption
<1>3. PICK pc \in {"stream", "page"} :
          ToFan(f, [fan[f] EXCEPT !.n = n, !.pc = pc]) /\ (pc = "page" <=> n = Batches)
  BY <1>2 DEF FanStream
<1>4. rows' = IF rows[q] < n THEN [rows EXCEPT ![q] = n] ELSE rows
  BY <1>2 DEF FanStream
<1> DEFINE t == [fan[f] EXCEPT !.n = n, !.pc = pc]
<1>5. t \in FanRec /\ t.pc = pc /\ t.b = q /\ t.job = fan[f].job /\ t.n = n
  <2>1. fan[f] \in FanRec
    BY <1>1, Working
  <2> QED
    BY <2>1 DEF FanRec
<1>6. ToFan(f, t)
  BY <1>3
<1> HIDE DEF t
<1>7. rows' \in [Broadcasts -> 0 .. Batches] /\ \A c \in Broadcasts \ {q} : rows'[c] = rows[c]
  BY <1>1, <1>2, <1>4, LaunchAssumption DEF Shape
<1>8. Works(f, t, q)
  BY <1>1, <1>2, <1>3, <1>5, <1>6, <1>7, NoBroadcastIsNone, LaunchAssumption DEF Works, Shape
<1>9. Holding(f, t, q)
  BY <1>1, <1>3, <1>5 DEF Holding, FanRec
<1>10. ASSUME Orderly(q) PROVE Follows(t, q)
  BY <1>1, <1>3, <1>5, <1>10 DEF Follows, Orderly, FansAt
<1>11. ASSUME q \in Csv \ torn', Reading(q), fan'[f] = t, \A g \in Fans \ {f} : fan'[g] = fan[g]
      PROVE  Reading(q)'
  <2>1. FanAt(f, q, "stream") /\ \A g \in Fans : FanAt(g, q, "stream") => g = f
    BY <1>1, <1>11 DEF FanAt, Reading
  <2>2. fan[f].n = rows[q] /\ rows[q] < Batches /\ rows[q] \in Nat
    BY <1>1, <1>11, <2>1, LaunchAssumption DEF Reading, Shape
  <2>3. rows'[q] = n
    BY <1>1, <1>2, <1>4, <2>2 DEF Shape
  <2>4. \A g \in Fans : ~FanAt(g, q, "page")
    BY <1>11, <2>2, LaunchAssumption DEF Reading
  <2>5. \A g \in Fans : FanAt(g, q, "stream")' => g = f /\ pc = "stream"
    BY <1>5, <1>11, <2>1 DEF FanAt
  <2>6. \A g \in Fans : FanAt(g, q, "page")' => g = f /\ pc = "page"
    BY <1>5, <1>11, <2>4 DEF FanAt
  <2>7. FanAt(f, q, "stream")' <=> pc = "stream"
    BY <1>5, <1>11 DEF FanAt
  <2>8. n # Batches => n < Batches
    BY <1>2, <2>2, LaunchAssumption
  <2> QED
    BY <1>3, <1>5, <1>11, <2>3, <2>5, <2>6, <2>7, <2>8 DEF Reading
<1> QED
  BY <1>8, <1>9, <1>10, <1>11, FollowsKeeps

LEMMA FanPageKeeps ==
    ASSUME Audience, NEW f \in Fans, FanPage(f)
    PROVE  Audience'
<1>0. PICK q \in Broadcasts : fan[f].b = q
  BY Working DEF FanPage, Audience
<1> USE <1>0
<1>1. /\ fan[f].pc = "page" /\ Shape /\ ToFan(f, NoFan) /\ JobEnds(q, fan[f].job)
      /\ released' = [released EXCEPT ![q] = rows[q]]
      /\ UNCHANGED <<status, rows, req, torn, crossed>>
  BY DEF FanPage, Audience, seen
<1>2. fan[f].job \in {"main", "again"}
  BY <1>1, Working DEF FanRec
<1>3. /\ job' \in [Broadcasts -> Jobs] /\ \A c \in Broadcasts \ {q} : job'[c] = job[c]
      /\ again' \in [Broadcasts -> {"none", "ready", "active"}]
      /\ \A c \in Broadcasts \ {q} : again'[c] = again[c]
      /\ fan[f].job = "main" => job'[q].state = "done"
      /\ fan[f].job = "again" => job' = job
  BY <1>1, <1>2, Ending
<1>4. /\ released' \in [Broadcasts -> 0 .. Batches] /\ released'[q] = rows[q]
      /\ \A c \in Broadcasts \ {q} : released'[c] = released[c]
  BY <1>1 DEF Shape
<1>5. Works(f, NoFan, q)
  BY <1>1, <1>3, <1>4, NoFanIsFree DEF Works, Shape
<1>6. Aside(f, NoFan, q)
  BY <1>1, NoFanIsFree DEF Aside
<1>7. Holding(f, NoFan, q)
  BY <1>2, <1>3 DEF Holding
<1>8. ASSUME Orderly(q) PROVE Follows(NoFan, q)
  <2>1. \A a \in Requests : ReqAt(a, q, "enqueue", Sends) => job'[q].state = "none"
    BY <1>3, <1>8 DEF Orderly, FansAt
  <2> QED
    BY <1>1, <1>4, <1>8, <2>1, NoFanIsFree, NoBroadcastIsNone DEF Follows, Orderly
<1> QED
  BY <1>5, <1>6, <1>7, <1>8, AsideReads, FollowsKeeps

LEMMA FanFailKeeps ==
    ASSUME Audience, NEW f \in Fans, FanFail(f)
    PROVE  Audience'
<1>0. PICK q \in Broadcasts : fan[f].b = q
  BY Working DEF FanFail, Audience
<1> USE <1>0
<1>1. /\ fan[f].pc = "failed" /\ Shape /\ ToFan(f, NoFan)
      /\ (status[q] = "deleted" /\ UNCHANGED status) \/ Show(q, "failed")
      /\ UNCHANGED <<rows, released, job, again, req, torn, crossed>>
  BY DEF FanFail, Audience, queue, seen
<1>2. /\ status' \in [Broadcasts -> Statuses] /\ status'[q] \in {"deleted", "failed"}
      /\ \A c \in Broadcasts \ {q} : status'[c] = status[c]
  <2>1. CASE status[q] = "deleted" /\ UNCHANGED status
    BY <1>1, <2>1 DEF Shape
  <2>2. CASE Show(q, "failed")
    BY <1>1, <2>2, Shows DEF Statuses
  <2> QED
    BY <1>1, <2>1, <2>2
<1>3. Works(f, NoFan, q)
  BY <1>1, <1>2, NoFanIsFree DEF Works, Shape
<1>4. Aside(f, NoFan, q)
  BY <1>1, NoFanIsFree DEF Aside
<1>5. Holding(f, NoFan, q)
  BY <1>1 DEF Holding
<1>6. ASSUME Orderly(q) PROVE Follows(NoFan, q)
  BY <1>1, <1>2, <1>6, NoFanIsFree, NoBroadcastIsNone DEF Follows, Orderly, Over
<1> QED
  BY <1>3, <1>4, <1>5, <1>6, AsideReads, FollowsKeeps

LEMMA FanFaultKeeps ==
    ASSUME Audience, NEW f \in Fans, FanFault(f)
    PROVE  Audience'
<1>0. PICK q \in Broadcasts : fan[f].b = q
  BY Working DEF FanFault, Audience
<1> USE <1>0
<1>1. /\ fan[f].pc \notin {"idle", "failed"} /\ Shape
      /\ torn' = IF fan[f].pc = "stream" /\ rows[q] > 0 THEN torn \cup {q} ELSE torn
      /\ UNCHANGED <<status, rows, released, req, crossed>>
  BY DEF FanFault, Audience, table
<1>2. fan[f].job \in {"main", "again"} /\ fan[f] \in FanRec
  BY <1>1, Working DEF FanRec
<1>3. PICK left \in Int : left = IF fan[f].job = "main" THEN job[q].left - 1 ELSE 0
  BY DEF Audience, Shape, Jobs
<1>4. IF left > 0 THEN /\ job' = [job EXCEPT ![q] = [state |-> "ready", left |-> left]]
                       /\ ToFan(f, NoFan) /\ UNCHANGED again
      ELSE JobEnds(q, fan[f].job) /\ ToFan(f, [fan[f] EXCEPT !.pc = "failed"])
  BY <1>3 DEF FanFault
\* Where it read the CSV it had written nothing of it, or the CSV is cut short.
<1>5. ASSUME NEW t, t.pc \in {"idle", "failed"},
             q \in Csv \ torn', Reading(q), fan'[f] = t, \A g \in Fans \ {f} : fan'[g] = fan[g]
      PROVE  Reading(q)'
  <2>1. CASE fan[f].pc # "stream"
    <3>1. Aside(f, t, q)
      BY <1>1, <1>5, <2>1 DEF Aside
    <3> QED
      BY <1>5, <3>1, AsideReads
  <2>2. CASE fan[f].pc = "stream"
    <3>1. rows[q] = 0
      BY <1>1, <1>5, <2>2, LaunchAssumption DEF Shape
    <3>2. FanAt(f, q, "stream")
      BY <2>2 DEF FanAt
    <3>3. \A g \in Fans : ~FanAt(g, q, "stream")'
      BY <1>5, <3>2 DEF FanAt, Reading
    <3>4. \A g \in Fans : ~FanAt(g, q, "page")'
      BY <1>5, <3>1, <3>2, LaunchAssumption DEF FanAt, Reading
    <3> QED
      BY <1>1, <3>1, <3>3, <3>4 DEF Reading
  <2> QED
    BY <2>1, <2>2
<1>6. CASE left > 0
  <2> DEFINE j == [state |-> "ready", left |-> left]
  <2>1. j \in Jobs /\ j.state = "ready"
    BY DEF Jobs
  <2>2. job' = [job EXCEPT ![q] = j] /\ ToFan(f, NoFan) /\ again' = again
    BY <1>4, <1>6
  <2> HIDE DEF j
  <2>3. /\ job' \in [Broadcasts -> Jobs] /\ job'[q] = j
        /\ \A c \in Broadcasts \ {q} : job'[c] = job[c]
    BY <1>1, <2>1, <2>2, JobSet
  <2>4. fan[f].job = "main"
    BY <1>3, <1>6
  <2>5. Works(f, NoFan, q)
    BY <1>1, <2>2, <2>3, NoFanIsFree DEF Works, Shape
  <2>6. Holding(f, NoFan, q)
    BY <2>1, <2>3 DEF Holding
  <2>7. ASSUME Orderly(q) PROVE Follows(NoFan, q)
    <3>1. \A a \in Requests : ~ReqAt(a, q, "enqueue", Sends)
      BY <2>4, <2>7 DEF Orderly, FansAt
    <3>2. Waits(q)'
      BY <2>1, <2>3 DEF Waits
    <3> QED
      BY <1>1, <2>7, <3>1, <3>2, NoFanIsFree, NoBroadcastIsNone DEF Follows, Orderly
  <2>8. ASSUME q \in Csv \ torn', Reading(q), fan'[f] = NoFan, \A g \in Fans \ {f} : fan'[g] = fan[g]
        PROVE  Reading(q)'
    BY <1>5, <2>8, NoFanIsFree
  <2> QED
    BY <2>5, <2>6, <2>7, <2>8, FollowsKeeps
<1>7. CASE ~(left > 0)
  <2> DEFINE t == [fan[f] EXCEPT !.pc = "failed"]
  <2>1. t \in FanRec /\ t.pc = "failed" /\ t.b = q /\ t.job = fan[f].job
    BY <1>2 DEF FanRec
  <2>2. JobEnds(q, fan[f].job) /\ ToFan(f, t)
    BY <1>4, <1>7
  <2> HIDE DEF t
  <2>3. /\ job' \in [Broadcasts -> Jobs] /\ \A c \in Broadcasts \ {q} : job'[c] = job[c]
        /\ again' \in [Broadcasts -> {"none", "ready", "active"}]
        /\ \A c \in Broadcasts \ {q} : again'[c] = again[c]
        /\ fan[f].job = "main" => job'[q].state = "done"
        /\ fan[f].job = "again" => job' = job
    BY <1>1, <1>2, <2>2, Ending
  <2>4. Works(f, t, q)
    BY <1>1, <2>1, <2>2, <2>3, NoBroadcastIsNone DEF Works, Shape
  <2>5. Holding(f, t, q)
    BY <1>2, <2>3 DEF Holding
  <2>6. ASSUME Orderly(q) PROVE Follows(t, q)
    <3>1. \A a \in Requests : ReqAt(a, q, "enqueue", Sends) =>
              job'[q].state = "none" /\ fan[f].job = "again"
      BY <2>3, <2>6 DEF Orderly, FansAt
    <3> QED
      BY <1>1, <2>1, <2>6, <3>1 DEF Follows, Orderly
  <2>7. ASSUME q \in Csv \ torn', Reading(q), fan'[f] = t, \A g \in Fans \ {f} : fan'[g] = fan[g]
        PROVE  Reading(q)'
    BY <1>5, <2>1, <2>7
  <2> QED
    BY <2>4, <2>5, <2>6, <2>7, FollowsKeeps
<1> QED
  BY <1>6, <1>7

-----------------------------------------------------------------------------
(* The delay, the completion and the reaper touch the tables only.           *)

LEMMA TableKeeps ==
    ASSUME Audience, NEW q \in Broadcasts, UNCHANGED <<req, fan, rows, released, again, torn, crossed>>,
           status' \in [Broadcasts -> Statuses], \A c \in Broadcasts \ {q} : status'[c] = status[c],
           job' \in [Broadcasts -> Jobs], \A c \in Broadcasts \ {q} : job'[c] = job[c],
           \/ job' = job /\ status' = status
           \/ job' = job /\ status'[q] \in {"completed", "deleted"}
           \/ status' = status /\ job[q].state = "delayed" /\ job'[q].state = "ready"
    PROVE  Audience'
<1>1. Shape'
  BY DEF Audience, Shape
<1>2. Apart(q)
  BY DEF Apart
<1>3. q \in Csv \ torn' => Reading(q)'
  BY DEF Audience, AudienceAt, Reading, FanAt
<1>4. Locked(q)'
  BY DEF Audience, AudienceAt, Locked, FansAt
<1>5. ASSUME q \notin crossed' PROVE Orderly(q)'
  <2>1. Orderly(q)
    BY <1>5 DEF Audience, AudienceAt
  <2>2. /\ At(q)' = At(q) /\ FansAt(q)' = FansAt(q) /\ (Promised(q)' <=> Promised(q))
        /\ \A a \in Requests : \A pc, o : ReqAt(a, q, pc, o)' <=> ReqAt(a, q, pc, o)
        /\ \A f \in Fans : FanAt(f, q, "promote")' <=> FanAt(f, q, "promote")
    BY DEF At, FansAt, Promised, ReqAt, FanAt
  <2>3. \A a \in Requests : ReqAt(a, q, "enqueue", Sends) => job' = job
    BY <2>1 DEF Orderly
  <2>4. status'[q] = "sending" =>
            Promised(q) \/ Waits(q)' \/ FansAt(q) # {} \/ released[q] = rows[q]
    BY <2>1 DEF Orderly, Waits
  <2>5. \A a \in Requests : ReqAt(a, q, "dequeue", Ends) => status'[q] \in Over
    BY <2>1 DEF Orderly, Over
  <2> QED
    BY <2>1, <2>2, <2>3, <2>4, <2>5 DEF Orderly
<1> QED
  BY <1>1, <1>2, <1>3, <1>4, <1>5, OneAtATime DEF AudienceAt

LEMMA TablesKeep ==
    ASSUME Audience, NEW q \in Broadcasts, Due(q) \/ Complete(q) \/ Reap(q)
    PROVE  Audience'
<1>1. Shape
  BY DEF Audience
<1>2. UNCHANGED <<req, fan, rows, released, again, torn, crossed>>
  BY DEF Due, Complete, Reap, ReaperFind, ReaperFinish, table, queue, seen
<1>3. CASE Due(q)
  <2>1. /\ job[q].state = "delayed" /\ job' = [job EXCEPT ![q].state = "ready"] /\ status' = status
    BY <1>3 DEF Due, table
  <2>2. /\ job' \in [Broadcasts -> Jobs] /\ job'[q].state = "ready"
        /\ \A c \in Broadcasts \ {q} : job'[c] = job[c]
    BY <1>1, <2>1, JobStates
  <2> QED
    BY <1>1, <1>2, <2>1, <2>2, TableKeeps DEF Shape
<1>4. ASSUME job' = job, Show(q, "completed") PROVE Audience'
  <2>1. /\ status' \in [Broadcasts -> Statuses] /\ status'[q] = "completed"
        /\ \A c \in Broadcasts \ {q} : status'[c] = status[c]
    BY <1>1, <1>4, Shows DEF Statuses
  <2> QED
    BY <1>1, <1>2, <1>4, <2>1, TableKeeps DEF Shape
<1>5. ASSUME job' = job, status' = status PROVE Audience'
  BY <1>1, <1>2, <1>5, TableKeeps DEF Shape
<1> QED
  BY <1>3, <1>4, <1>5 DEF Complete, Reap, ReaperFind, ReaperFinish, queue, table

-----------------------------------------------------------------------------
LEMMA InitAudience == Init => Audience
<1> SUFFICES ASSUME Init PROVE Audience
  OBVIOUS
<1>1. /\ req = [a \in Requests |-> NoReq] /\ fan = [f \in Fans |-> NoFan]
      /\ job = [b \in Broadcasts |-> NoJob] /\ NoJob \in Jobs /\ NoJob.state = "none"
  BY DEF Init, NoJob, Jobs
<1>2. \A b \in Broadcasts : FansAt(b) = {} /\ At(b) = {}
  BY <1>1, NoReqIsFree, NoFanIsFree, NoBroadcastIsNone DEF FansAt, At
<1>3. Shape
  BY <1>1, NoReqIsFree, NoFanIsFree, LaunchAssumption DEF Init, Shape, Statuses
<1>4. ASSUME NEW b \in Broadcasts PROVE Reading(b) /\ Locked(b) /\ Orderly(b)
  <2>1. \A f \in Fans : \A pc : ~FanAt(f, b, pc)
    BY <1>2 DEF FanAt, FansAt
  <2>2. \A a \in Requests : \A pc, o : ~ReqAt(a, b, pc, o)
    BY <1>2 DEF ReqAt, At
  <2>3. rows[b] = 0 /\ status[b] = "draft"
    BY DEF Init
  <2> QED
    BY <1>1, <1>2, <2>1, <2>2, <2>3 DEF Reading, Locked, Orderly
<1> QED
  BY <1>3, <1>4 DEF Audience, AudienceAt

LEMMA AudienceStep == Audience /\ [Next]_vars => Audience'
<1> SUFFICES ASSUME Audience, [Next]_vars PROVE Audience'
  OBVIOUS
<1>1. ASSUME NEW a \in Requests, Handle(a) \/ RequestFault(a) PROVE Audience'
  BY <1>1, SendWriteKeeps, SendRollbackKeeps, SendDequeueKeeps, SendEnqueueKeeps, SendBumpKeeps,
     OpWriteKeeps, ResumeEnqueueKeeps, OpDequeueKeeps, RequestFaultKeeps DEF Handle
<1>2. ASSUME NEW f \in Fans, FanWork(f) \/ FanFault(f) PROVE Audience'
  BY <1>2, FanTakeKeeps, FanPromoteKeeps, FanCountKeeps, FanStreamKeeps, FanPageKeeps, FanFailKeeps,
     FanFaultKeeps DEF FanWork
<1>3. CASE UNCHANGED vars
  <2>1. UNCHANGED <<status, rows, released, job, again, req, fan, torn, crossed>>
    BY <1>3 DEF vars, table, queue, seen
  <2>2. \A b \in Broadcasts : AudienceAt(b)'
    BY <2>1 DEF Audience, AudienceAt, Reading, Locked, Orderly, FanAt, FansAt, At, ReqAt, Promised, Waits
  <2>3. Shape'
    BY <2>1 DEF Audience, Shape
  <2> QED
    BY <2>2, <2>3 DEF Audience
<1> QED
  BY <1>1, <1>2, <1>3, ReceiveKeeps, TablesKeep DEF Next

\* For any number of broadcasts, requests and slots: with no fanout at work or to come a
\* CSV is whole or unread, and what a broadcast that is sending has of it is released,
\* but for the CSVs whose reading was cut short or doubled and the broadcasts whose
\* requests broke off or overlapped (broadcast-fanout.ts, broadcasts.routes.ts).
THEOREM AudiencesAreWhole == Spec => []AudienceIsWhole
<1>1. Audience => AudienceIsWhole
  <2> SUFFICES ASSUME Audience, NEW b \in Csv \ torn, FansAt(b) = {}, ~Waits(b)
               PROVE  /\ rows[b] \in {0, Batches}
                      /\ status[b] = "sending" /\ At(b) = {} /\ b \notin crossed => released[b] = rows[b]
    BY DEF AudienceIsWhole
  <2>1. b \in Broadcasts /\ AudienceAt(b)
    BY LaunchAssumption DEF Audience
  <2>2. \A f \in Fans : ~FanAt(f, b, "stream")
    BY DEF FansAt, FanAt
  <2>3. rows[b] \in {0, Batches}
    BY <2>1, <2>2 DEF AudienceAt, Reading
  <2>4. At(b) = {} => ~Promised(b)
    BY DEF At, Promised, ReqAt
  <2> QED
    BY <2>1, <2>3, <2>4 DEF AudienceAt, Orderly
<1> QED
  BY <1>1, InitAudience, AudienceStep, PTL DEF Spec
=============================================================================
