--------------------------- MODULE SessionsProofs ---------------------------
(***************************************************************************)
(* What holds of a user's sessions for any number of devices, sessions,    *)
(* logins and refreshes, and any length of the clock.                      *)
(*                                                                         *)
(* Inv says what a session's current token is to whoever holds a token of  *)
(* the session.  One device holds a session (OneDevice).  A session that   *)
(* is not mixed up is Ordered: nobody holds a later token than the row's,  *)
(* at most one refresh is about to rotate it and by the current token,     *)
(* and a token on its way to the device is the current one and nobody's    *)
(* else.  A step that moves no token is Quiet and keeps all of that, which *)
(* is proved once; the five others (a login's placeholder, its hash and    *)
(* its reply, a rotation and its reply) are taken one by one.              *)
(***************************************************************************)
EXTENDS Sessions, TLAPS

States == {"none", "fresh", "aged", "lapsed", "revoked"}

RowRec == [state : States, cur : Tokens \cup {NoToken, Pending}, prev : Tokens \cup {NoToken}]
LoginRec == [pc : {"idle", "create", "update", "reply"}, dev : Devices \cup {Idle.dev},
             row : Rows \cup {NoRow}, tok : Tokens \cup {NoToken}]
ReqRec == [pc : {"idle", "look", "find", "revoke", "rotate", "reply"}, dev : Devices \cup {Idle.dev},
           row : Rows \cup {NoRow}, tok : Tokens \cup {NoToken}]

Types ==
    /\ row \in [Rows -> RowRec]
    /\ cookie \in [Devices -> Tokens \cup {NoToken}]
    /\ login \in [Logins -> LoginRec]
    /\ req \in [Refreshes -> ReqRec]
    /\ now \in Seconds
    /\ exchanged \in [Tokens -> Nat]

\* The session has its first token.
Issued(s) == row[s].cur \in Tokens

\* A row's tokens are its own, and none is of a second to come.
RowsFit ==
    \A s \in Rows :
        /\ row[s].cur # NoToken => row[s].state # "none"
        /\ Issued(s) => row[s].cur.of = s /\ row[s].cur.at <= now
        /\ row[s].prev # NoToken => Issued(s) /\ row[s].prev.of = s /\ row[s].prev.at <= now

Out(t) == t \in Tokens /\ Issued(t.of) /\ t.at <= now

CookiesFit == \A d \in Devices : cookie[d] # NoToken => Out(cookie[d])

LoginsFit ==
    \A i \in Logins :
        /\ login[i].pc # "idle" => login[i].dev \in Devices
        /\ login[i].pc = "update" => login[i].row \in Rows /\ row[login[i].row].cur = Pending
        /\ login[i].pc = "reply" => Out(login[i].tok) /\ login[i].row = login[i].tok.of

ReqsFit ==
    \A r \in Refreshes :
        /\ req[r].pc # "idle" => req[r].dev \in Devices /\ Out(req[r].tok)
        /\ req[r].pc \in {"revoke", "rotate"} => req[r].row = req[r].tok.of

OneUpdate ==
    \A i, j \in Logins :
        login[i].pc = "update" /\ login[j].pc = "update" /\ login[i].row = login[j].row => i = j

\* The devices that hold a token of the session, or are about to.
Holders(s) ==
    {d \in Devices :
        \/ cookie[d].of = s
        \/ \E i \in Logins : login[i].pc \in {"update", "reply"} /\ login[i].row = s /\ login[i].dev = d
        \/ \E r \in Refreshes : req[r].pc # "idle" /\ req[r].tok.of = s /\ req[r].dev = d}

OneDevice == \A s \in Rows : \A c, d \in Holders(s) : c = d

Unused == \A t \in Tokens : ~Issued(t.of) => exchanged[t] = 0

(***************************************************************************)
(* Of a session that is not mixed up.                                      *)
(***************************************************************************)
NoneLater(s) ==
    /\ \A d \in Devices : cookie[d].of = s => cookie[d].at <= row[s].cur.at
    /\ \A r \in Refreshes : req[r].pc # "idle" /\ req[r].tok.of = s => req[r].tok.at <= row[s].cur.at

OneRotates(s) ==
    \A r \in Rotating(s) : req[r].tok = row[s].cur /\ \A q \in Rotating(s) : q = r

\* A token that is on its way to a device is the current one, and nobody has it yet.
LoginIsAlone(s) ==
    \A i \in Logins :
        login[i].pc = "reply" /\ login[i].tok.of = s =>
            /\ login[i].tok = row[s].cur
            /\ \A j \in Logins : login[j].pc = "reply" /\ login[j].tok.of = s => j = i
            /\ \A d \in Devices : cookie[d] # row[s].cur
            /\ \A r \in Refreshes : req[r].pc # "idle" => req[r].tok # row[s].cur

ReplyIsAlone(s) ==
    \A r \in Refreshes :
        req[r].pc = "reply" /\ req[r].tok.of = s =>
            /\ req[r].tok = row[s].cur
            /\ \A q \in Refreshes : req[q].pc # "idle" /\ req[q].tok = row[s].cur => q = r
            /\ \A d \in Devices : cookie[d] # row[s].cur

CookieIsKnown(s) ==
    \A d \in Devices :
        cookie[d].of = s =>
            \/ d \in cut
            \/ cookie[d] = row[s].cur
            \/ /\ cookie[d] = row[s].prev
               /\ \E r \in Refreshes : req[r].pc = "reply" /\ req[r].tok = row[s].cur /\ req[r].dev = d

\* A token that was exchanged is older than the current one.
ExchangedIsOld(t) == exchanged[t] = 1 /\ t.at < row[t.of].cur.at

Counted(s) == \A t \in Tokens : t.of = s => exchanged[t] = 0 \/ ExchangedIsOld(t)

PrevIsOld(s) == row[s].prev # NoToken => ExchangedIsOld(row[s].prev)

RevokedIsOld(s) == \A r \in Refreshes : req[r].pc = "revoke" /\ req[r].row = s => ExchangedIsOld(req[r].tok)

Clean(s) == s \notin Mixed /\ Issued(s)

Ordered(s) ==
    /\ NoneLater(s) /\ OneRotates(s) /\ LoginIsAlone(s) /\ ReplyIsAlone(s)
    /\ CookieIsKnown(s) /\ Counted(s) /\ PrevIsOld(s) /\ RevokedIsOld(s)

Fits == Types /\ RowsFit /\ CookiesFit /\ LoginsFit /\ ReqsFit /\ OneUpdate

Inv ==
    /\ Fits /\ OneDevice /\ Unused /\ PlaceholderIsClaimed
    /\ \A s \in Rows : Clean(s) => Ordered(s)

-----------------------------------------------------------------------------
(* A refresh of the device's own cookie, or one that goes on or ends.       *)
Goes(r) ==
    \/ req'[r] = req[r]
    \/ req'[r].pc = "idle" /\ (req[r].pc = "reply" => req[r].dev \in cut')
    \/ /\ req[r].pc = "idle" /\ req'[r].pc = "look" /\ req'[r].dev \in Devices
       /\ req'[r].tok = cookie[req'[r].dev] /\ req'[r].tok # NoToken
    \/ /\ req[r].pc \in {"look", "find"} /\ req'[r].pc \in {"find", "revoke", "rotate"}
       /\ req'[r].dev = req[r].dev /\ req'[r].tok = req[r].tok
       /\ req'[r].pc \in {"revoke", "rotate"} =>
             LET s == req'[r].row
             IN  /\ s \in Rows
                 /\ req'[r].pc = "revoke" => req[r].tok = row[s].prev
                 /\ req'[r].pc = "rotate" =>
                       /\ req[r].tok = row[s].cur
                       /\ s \notin Mixed' => \A q \in Refreshes : req'[q].pc = "rotate" /\ req'[q].row = s => q = r

(* A step that moves no token: no row gets one and no device does.          *)
Quiet ==
    /\ \A s \in Rows : /\ row'[s].cur = row[s].cur /\ row'[s].prev = row[s].prev
                       /\ row[s].state # "none" => row'[s].state # "none"
    /\ \A d \in Devices : cookie'[d] \in {cookie[d], NoToken}
    /\ \A i \in Logins :
          \/ login'[i] = login[i]
          \/ /\ login'[i].pc \in {"idle", "create"}
             /\ login'[i].pc = "create" => login'[i].dev \in Devices
             /\ login[i].pc = "update" => login[i].row \in left'
    /\ \A r \in Refreshes : Goes(r)
    /\ now <= now' /\ exchanged' = exchanged
    /\ cut \subseteq cut' /\ Mixed \subseteq Mixed' /\ left \subseteq left'

\* The token is out after the step.
OutThen(t) == t \in Tokens /\ row'[t.of].cur \in Tokens /\ t.at <= now'

-----------------------------------------------------------------------------
LEMMA NoTokens == SessionsAssumption => /\ NoToken \notin Tokens /\ Pending \notin Tokens /\ Pending # NoToken
                         /\ \A t \in Tokens : t.of \in Rows /\ t.of # NoRow /\ t.at \in Nat
                         /\ NoToken.of \notin Rows /\ Pending.of \notin Rows
<1>1. SUFFICES ASSUME SessionsAssumption
      PROVE  /\ NoToken \notin Tokens /\ Pending \notin Tokens /\ Pending # NoToken
             /\ \A t \in Tokens : t.of \in Rows /\ t.of # NoRow /\ t.at \in Nat
             /\ NoToken.of \notin Rows /\ Pending.of \notin Rows
  OBVIOUS
<1>2. NoToken.of = NoRow /\ Pending.of = NoRow /\ NoToken.at = 0 /\ Pending.at = 1
  BY DEF NoToken, Pending
<1>3. \A t \in Tokens : t.of \in Rows /\ t.at \in Nat
  BY <1>1 DEF Tokens, Seconds, SessionsAssumption
<1>. QED BY <1>1, <1>2, <1>3 DEF SessionsAssumption

LEMMA NoneOf == ASSUME SessionsAssumption, NEW s \in Rows PROVE NoToken.of # s
<1>1. NoToken.of = NoRow
  BY DEF NoToken
<1>. QED BY <1>1 DEF SessionsAssumption

\* A token is its session and its second.
LEMMA TokenIs == \A t, u \in Tokens : t.of = u.of /\ t.at = u.at => t = u
  BY DEF Tokens

LEMMA SignedIs == ASSUME SessionsAssumption, now \in Seconds, NEW s \in Rows
                  PROVE  Signed(s) \in Tokens /\ Signed(s).of = s /\ Signed(s).at = now
  BY DEF Signed, Tokens

-----------------------------------------------------------------------------
(* Types.                                                                   *)

LEMMA IdleTypes == Idle \in LoginRec /\ Idle \in ReqRec
  BY DEF Idle, LoginRec, ReqRec

\* The record of a handler after one of its fields, or all, were replaced.
LEMMA LoginTypes ==
  ASSUME Types, NEW i \in Logins, NEW rec \in LoginRec, ToLogin(i, rec)
  PROVE  login' \in [Logins -> LoginRec] /\ login'[i] = rec /\ \A j \in Logins \ {i} : login'[j] = login[j]
  BY DEF Types, ToLogin

LEMMA ReqTypes ==
  ASSUME Types, NEW r \in Refreshes, NEW rec \in ReqRec, ToReq(r, rec)
  PROVE  req' \in [Refreshes -> ReqRec] /\ req'[r] = rec /\ \A q \in Refreshes \ {r} : req'[q] = req[q]
  BY DEF Types, ToReq

\* Another state of a row.
LEMMA StateTypes ==
  ASSUME Types, NEW s \in Rows, NEW st \in States, row' = [row EXCEPT ![s].state = st]
  PROVE  /\ row' \in [Rows -> RowRec]
         /\ \A u \in Rows : row'[u].cur = row[u].cur /\ row'[u].prev = row[u].prev
         /\ row'[s].state = st /\ \A u \in Rows \ {s} : row'[u] = row[u]
<1>1. row[s] \in RowRec
  BY DEF Types
<1>2. [row[s] EXCEPT !.state = st] \in RowRec
  BY <1>1 DEF RowRec
<1>3. row' = [row EXCEPT ![s] = [row[s] EXCEPT !.state = st]]
  BY DEF Types
<1>4. /\ row' \in [Rows -> RowRec] /\ row'[s] = [row[s] EXCEPT !.state = st]
      /\ \A u \in Rows \ {s} : row'[u] = row[u]
  BY <1>2, <1>3 DEF Types
<1>5. row'[s].cur = row[s].cur /\ row'[s].prev = row[s].prev /\ row'[s].state = st
  BY <1>4, <1>1 DEF RowRec
<1>. QED BY <1>4, <1>5

\* The session a cookie was signed for.
LEMMA CookieOf == ASSUME SessionsAssumption, Types, NEW d \in Devices, cookie[d] # NoToken
                  PROVE  cookie[d] \in Tokens /\ cookie[d].of \in Rows
  BY NoTokens DEF Types

\* The records of a login that starts.
LEMMA SwitchRecs ==
  ASSUME NEW d \in Devices
  PROVE  LET rec == [Idle EXCEPT !.pc = "create", !.dev = d]
         IN  rec \in LoginRec /\ rec.pc = "create" /\ rec.dev = d
  BY DEF Idle, LoginRec

LEMMA CreateRecs ==
  ASSUME NEW d \in Devices, NEW s \in Rows
  PROVE  LET rec == [Idle EXCEPT !.pc = "update", !.dev = d, !.row = s]
         IN  rec \in LoginRec /\ rec.pc = "update" /\ rec.dev = d /\ rec.row = s
  BY DEF Idle, LoginRec

\* A row with the placeholder.
LEMMA PlaceholderRow ==
  LET rec == [NoSession EXCEPT !.state = "fresh", !.cur = Pending]
  IN  rec \in RowRec /\ rec.state = "fresh" /\ rec.cur = Pending /\ rec.prev = NoToken
  BY DEF NoSession, RowRec, States

\* A refresh's record after a step of it.
LEMMA PcRec ==
  ASSUME NEW old \in ReqRec, NEW p \in {"find", "reply"}
  PROVE  LET rec == [old EXCEPT !.pc = p]
         IN  rec \in ReqRec /\ rec.pc = p /\ rec.dev = old.dev /\ rec.tok = old.tok /\ rec.row = old.row
  BY DEF ReqRec

LEMMA ReplyRec ==
  ASSUME NEW old \in ReqRec, NEW t \in Tokens
  PROVE  LET rec == [old EXCEPT !.pc = "reply", !.tok = t]
         IN  rec \in ReqRec /\ rec.pc = "reply" /\ rec.dev = old.dev /\ rec.tok = t /\ rec.row = old.row
  BY DEF ReqRec

LEMMA UpdateRec ==
  ASSUME NEW old \in LoginRec, NEW t \in Tokens
  PROVE  LET rec == [old EXCEPT !.pc = "reply", !.tok = t]
         IN  rec \in LoginRec /\ rec.pc = "reply" /\ rec.dev = old.dev /\ rec.tok = t /\ rec.row = old.row
  BY DEF LoginRec

LEMMA IdlePc == Idle.pc = "idle"
  BY DEF Idle

-----------------------------------------------------------------------------
(* The quiet actions.                                                       *)

\* A step that leaves the rows' tokens and the cookies alone, and one login or
\* refresh at most.
LEMMA QuietLogin ==
  ASSUME SessionsAssumption, Types, NEW i \in Logins, NEW rec \in LoginRec, ToLogin(i, rec),
         rec.pc \in {"idle", "create"}, rec.pc = "create" => rec.dev \in Devices,
         login[i].pc = "update" => login[i].row \in left',
         \A s \in Rows : /\ row'[s].cur = row[s].cur /\ row'[s].prev = row[s].prev
                         /\ row[s].state # "none" => row'[s].state # "none",
         UNCHANGED <<cookie, req, now, exchanged, twins, same, cut>>, left \subseteq left'
  PROVE  Quiet
<1>1. login'[i] = rec /\ \A j \in Logins \ {i} : login'[j] = login[j]
  BY LoginTypes
<1>2. \A r \in Refreshes : Goes(r)
  BY DEF Goes
<1>3. now <= now' /\ Mixed \subseteq Mixed'
  BY DEF Types, Seconds, Mixed, SessionsAssumption
<1>. QED BY <1>1, <1>2, <1>3 DEF Quiet

LEMMA QuietReq ==
  ASSUME SessionsAssumption, Types, NEW r \in Refreshes, NEW rec \in ReqRec, ToReq(r, rec), Goes(r),
         \A s \in Rows : /\ row'[s].cur = row[s].cur /\ row'[s].prev = row[s].prev
                         /\ row[s].state # "none" => row'[s].state # "none",
         UNCHANGED <<cookie, login, now, exchanged, same, left>>, twins \subseteq twins', cut \subseteq cut'
  PROVE  Quiet
<1>1. \A q \in Refreshes \ {r} : req'[q] = req[q]
  BY ReqTypes
<1>2. \A q \in Refreshes : Goes(q)
  BY <1>1 DEF Goes
<1>3. now <= now' /\ Mixed \subseteq Mixed'
  BY DEF Types, Seconds, Mixed, SessionsAssumption
<1>. QED BY <1>2, <1>3 DEF Quiet

\* A step of the rows' states, the cookies or the clock alone.
LEMMA QuietRest ==
  ASSUME SessionsAssumption, Types,
         \A s \in Rows : /\ row'[s].cur = row[s].cur /\ row'[s].prev = row[s].prev
                         /\ row[s].state # "none" => row'[s].state # "none",
         \A d \in Devices : cookie'[d] \in {cookie[d], NoToken},
         UNCHANGED <<login, req, exchanged, twins, same, cut, left>>, now <= now'
  PROVE  Quiet
<1>1. \A r \in Refreshes : Goes(r)
  BY DEF Goes
<1>. QED BY <1>1 DEF Quiet, Mixed

LEMMA SwitchStartIs ==
  ASSUME SessionsAssumption, Types, NEW i \in Logins, NEW d \in Devices, SwitchStart(i, d)
  PROVE  Types' /\ Quiet
<1>1. PICK rec \in LoginRec : ToLogin(i, rec) /\ rec.pc = "create" /\ rec.dev = d
  BY SwitchRecs DEF SwitchStart
<1>2. login' \in [Logins -> LoginRec]
  BY <1>1, LoginTypes
<1>3. "revoked" \in States /\ cookie[d].of \in Rows
  BY CookieOf DEF SwitchStart, States
<1>4. /\ row' \in [Rows -> RowRec]
      /\ \A u \in Rows : row'[u].cur = row[u].cur /\ row'[u].prev = row[u].prev
      /\ row'[cookie[d].of].state = "revoked" /\ \A u \in Rows \ {cookie[d].of} : row'[u] = row[u]
  BY <1>3, StateTypes DEF SwitchStart
<1>5. Types'
  BY <1>2, <1>4 DEF Types, SwitchStart, seen
<1>6. \A s \in Rows : row[s].state # "none" => row'[s].state # "none"
  BY <1>4
<1>7. Quiet
  BY <1>1, <1>4, <1>6, QuietLogin DEF SwitchStart, seen
<1>. QED BY <1>5, <1>7

LEMMA LoginFaultIs ==
  ASSUME SessionsAssumption, Types, NEW i \in Logins, LoginFault(i)
  PROVE  Types' /\ Quiet
<1>1. login' \in [Logins -> LoginRec]
  BY IdleTypes, LoginTypes DEF LoginFault
<1>2. Types'
  BY <1>1 DEF Types, LoginFault
<1>3. /\ ToLogin(i, Idle)
      /\ login[i].pc = "update" => login[i].row \in left'
      /\ row' = row /\ UNCHANGED <<cookie, req, now, exchanged, twins, same, cut>> /\ left \subseteq left'
  BY DEF LoginFault
<1>4. Quiet
  BY <1>3, IdleTypes, IdlePc, QuietLogin
<1>. QED BY <1>2, <1>4

LEMMA RefreshStartIs ==
  ASSUME SessionsAssumption, Types, NEW r \in Refreshes, NEW d \in Devices, RefreshStart(r, d)
  PROVE  Types' /\ Quiet
<1>1. cookie[d] \in Tokens
  BY CookieOf DEF RefreshStart
<1>2. PICK rec \in ReqRec : ToReq(r, rec) /\ rec.pc = "look" /\ rec.dev = d /\ rec.tok = cookie[d]
  <2> DEFINE rec == [Idle EXCEPT !.pc = "look", !.dev = d, !.tok = cookie[d]]
  <2>1. rec \in ReqRec /\ rec.pc = "look" /\ rec.dev = d /\ rec.tok = cookie[d]
    BY <1>1 DEF Idle, ReqRec
  <2>2. ToReq(r, rec)
    BY DEF RefreshStart
  <2> HIDE DEF rec
  <2>. QED BY <2>1, <2>2
<1>3. req' \in [Refreshes -> ReqRec] /\ req'[r] = rec
  BY <1>2, ReqTypes
<1>4. Types'
  BY <1>3 DEF Types, RefreshStart, seen
<1>5. Goes(r)
  BY <1>2, <1>3 DEF Goes, RefreshStart
<1>6. row' = row /\ UNCHANGED <<cookie, login, now, exchanged, twins, same, cut, left>>
  BY DEF RefreshStart, seen
<1>7. Quiet
  BY <1>2, <1>5, <1>6, QuietReq
<1>. QED BY <1>4, <1>7

LEMMA LookIs ==
  ASSUME SessionsAssumption, Types, NEW r \in Refreshes, Look(r)
  PROVE  Types' /\ Quiet
<1>1. row' = row /\ UNCHANGED <<cookie, login, now, exchanged, twins, same, cut, left>> /\ req[r].pc = "look"
  BY DEF Look, seen
<1>2. req[r] \in ReqRec
  BY DEF Types
<1>3. PICK rec \in ReqRec : ToReq(r, rec) /\ \/ rec.pc = "idle"
                                             \/ /\ rec.pc \in {"find", "revoke"} /\ rec.dev = req[r].dev
                                                /\ rec.tok = req[r].tok
                                                /\ rec.pc = "revoke" => rec.row \in Rows /\ row[rec.row].prev = rec.tok
  <2> DEFINE reused == {s \in Rows : row[s].prev = req[r].tok /\ Live(s)}
  <2>1. CASE reused = {}
    BY <2>1, <1>2, PcRec DEF Look
  <2>2. CASE reused # {}
    <3>1. PICK s \in Rows :
            /\ row[s].prev = req[r].tok
            /\ ToReq(r, IF row[s].state = "fresh" THEN Idle ELSE [req[r] EXCEPT !.row = s, !.pc = "revoke"])
      BY <2>2 DEF Look
    <3>2. CASE row[s].state = "fresh"
      BY <3>1, <3>2, IdleTypes, IdlePc
    <3>3. CASE row[s].state # "fresh"
      <4> DEFINE rec == [req[r] EXCEPT !.row = s, !.pc = "revoke"]
      <4>1. ToReq(r, rec)
        BY <3>1, <3>3
      <4>2. rec \in ReqRec /\ rec.pc = "revoke" /\ rec.dev = req[r].dev /\ rec.tok = req[r].tok /\ rec.row = s
        BY <1>2 DEF ReqRec
      <4> HIDE DEF rec
      <4>. QED BY <4>1, <4>2, <3>1
    <3>. QED BY <3>2, <3>3
  <2>. QED BY <2>1, <2>2
<1>4. req' \in [Refreshes -> ReqRec] /\ req'[r] = rec
  BY <1>3, ReqTypes
<1>5. Types'
  BY <1>1, <1>4 DEF Types
<1>6. Goes(r)
  BY <1>1, <1>3, <1>4 DEF Goes
<1>7. Quiet
  BY <1>1, <1>3, <1>6, QuietReq
<1>. QED BY <1>5, <1>7

LEMMA FindIs ==
  ASSUME SessionsAssumption, Types, NEW r \in Refreshes, Find(r)
  PROVE  Types' /\ Quiet
<1>1. row' = row /\ UNCHANGED <<cookie, login, now, exchanged, same, cut, left>> /\ req[r].pc = "find"
  BY DEF Find
<1>2. req[r] \in ReqRec
  BY DEF Types
<1>3. PICK rec \in ReqRec :
        /\ ToReq(r, rec) /\ twins \subseteq twins'
        /\ \/ rec.pc = "idle"
           \/ /\ rec.pc = "rotate" /\ rec.dev = req[r].dev /\ rec.tok = req[r].tok
              /\ rec.row \in Rows /\ row[rec.row].cur = rec.tok
              /\ Rotating(rec.row) = {} \/ rec.row \in twins'
  <2> DEFINE found == {s \in Rows : row[s].cur = req[r].tok /\ row[s].state \in {"fresh", "aged"}}
  <2>1. CASE found = {}
    BY <2>1, IdleTypes, IdlePc DEF Find
  <2>2. CASE found # {}
    <3>1. PICK s \in Rows :
            /\ row[s].cur = req[r].tok
            /\ ToReq(r, [req[r] EXCEPT !.row = s, !.pc = "rotate"])
            /\ twins' = IF Rotating(s) = {} THEN twins ELSE twins \cup {s}
      BY <2>2 DEF Find
    <3>2. twins \subseteq twins' /\ (Rotating(s) = {} \/ s \in twins')
      BY <3>1
    <3> DEFINE rec == [req[r] EXCEPT !.row = s, !.pc = "rotate"]
    <3>3. rec \in ReqRec /\ rec.pc = "rotate" /\ rec.dev = req[r].dev /\ rec.tok = req[r].tok /\ rec.row = s
      BY <1>2 DEF ReqRec
    <3>4. ToReq(r, rec)
      BY <3>1
    <3> HIDE DEF rec
    <3>. QED BY <3>1, <3>2, <3>3, <3>4
  <2>. QED BY <2>1, <2>2
<1>4. req' \in [Refreshes -> ReqRec] /\ req'[r] = rec /\ \A q \in Refreshes \ {r} : req'[q] = req[q]
  BY <1>3, ReqTypes
<1>5. Types'
  BY <1>1, <1>4 DEF Types
<1>6. ASSUME rec.pc = "rotate", rec.row \notin Mixed'
      PROVE  \A q \in Refreshes : req'[q].pc = "rotate" /\ req'[q].row = rec.row => q = r
  BY <1>3, <1>4, <1>6 DEF Mixed, Rotating
<1>7. Goes(r)
  BY <1>1, <1>3, <1>4, <1>6 DEF Goes
<1>8. Quiet
  BY <1>1, <1>3, <1>7, QuietReq
<1>. QED BY <1>5, <1>8

LEMMA RevokeIs ==
  ASSUME SessionsAssumption, Types, ReqsFit, NEW r \in Refreshes, Revoke(r)
  PROVE  Types' /\ Quiet
<1>1. req[r].row \in Rows /\ "revoked" \in States
  BY NoTokens DEF Revoke, ReqsFit, Out, States
<1>2. /\ row' \in [Rows -> RowRec]
      /\ \A u \in Rows : row'[u].cur = row[u].cur /\ row'[u].prev = row[u].prev
      /\ row'[req[r].row].state = "revoked" /\ \A u \in Rows \ {req[r].row} : row'[u] = row[u]
  BY <1>1, StateTypes DEF Revoke
<1>3. /\ ToReq(r, Idle) /\ req[r].pc = "revoke"
      /\ UNCHANGED <<cookie, login, now, exchanged, twins, same, cut, left>>
  BY DEF Revoke, seen
<1>4. req' \in [Refreshes -> ReqRec] /\ req'[r] = Idle
  BY <1>3, IdleTypes, ReqTypes
<1>5. Types'
  BY <1>2, <1>3, <1>4 DEF Types
<1>6. Goes(r)
  BY <1>3, <1>4, IdlePc DEF Goes
<1>7. \A s \in Rows : row[s].state # "none" => row'[s].state # "none"
  BY <1>2
<1>8. Quiet
  BY <1>2, <1>3, <1>6, <1>7, IdleTypes, QuietReq
<1>. QED BY <1>5, <1>8

LEMMA RefreshFaultIs ==
  ASSUME SessionsAssumption, Types, NEW r \in Refreshes, RefreshFault(r)
  PROVE  Types' /\ Quiet
<1>1. /\ ToReq(r, Idle) /\ row' = row /\ UNCHANGED <<cookie, login, now, exchanged, twins, same, left>>
      /\ cut \subseteq cut'
      /\ req[r].pc = "reply" => req[r].dev \in cut'
  BY DEF RefreshFault
<1>2. req' \in [Refreshes -> ReqRec] /\ req'[r] = Idle
  BY <1>1, IdleTypes, ReqTypes
<1>3. Types'
  BY <1>1, <1>2 DEF Types
<1>4. Goes(r)
  BY <1>1, <1>2, IdlePc DEF Goes
<1>5. Quiet
  BY <1>1, <1>4, IdleTypes, QuietReq
<1>. QED BY <1>3, <1>5

LEMMA RestIs ==
  ASSUME SessionsAssumption, Types, (\E d \in Devices : Logout(d)) \/ ResetPassword \/ Tick \/ \E s \in Rows : GraceEnds(s) \/ Lapse(s)
  PROVE  Types' /\ Quiet
<1> USE DEF seen
<1>1. CASE \E d \in Devices : Logout(d)
  <2>1. PICK d \in Devices : Logout(d)
    BY <1>1
  <2>2. cookie[d].of \in Rows /\ "revoked" \in States
    BY <2>1, CookieOf DEF Logout, States
  <2>3. /\ row' \in [Rows -> RowRec]
        /\ \A u \in Rows : row'[u].cur = row[u].cur /\ row'[u].prev = row[u].prev
        /\ row'[cookie[d].of].state = "revoked" /\ \A u \in Rows \ {cookie[d].of} : row'[u] = row[u]
    BY <2>1, <2>2, StateTypes DEF Logout
  <2>4. \A s \in Rows : row[s].state # "none" => row'[s].state # "none"
    BY <2>3
  <2>5. cookie' \in [Devices -> Tokens \cup {NoToken}] /\ \A c \in Devices : cookie'[c] \in {cookie[c], NoToken}
    BY <2>1 DEF Logout, Types
  <2>6. UNCHANGED <<login, req, now, exchanged, twins, same, cut, left>>
    BY <2>1 DEF Logout
  <2>7. Types'
    BY <2>3, <2>5, <2>6 DEF Types
  <2>8. now <= now'
    BY <2>6 DEF Types, Seconds, SessionsAssumption
  <2>. QED BY <2>3, <2>4, <2>5, <2>6, <2>7, <2>8, QuietRest
<1>2. CASE ResetPassword
  <2>1. \A s \in Rows : row[s] \in RowRec /\ [row[s] EXCEPT !.state = "revoked"] \in RowRec
    BY DEF Types, RowRec, States
  <2>2. \A s \in Rows : /\ row'[s] \in RowRec /\ row'[s].cur = row[s].cur /\ row'[s].prev = row[s].prev
                        /\ row[s].state # "none" => row'[s].state # "none"
    BY <1>2, <2>1 DEF ResetPassword, RowRec
  <2>3. UNCHANGED <<cookie, login, req, now, exchanged, twins, same, cut, left>> /\ row' \in [Rows -> RowRec]
    BY <1>2, <2>1 DEF ResetPassword
  <2>4. Types'
    BY <2>3 DEF Types
  <2>5. now <= now'
    BY <2>3 DEF Types, Seconds, SessionsAssumption
  <2>. QED BY <2>2, <2>3, <2>4, <2>5, QuietRest
<1>3. CASE Tick
  <2>1. now' \in Seconds /\ now <= now' /\ UNCHANGED <<row, cookie, login, req, exchanged, twins, same, cut, left>>
    BY <1>3 DEF Tick, Types, Seconds, SessionsAssumption
  <2>2. Types'
    BY <2>1 DEF Types
  <2>. QED BY <2>1, <2>2, QuietRest
<1>4. CASE \E s \in Rows : GraceEnds(s) \/ Lapse(s)
  <2>1. PICK s \in Rows, st \in {"aged", "lapsed"} : row' = [row EXCEPT ![s].state = st]
    BY <1>4 DEF GraceEnds, Lapse
  <2>2. UNCHANGED <<cookie, login, req, now, exchanged, twins, same, cut, left>>
    BY <1>4 DEF GraceEnds, Lapse
  <2>3. /\ row' \in [Rows -> RowRec]
        /\ \A u \in Rows : row'[u].cur = row[u].cur /\ row'[u].prev = row[u].prev
        /\ row'[s].state = st /\ \A u \in Rows \ {s} : row'[u] = row[u]
    BY <2>1, StateTypes DEF States
  <2>4. \A u \in Rows : row[u].state # "none" => row'[u].state # "none"
    BY <2>3
  <2>5. Types'
    BY <2>2, <2>3 DEF Types
  <2>6. now <= now'
    BY <2>2 DEF Types, Seconds, SessionsAssumption
  <2>. QED BY <2>2, <2>3, <2>4, <2>5, <2>6, QuietRest
<1>. QED BY <1>1, <1>2, <1>3, <1>4

-----------------------------------------------------------------------------
(* What a quiet step preserves.                                             *)

LEMMA QuietOut ==
  ASSUME SessionsAssumption, Types, Types', Quiet
  PROVE  /\ \A s \in Rows : Issued(s)' <=> Issued(s)
         /\ \A t : Out(t) => OutThen(t)
<1>1. \A s \in Rows : Issued(s)' <=> Issued(s)
  BY DEF Quiet, Issued
<1>2. now \in Nat /\ now' \in Nat /\ now <= now'
  BY DEF Types, Quiet, Seconds, SessionsAssumption
<1>3. ASSUME NEW t, Out(t) PROVE OutThen(t)
  <2>1. t \in Tokens /\ t.of \in Rows /\ t.at \in Nat /\ t.at <= now /\ Issued(t.of)
    BY <1>3, NoTokens DEF Out
  <2>. QED BY <2>1, <1>1, <1>2 DEF OutThen, Issued
<1>. QED BY <1>1, <1>3

LEMMA QuietRows ==
  ASSUME SessionsAssumption, Types, Types', Quiet, RowsFit
  PROVE  RowsFit'
<1> SUFFICES ASSUME NEW s \in Rows
             PROVE  /\ row'[s].cur # NoToken => row'[s].state # "none"
                    /\ Issued(s)' => row'[s].cur.of = s /\ row'[s].cur.at <= now'
                    /\ row'[s].prev # NoToken => Issued(s)' /\ row'[s].prev.of = s /\ row'[s].prev.at <= now'
  BY DEF RowsFit
<1>1. row'[s].cur = row[s].cur /\ row'[s].prev = row[s].prev /\ (row[s].state # "none" => row'[s].state # "none")
  BY DEF Quiet
<1>2. now \in Nat /\ now' \in Nat /\ now <= now'
  BY DEF Types, Quiet, Seconds, SessionsAssumption
<1>3. /\ row[s].cur # NoToken => row[s].state # "none"
      /\ Issued(s) => row[s].cur.of = s /\ row[s].cur.at <= now
      /\ row[s].prev # NoToken => Issued(s) /\ row[s].prev.of = s /\ row[s].prev.at <= now
  BY DEF RowsFit
<1>4. Issued(s)' <=> Issued(s)
  BY QuietOut
<1>5. /\ row[s].prev # NoToken => row[s].prev \in Tokens /\ row[s].prev.at \in Nat
      /\ Issued(s) => row[s].cur.at \in Nat
  BY NoTokens DEF Types, RowRec, Issued
<1>. QED BY <1>1, <1>2, <1>3, <1>4, <1>5

LEMMA QuietCookies ==
  ASSUME SessionsAssumption, Types, Types', Quiet, CookiesFit
  PROVE  CookiesFit'
<1> SUFFICES ASSUME NEW d \in Devices, cookie'[d] # NoToken PROVE OutThen(cookie'[d])
  BY DEF CookiesFit, Out, OutThen, Issued
<1>. QED BY QuietOut DEF Quiet, CookiesFit

LEMMA QuietLogins ==
  ASSUME SessionsAssumption, Types, Types', Quiet, LoginsFit
  PROVE  LoginsFit'
<1> SUFFICES ASSUME NEW i \in Logins
             PROVE  /\ login'[i].pc # "idle" => login'[i].dev \in Devices
                    /\ login'[i].pc = "update" => login'[i].row \in Rows /\ row'[login'[i].row].cur = Pending
                    /\ login'[i].pc = "reply" => OutThen(login'[i].tok) /\ login'[i].row = login'[i].tok.of
  BY DEF LoginsFit, Out, OutThen, Issued
<1>1. CASE login'[i] = login[i]
  BY <1>1, QuietOut DEF LoginsFit, Quiet
<1>2. CASE login'[i].pc \in {"idle", "create"} /\ (login'[i].pc = "create" => login'[i].dev \in Devices)
  BY <1>2
<1>. QED BY <1>1, <1>2 DEF Quiet

LEMMA QuietReqs ==
  ASSUME SessionsAssumption, Types, Types', Quiet, RowsFit, CookiesFit, ReqsFit
  PROVE  ReqsFit'
<1> SUFFICES ASSUME NEW r \in Refreshes
             PROVE  /\ req'[r].pc # "idle" => req'[r].dev \in Devices /\ OutThen(req'[r].tok)
                    /\ req'[r].pc \in {"revoke", "rotate"} => req'[r].row = req'[r].tok.of
  BY DEF ReqsFit, Out, OutThen, Issued
<1>1. CASE req'[r] = req[r]
  BY <1>1, QuietOut DEF ReqsFit
<1>2. CASE req'[r].pc = "idle"
  BY <1>2
<1>3. CASE /\ req[r].pc = "idle" /\ req'[r].pc = "look" /\ req'[r].dev \in Devices
           /\ req'[r].tok = cookie[req'[r].dev] /\ req'[r].tok # NoToken
  <2>1. Out(req'[r].tok)
    BY <1>3 DEF CookiesFit
  <2>. QED BY <1>3, <2>1, QuietOut
<1>4. CASE req[r].pc \in {"look", "find"} /\ req'[r].dev = req[r].dev /\ req'[r].tok = req[r].tok
  <2>1. Out(req[r].tok) /\ req'[r].dev \in Devices
    BY <1>4 DEF ReqsFit
  <2>2. OutThen(req'[r].tok)
    BY <1>4, <2>1, QuietOut
  <2>3. ASSUME req'[r].pc \in {"revoke", "rotate"} PROVE req'[r].row = req'[r].tok.of
    <3>1. req'[r].row \in Rows /\ req[r].tok \in {row[req'[r].row].prev, row[req'[r].row].cur}
      BY <1>4, <2>3 DEF Quiet, Goes
    <3>2. req[r].tok \in Tokens /\ req[r].tok # NoToken
      BY <2>1, NoTokens DEF Out
    <3>3. req[r].tok.of = req'[r].row
      BY <3>1, <3>2 DEF RowsFit, Issued
    <3>. QED BY <1>4, <3>3
  <2>. QED BY <2>1, <2>2, <2>3
<1>. QED BY <1>1, <1>2, <1>3, <1>4 DEF Quiet, Goes

LEMMA QuietUpdates ==
  ASSUME Quiet, OneUpdate
  PROVE  OneUpdate'
<1>1. \A i \in Logins : login'[i].pc = "update" => login'[i] = login[i]
  BY DEF Quiet
<1>. QED BY <1>1 DEF OneUpdate

LEMMA QuietPlaceholder ==
  ASSUME Quiet, PlaceholderIsClaimed
  PROVE  PlaceholderIsClaimed'
<1> SUFFICES ASSUME NEW s \in Rows, row'[s].cur = Pending
             PROVE  s \in left' \/ \E i \in Logins : login'[i].pc = "update" /\ login'[i].row = s
  BY DEF PlaceholderIsClaimed
<1>1. row[s].cur = Pending
  BY DEF Quiet
<1>2. CASE s \in left
  BY <1>2 DEF Quiet
<1>3. CASE \E i \in Logins : login[i].pc = "update" /\ login[i].row = s
  BY <1>3 DEF Quiet
<1>. QED BY <1>1, <1>2, <1>3 DEF PlaceholderIsClaimed

LEMMA QuietUnused ==
  ASSUME SessionsAssumption, Types, Types', Quiet, Unused
  PROVE  Unused'
  BY QuietOut, NoTokens DEF Unused, Quiet

\* A device that holds a token of the session held one before.
LEMMA QuietHolders ==
  ASSUME SessionsAssumption, Types, Quiet, NEW s \in Rows
  PROVE  Holders(s)' \subseteq Holders(s)
<1> SUFFICES ASSUME NEW d \in Holders(s)' PROVE d \in Holders(s)
  OBVIOUS
<1>1. d \in Devices
  BY DEF Holders
<1>2. CASE cookie'[d].of = s
  <2>1. cookie'[d] \in {cookie[d], NoToken}
    BY <1>1 DEF Quiet
  <2>2. NoToken.of # s
    BY NoneOf
  <2>3. cookie[d].of = s
    BY <1>2, <2>1, <2>2
  <2>. QED BY <1>1, <2>3 DEF Holders
<1>3. CASE \E i \in Logins : login'[i].pc \in {"update", "reply"} /\ login'[i].row = s /\ login'[i].dev = d
  BY <1>1, <1>3 DEF Quiet, Holders
<1>4. CASE \E r \in Refreshes : req'[r].pc # "idle" /\ req'[r].tok.of = s /\ req'[r].dev = d
  <2>1. PICK r \in Refreshes : req'[r].pc # "idle" /\ req'[r].tok.of = s /\ req'[r].dev = d
    BY <1>4
  <2>2. Goes(r)
    BY DEF Quiet
  <2>3. \/ req[r].pc # "idle" /\ req[r].tok.of = s /\ req[r].dev = d
        \/ cookie[d].of = s
    BY <2>1, <2>2 DEF Goes
  <2>. QED BY <1>1, <2>3 DEF Holders
<1>. QED BY <1>2, <1>3, <1>4 DEF Holders

LEMMA QuietDevice ==
  ASSUME SessionsAssumption, Types, Quiet, OneDevice
  PROVE  OneDevice'
  BY QuietHolders DEF OneDevice

-----------------------------------------------------------------------------
(* A clean session under a quiet step.                                      *)

\* The token a refresh has after the step it or a device had before.
LEMMA QuietTok ==
  ASSUME Quiet, NEW r \in Refreshes, req'[r].pc # "idle"
  PROVE  \/ req[r].pc # "idle" /\ req'[r].tok = req[r].tok /\ req'[r].dev = req[r].dev
         \/ req'[r].pc = "look" /\ \E d \in Devices : cookie[d] = req'[r].tok
  BY DEF Quiet, Goes

\* A refresh that is about to reply was so before.
LEMMA QuietReply ==
  ASSUME Quiet, NEW r \in Refreshes, req'[r].pc = "reply"
  PROVE  req'[r] = req[r]
  BY DEF Quiet, Goes

LEMMA QuietClean ==
  ASSUME SessionsAssumption, Types, Types', Quiet, NEW s \in Rows, Clean(s)'
  PROVE  Clean(s)
  BY QuietOut DEF Clean, Quiet

LEMMA QuietNoneLater ==
  ASSUME SessionsAssumption, Quiet, NEW s \in Rows, NoneLater(s)
  PROVE  NoneLater(s)'
<1>1. row'[s].cur = row[s].cur
  BY DEF Quiet
<1>2. ASSUME NEW d \in Devices, cookie'[d].of = s PROVE cookie'[d].at <= row'[s].cur.at
  <2>1. cookie'[d] \in {cookie[d], NoToken}
    BY DEF Quiet
  <2>2. NoToken.of # s
    BY NoneOf
  <2>. QED BY <1>1, <1>2, <2>1, <2>2 DEF NoneLater
<1>3. ASSUME NEW r \in Refreshes, req'[r].pc # "idle", req'[r].tok.of = s PROVE req'[r].tok.at <= row'[s].cur.at
  BY <1>1, <1>3, QuietTok DEF NoneLater
<1>. QED BY <1>2, <1>3 DEF NoneLater

LEMMA QuietRotates ==
  ASSUME Types, Quiet, NEW s \in Rows, s \notin Mixed', OneRotates(s)
  PROVE  OneRotates(s)'
<1>1. row'[s].cur = row[s].cur
  BY DEF Quiet
<1>2. ASSUME NEW r \in Refreshes, req'[r].pc = "rotate", req'[r].row = s
      PROVE  /\ req'[r].tok = row[s].cur
             /\ req'[r] = req[r] \/ \A q \in Refreshes : req'[q].pc = "rotate" /\ req'[q].row = s => q = r
  <2>1. CASE req'[r] = req[r]
    BY <1>2, <2>1 DEF OneRotates, Rotating
  <2>2. CASE req'[r] # req[r]
    BY <1>2, <2>2 DEF Quiet, Goes
  <2>. QED BY <2>1, <2>2
<1>3. ASSUME NEW r \in Refreshes, NEW q \in Refreshes,
             req'[r].pc = "rotate", req'[r].row = s, req'[q].pc = "rotate", req'[q].row = s
      PROVE  q = r
  <2>1. CASE req'[r] = req[r] /\ req'[q] = req[q]
    BY <1>3, <2>1 DEF OneRotates, Rotating
  <2>2. CASE req'[r] # req[r]
    BY <1>2, <1>3, <2>2
  <2>3. CASE req'[q] # req[q]
    BY <1>2, <1>3, <2>3
  <2>. QED BY <2>1, <2>2, <2>3
<1>. QED BY <1>1, <1>2, <1>3 DEF OneRotates, Rotating

\* What nobody has, nobody has after the step.
LEMMA QuietAlone ==
  ASSUME SessionsAssumption, Quiet, NEW s \in Rows, Issued(s), \A d \in Devices : cookie[d] # row[s].cur
  PROVE  /\ row'[s].cur = row[s].cur
         /\ \A d \in Devices : cookie'[d] # row[s].cur
         /\ \A r \in Refreshes : req'[r].pc # "idle" /\ req'[r].tok = row[s].cur =>
                                     req[r].pc # "idle" /\ req[r].tok = row[s].cur
<1>1. row'[s].cur = row[s].cur /\ row[s].cur # NoToken
  BY NoTokens DEF Quiet, Issued
<1>2. \A d \in Devices : cookie'[d] # row[s].cur
  BY <1>1 DEF Quiet
<1>3. ASSUME NEW r \in Refreshes, req'[r].pc # "idle", req'[r].tok = row[s].cur
      PROVE  req[r].pc # "idle" /\ req[r].tok = row[s].cur
  BY <1>3, QuietTok
<1>. QED BY <1>1, <1>2, <1>3

LEMMA QuietLoginAlone ==
  ASSUME SessionsAssumption, Quiet, NEW s \in Rows, Issued(s), LoginIsAlone(s)
  PROVE  LoginIsAlone(s)'
<1> SUFFICES ASSUME NEW i \in Logins, login'[i].pc = "reply", login'[i].tok.of = s
             PROVE  /\ login'[i].tok = row'[s].cur
                    /\ \A j \in Logins : login'[j].pc = "reply" /\ login'[j].tok.of = s => j = i
                    /\ \A d \in Devices : cookie'[d] # row'[s].cur
                    /\ \A r \in Refreshes : req'[r].pc # "idle" => req'[r].tok # row'[s].cur
  BY DEF LoginIsAlone
<1>1. \A j \in Logins : login'[j].pc = "reply" => login'[j] = login[j]
  BY DEF Quiet
<1>2. /\ login[i].tok = row[s].cur
      /\ \A j \in Logins : login[j].pc = "reply" /\ login[j].tok.of = s => j = i
      /\ \A d \in Devices : cookie[d] # row[s].cur
      /\ \A r \in Refreshes : req[r].pc # "idle" => req[r].tok # row[s].cur
  BY <1>1 DEF LoginIsAlone
<1>. QED BY <1>1, <1>2, QuietAlone

LEMMA QuietReplyAlone ==
  ASSUME SessionsAssumption, Quiet, NEW s \in Rows, Issued(s), ReplyIsAlone(s)
  PROVE  ReplyIsAlone(s)'
<1> SUFFICES ASSUME NEW r \in Refreshes, req'[r].pc = "reply", req'[r].tok.of = s
             PROVE  /\ req'[r].tok = row'[s].cur
                    /\ \A q \in Refreshes : req'[q].pc # "idle" /\ req'[q].tok = row'[s].cur => q = r
                    /\ \A d \in Devices : cookie'[d] # row'[s].cur
  BY DEF ReplyIsAlone
<1>1. req'[r] = req[r]
  BY QuietReply
<1>2. /\ req[r].tok = row[s].cur
      /\ \A q \in Refreshes : req[q].pc # "idle" /\ req[q].tok = row[s].cur => q = r
      /\ \A d \in Devices : cookie[d] # row[s].cur
  BY <1>1 DEF ReplyIsAlone
<1>. QED BY <1>1, <1>2, QuietAlone

LEMMA QuietKnown ==
  ASSUME SessionsAssumption, Quiet, NEW s \in Rows, CookieIsKnown(s)
  PROVE  CookieIsKnown(s)'
<1> SUFFICES ASSUME NEW d \in Devices, cookie'[d].of = s
             PROVE  \/ d \in cut'
                    \/ cookie'[d] = row'[s].cur
                    \/ /\ cookie'[d] = row'[s].prev
                       /\ \E r \in Refreshes : req'[r].pc = "reply" /\ req'[r].tok = row'[s].cur /\ req'[r].dev = d
  BY DEF CookieIsKnown
<1>1. cookie'[d] \in {cookie[d], NoToken} /\ row'[s].cur = row[s].cur /\ row'[s].prev = row[s].prev
  BY DEF Quiet
<1>2. NoToken.of # s
  BY NoneOf
<1>3. cookie'[d] = cookie[d]
  BY <1>1, <1>2
<1>4. CASE d \in cut
  BY <1>4 DEF Quiet
<1>5. CASE cookie[d] = row[s].cur
  BY <1>1, <1>3, <1>5
<1>6. ASSUME cookie[d] = row[s].prev, NEW r \in Refreshes, req[r].pc = "reply", req[r].tok = row[s].cur, req[r].dev = d
      PROVE  d \in cut' \/ (req'[r].pc = "reply" /\ req'[r].tok = row[s].cur /\ req'[r].dev = d)
  BY <1>6 DEF Quiet, Goes
<1>. QED BY <1>1, <1>3, <1>4, <1>5, <1>6 DEF CookieIsKnown

LEMMA QuietCounted ==
  ASSUME SessionsAssumption, Types, Quiet, RowsFit, ReqsFit, NEW s \in Rows, Issued(s),
         Counted(s), PrevIsOld(s), RevokedIsOld(s)
  PROVE  Counted(s)' /\ PrevIsOld(s)' /\ RevokedIsOld(s)'
<1>1. row'[s].cur = row[s].cur /\ row'[s].prev = row[s].prev /\ exchanged' = exchanged
  BY DEF Quiet
<1>2. ASSUME NEW t, t.of = s PROVE ExchangedIsOld(t) => exchanged'[t] = 1 /\ t.at < row'[t.of].cur.at
  BY <1>1, <1>2 DEF ExchangedIsOld
<1>3. Counted(s)'
  BY <1>1, <1>2 DEF Counted, ExchangedIsOld
<1>4. PrevIsOld(s)'
  BY <1>1, <1>2 DEF PrevIsOld, RowsFit, ExchangedIsOld
<1>5. ASSUME NEW r \in Refreshes, req'[r].pc = "revoke", req'[r].row = s
      PROVE  exchanged'[req'[r].tok] = 1 /\ req'[r].tok.at < row'[req'[r].tok.of].cur.at
  <2>1. CASE req'[r] = req[r]
    <3>1. ExchangedIsOld(req[r].tok) /\ req[r].tok.of = s
      BY <1>5, <2>1 DEF RevokedIsOld, ReqsFit
    <3>. QED BY <1>2, <2>1, <3>1
  <2>2. CASE req'[r] # req[r]
    <3>1. req[r].pc # "idle" /\ req'[r].tok = req[r].tok /\ req[r].tok = row[s].prev
      BY <1>5, <2>2 DEF Quiet, Goes
    <3>2. row[s].prev # NoToken
      BY <3>1, NoTokens DEF ReqsFit, Out
    <3>3. row[s].prev.of = s /\ ExchangedIsOld(row[s].prev)
      BY <3>2 DEF PrevIsOld, RowsFit
    <3>. QED BY <1>2, <3>1, <3>3
  <2>. QED BY <2>1, <2>2
<1>6. RevokedIsOld(s)'
  BY <1>5 DEF RevokedIsOld, ExchangedIsOld
<1>. QED BY <1>3, <1>4, <1>6

LEMMA QuietKeepsInv ==
  ASSUME SessionsAssumption, Inv, Types', Quiet
  PROVE  Inv'
<1> USE DEF Inv, Fits
<1>1. Fits'
  BY QuietRows, QuietCookies, QuietLogins, QuietReqs, QuietUpdates
<1>2. OneDevice' /\ Unused' /\ PlaceholderIsClaimed'
  BY QuietDevice, QuietUnused, QuietPlaceholder
<1>3. ASSUME NEW s \in Rows, Clean(s)' PROVE Ordered(s)'
  <2>1. Clean(s) /\ Issued(s) /\ s \notin Mixed'
    BY <1>3, QuietClean DEF Clean
  <2>2. Ordered(s)
    BY <2>1
  <2>. QED BY <2>1, <2>2, QuietNoneLater, QuietRotates, QuietLoginAlone, QuietReplyAlone, QuietKnown, QuietCounted DEF Ordered
<1>. QED BY <1>1, <1>2, <1>3

-----------------------------------------------------------------------------
(* A step that moves the tokens of another session.                         *)
LEMMA Elsewhere ==
  ASSUME Fits, Fits', NEW u \in Rows, Issued(u), Ordered(u), row'[u] = row[u],
         \A d \in Devices : cookie'[d].of = u => cookie'[d] = cookie[d] /\ (d \in cut => d \in cut'),
         \A i \in Logins : login'[i].pc = "reply" /\ login'[i].tok.of = u => login'[i] = login[i],
         \A r \in Refreshes : req'[r].pc # "idle" /\ req'[r].tok.of = u => req'[r] = req[r],
         \A r \in Refreshes : req[r].pc = "reply" /\ req[r].tok.of = u => req'[r] = req[r],
         \A t \in Tokens : t.of = u => exchanged'[t] = exchanged[t]
  PROVE  Ordered(u)'
<1> USE DEF Ordered
<1>1. NoneLater(u)'
  BY DEF NoneLater
<1>2. OneRotates(u)'
  <2>1. \A q \in Refreshes : req'[q].pc = "rotate" /\ req'[q].row = u => req'[q] = req[q]
    BY DEF Fits, ReqsFit
  <2>. QED BY <2>1 DEF OneRotates, Rotating
<1>3. row[u].cur.of = u
  BY DEF Fits, RowsFit
<1>4. LoginIsAlone(u)' /\ ReplyIsAlone(u)'
  BY <1>3 DEF LoginIsAlone, ReplyIsAlone
<1>5. CookieIsKnown(u)'
  BY <1>3 DEF CookieIsKnown
<1>6. Counted(u)'
  BY DEF Counted, ExchangedIsOld
<1>7. PrevIsOld(u)'
  BY DEF PrevIsOld, ExchangedIsOld, Fits, RowsFit, Types, RowRec
<1>8. RevokedIsOld(u)'
  <2>1. \A r \in Refreshes : req'[r].pc = "revoke" /\ req'[r].row = u =>
          req'[r] = req[r] /\ req[r].tok.of = u /\ req[r].tok \in Tokens
    BY DEF Fits, ReqsFit, Out
  <2>. QED BY <2>1 DEF RevokedIsOld, ExchangedIsOld
<1>. QED BY <1>1, <1>2, <1>4, <1>5, <1>6, <1>7, <1>8

-----------------------------------------------------------------------------
(* A login makes a row.                                                     *)
Makes(i, d, s) ==
    /\ login[i].pc \in {"idle", "create"} /\ row[s].state = "none"
    /\ row'[s].state = "fresh" /\ row'[s].cur = Pending /\ row'[s].prev = NoToken
    /\ \A u \in Rows \ {s} : row'[u] = row[u]
    /\ login'[i].pc = "update" /\ login'[i].dev = d /\ login'[i].row = s
    /\ \A j \in Logins \ {i} : login'[j] = login[j]
    /\ \A u \in Rows : row[u].cur # Pending
    /\ UNCHANGED <<cookie, req, now, exchanged, twins, same, cut, left>>

LEMMA CreateIs ==
  ASSUME SessionsAssumption, Types, NEW i \in Logins, NEW d \in Devices, Create(i, d)
  PROVE  Types' /\ (Quiet \/ \E s \in Rows : Makes(i, d, s))
<1>1. UNCHANGED <<cookie, req, now, exchanged, twins, same, cut, left>> /\ login[i].pc \in {"idle", "create"}
  BY DEF Create, Starts, seen
<1>2. CASE \E s \in Rows : row[s].cur = Pending
  <2>1. ToLogin(i, Idle) /\ row' = row
    BY <1>2 DEF Create
  <2>2. login' \in [Logins -> LoginRec]
    BY <2>1, IdleTypes, LoginTypes
  <2>3. Types'
    BY <1>1, <2>1, <2>2 DEF Types
  <2>4. Quiet
    BY <1>1, <2>1, IdleTypes, IdlePc, QuietLogin
  <2>. QED BY <2>3, <2>4
<1>3. CASE ~\E s \in Rows : row[s].cur = Pending
  <2>1. PICK s \in Rows :
          /\ row[s].state = "none"
          /\ row' = [row EXCEPT ![s] = [NoSession EXCEPT !.state = "fresh", !.cur = Pending]]
          /\ ToLogin(i, [Idle EXCEPT !.pc = "update", !.dev = d, !.row = s])
    BY <1>3 DEF Create
  <2>2. PICK rec \in LoginRec : ToLogin(i, rec) /\ rec.pc = "update" /\ rec.dev = d /\ rec.row = s
    <3> DEFINE rec == [Idle EXCEPT !.pc = "update", !.dev = d, !.row = s]
    <3>1. rec \in LoginRec /\ rec.pc = "update" /\ rec.dev = d /\ rec.row = s
      BY CreateRecs
    <3>2. ToLogin(i, rec)
      BY <2>1
    <3> HIDE DEF rec
    <3>. QED BY <3>1, <3>2
  <2>3. PICK new \in RowRec : /\ row' = [row EXCEPT ![s] = new]
                              /\ new.state = "fresh" /\ new.cur = Pending /\ new.prev = NoToken
    BY <2>1, PlaceholderRow
  <2>4. row' \in [Rows -> RowRec] /\ row'[s] = new /\ \A u \in Rows \ {s} : row'[u] = row[u]
    BY <2>3 DEF Types
  <2>5. login' \in [Logins -> LoginRec] /\ login'[i] = rec /\ \A j \in Logins \ {i} : login'[j] = login[j]
    BY <2>2, LoginTypes
  <2>6. Types'
    BY <1>1, <2>4, <2>5 DEF Types
  <2>7. Makes(i, d, s)
    BY <1>1, <1>3, <2>1, <2>2, <2>3, <2>4, <2>5 DEF Makes
  <2>. QED BY <2>6, <2>7
<1>. QED BY <1>2, <1>3

\* Nobody holds a token of a session that has none.
LEMMA NobodyHolds ==
  ASSUME SessionsAssumption, Fits, NEW s \in Rows, ~Issued(s)
  PROVE  /\ \A d \in Devices : cookie[d].of # s
         /\ \A r \in Refreshes : req[r].pc # "idle" => req[r].tok.of # s
         /\ \A i \in Logins : login[i].pc = "reply" => login[i].tok.of # s /\ login[i].row # s
         /\ row[s].prev = NoToken
<1>1. \A d \in Devices : cookie[d].of # s
  BY NoneOf DEF Fits, CookiesFit, Out
<1>2. \A r \in Refreshes : req[r].pc # "idle" => req[r].tok.of # s
  BY DEF Fits, ReqsFit, Out
<1>3. \A i \in Logins : login[i].pc = "reply" => login[i].tok.of # s /\ login[i].row # s
  BY DEF Fits, LoginsFit, Out
<1>. QED BY <1>1, <1>2, <1>3 DEF Fits, RowsFit

LEMMA CreateKeepsInv ==
  ASSUME SessionsAssumption, Inv, Types', NEW i \in Logins, NEW d \in Devices, NEW s \in Rows, Makes(i, d, s)
  PROVE  Inv'
<1> USE DEF Inv
<1>1. /\ \A u \in Rows \ {s} : row'[u] = row[u] /\ (Issued(u)' <=> Issued(u))
      /\ \A j \in Logins \ {i} : login'[j] = login[j]
      /\ UNCHANGED <<cookie, req, now, exchanged, twins, same, cut, left>>
  BY DEF Makes, Issued
<1>2. ~Issued(s) /\ ~Issued(s)' /\ Pending # NoToken
  BY NoTokens DEF Makes, Fits, RowsFit, Issued
<1>3. /\ \A c \in Devices : cookie[c].of # s
      /\ \A r \in Refreshes : req[r].pc # "idle" => req[r].tok.of # s
      /\ \A j \in Logins : login[j].pc = "reply" => login[j].tok.of # s /\ login[j].row # s
  BY <1>2, NobodyHolds
<1>4. \A t : Out(t) => OutThen(t)
  BY <1>1, <1>2, NoTokens DEF Out, OutThen, Issued
<1>5. RowsFit'
  BY <1>1, <1>2 DEF Fits, RowsFit, Makes
<1>6. CookiesFit'
  BY <1>1, <1>4 DEF Fits, CookiesFit, Out, OutThen, Issued
<1>7. \A j \in Logins : login[j].pc = "update" => login[j].row # s
  BY <1>2 DEF Fits, LoginsFit, Makes
<1>8. LoginsFit'
  <2>1. ASSUME NEW j \in Logins
        PROVE  /\ login'[j].pc # "idle" => login'[j].dev \in Devices
               /\ login'[j].pc = "update" => login'[j].row \in Rows /\ row'[login'[j].row].cur = Pending
               /\ login'[j].pc = "reply" => OutThen(login'[j].tok) /\ login'[j].row = login'[j].tok.of
    <3>1. CASE j = i
      BY <3>1 DEF Makes
    <3>2. CASE j # i
      BY <3>2, <1>1, <1>4, <1>7 DEF Fits, LoginsFit
    <3>. QED BY <3>1, <3>2
  <2>. QED BY <2>1 DEF LoginsFit, Out, OutThen, Issued
<1>9. ReqsFit'
  BY <1>1, <1>4 DEF Fits, ReqsFit, Out, OutThen, Issued
<1>10. OneUpdate'
  BY <1>1, <1>7 DEF Fits, OneUpdate, Makes
<1>11. OneDevice'
  <2>1. \A c \in Holders(s)' : c = d
    BY <1>1, <1>3, <1>7 DEF Holders, Makes
  <2>2. \A u \in Rows \ {s} : Holders(u)' \subseteq Holders(u)
    BY <1>1 DEF Holders, Makes
  <2>. QED BY <2>1, <2>2 DEF OneDevice
<1>12. Unused'
  BY <1>1, <1>2, NoTokens DEF Unused
<1>13. PlaceholderIsClaimed'
  BY <1>1 DEF PlaceholderIsClaimed, Makes
<1>14. Fits'
  BY <1>5, <1>6, <1>8, <1>9, <1>10 DEF Fits
<1>15. ASSUME NEW u \in Rows, Clean(u)' PROVE Ordered(u)'
  <2>1. u # s /\ Issued(u) /\ Ordered(u)
    BY <1>1, <1>2, <1>15 DEF Clean, Mixed
  <2>. QED BY <1>1, <1>14, <2>1, Elsewhere DEF Makes
<1>. QED BY <1>11, <1>12, <1>13, <1>15, <1>14

-----------------------------------------------------------------------------
(* A login signs its session's first token.                                 *)
Updates(i, s, t) ==
    /\ login[i].pc = "update" /\ login[i].row = s /\ t \in Tokens /\ t.of = s /\ t.at = now
    /\ row'[s].cur = t /\ row'[s].prev = row[s].prev /\ row'[s].state = row[s].state
    /\ \A u \in Rows \ {s} : row'[u] = row[u]
    /\ login'[i].pc = "reply" /\ login'[i].dev = login[i].dev /\ login'[i].row = s /\ login'[i].tok = t
    /\ \A j \in Logins \ {i} : login'[j] = login[j]
    /\ UNCHANGED <<cookie, req, now, exchanged, twins, same, cut, left>>

LEMMA UpdateIs ==
  ASSUME SessionsAssumption, Fits, NEW i \in Logins, Update(i)
  PROVE  Types' /\ \E s \in Rows, t \in Tokens : Updates(i, s, t)
<1> DEFINE s == login[i].row
           t == Signed(s)
<1>1. s \in Rows /\ login[i].pc = "update"
  BY DEF Update, Fits, LoginsFit
<1>2. t \in Tokens /\ t.of = s /\ t.at = now
  BY <1>1, SignedIs DEF Fits, Types
<1>3. row' = [row EXCEPT ![s].cur = t] /\ ToLogin(i, [login[i] EXCEPT !.pc = "reply", !.tok = t])
  BY DEF Update
<1>4. UNCHANGED <<cookie, req, now, exchanged, twins, same, cut, left>>
  BY DEF Update, seen
<1>5. row[s] \in RowRec /\ login[i] \in LoginRec
  BY <1>1 DEF Fits, Types
<1> HIDE DEF t
<1>6. PICK rec \in LoginRec :
        /\ ToLogin(i, rec) /\ rec.pc = "reply" /\ rec.dev = login[i].dev /\ rec.tok = t /\ rec.row = s
  <2> DEFINE rec == [login[i] EXCEPT !.pc = "reply", !.tok = t]
  <2>1. rec \in LoginRec /\ rec.pc = "reply" /\ rec.dev = login[i].dev /\ rec.tok = t /\ rec.row = s
    BY <1>2, <1>5, UpdateRec
  <2>2. ToLogin(i, rec)
    BY <1>3
  <2> HIDE DEF rec
  <2>. QED BY <2>1, <2>2
<1>7. login' \in [Logins -> LoginRec] /\ login'[i] = rec /\ \A j \in Logins \ {i} : login'[j] = login[j]
  BY <1>6, LoginTypes DEF Fits
<1>8. /\ row' \in [Rows -> RowRec] /\ \A u \in Rows \ {s} : row'[u] = row[u]
      /\ row'[s].cur = t /\ row'[s].prev = row[s].prev /\ row'[s].state = row[s].state
  <2> DEFINE new == [row[s] EXCEPT !.cur = t]
  <2>1. new \in RowRec /\ new.cur = t /\ new.prev = row[s].prev /\ new.state = row[s].state
    BY <1>2, <1>5 DEF RowRec
  <2>2. row' = [row EXCEPT ![s] = new]
    BY <1>3
  <2> HIDE DEF new
  <2>. QED BY <1>1, <2>1, <2>2 DEF Fits, Types
<1>9. Types'
  BY <1>4, <1>7, <1>8 DEF Fits, Types
<1>10. Updates(i, s, t)
  BY <1>1, <1>2, <1>4, <1>6, <1>7, <1>8 DEF Updates
<1>. QED BY <1>1, <1>2, <1>9, <1>10

LEMMA UpdateKeepsInv ==
  ASSUME SessionsAssumption, Inv, Types', NEW i \in Logins, NEW s \in Rows, NEW t \in Tokens, Updates(i, s, t)
  PROVE  Inv'
<1> USE DEF Inv
<1>1. /\ \A u \in Rows \ {s} : row'[u] = row[u] /\ (Issued(u)' <=> Issued(u))
      /\ \A j \in Logins \ {i} : login'[j] = login[j]
      /\ UNCHANGED <<cookie, req, now, exchanged, twins, same, cut, left>>
  BY DEF Updates, Issued
<1>2. ~Issued(s) /\ Issued(s)' /\ row[s].cur # NoToken
  BY NoTokens DEF Updates, Fits, LoginsFit, Issued
<1>3. /\ \A c \in Devices : cookie[c].of # s
      /\ \A r \in Refreshes : req[r].pc # "idle" => req[r].tok.of # s
      /\ \A j \in Logins : login[j].pc = "reply" => login[j].tok.of # s /\ login[j].row # s
      /\ row[s].prev = NoToken
  BY <1>2, NobodyHolds
<1>4. \A x : Out(x) => OutThen(x)
  BY <1>1, <1>2, NoTokens DEF Out, OutThen, Issued
<1>5. RowsFit'
  <2>1. ASSUME NEW u \in Rows, u # s
        PROVE  /\ row'[u].cur # NoToken => row'[u].state # "none"
               /\ row'[u].cur \in Tokens => row'[u].cur.of = u /\ row'[u].cur.at <= now'
               /\ row'[u].prev # NoToken => row'[u].cur \in Tokens /\ row'[u].prev.of = u /\ row'[u].prev.at <= now'
    BY <1>1, <2>1 DEF Fits, RowsFit, Issued
  <2>2. row'[s].state # "none" /\ row'[s].cur.of = s /\ row'[s].cur.at <= now' /\ row'[s].prev = NoToken
    BY <1>1, <1>2, <1>3 DEF Updates, Fits, RowsFit, Types, Seconds
  <2>. QED BY <2>1, <2>2 DEF RowsFit, Issued
<1>6. CookiesFit'
  BY <1>1, <1>4 DEF Fits, CookiesFit, Out, OutThen, Issued
<1>7. \A j \in Logins : login'[j].pc = "update" => login[j] = login'[j] /\ j # i /\ login[j].row # s
  BY DEF Fits, OneUpdate, Updates
<1>8. LoginsFit'
  <2>1. ASSUME NEW j \in Logins
        PROVE  /\ login'[j].pc # "idle" => login'[j].dev \in Devices
               /\ login'[j].pc = "update" => login'[j].row \in Rows /\ row'[login'[j].row].cur = Pending
               /\ login'[j].pc = "reply" => OutThen(login'[j].tok) /\ login'[j].row = login'[j].tok.of
    <3>1. CASE j = i
      <4>1. login[i].dev \in Devices
        BY DEF Updates, Fits, LoginsFit
      <4>2. OutThen(t)
        BY <1>1, <1>2 DEF Updates, OutThen, Issued, Fits, Types, Seconds
      <4>. QED BY <3>1, <4>1, <4>2 DEF Updates
    <3>2. CASE j # i
      BY <3>2, <1>1, <1>4, <1>7 DEF Fits, LoginsFit
    <3>. QED BY <3>1, <3>2
  <2>. QED BY <2>1 DEF LoginsFit, Out, OutThen, Issued
<1>9. ReqsFit'
  BY <1>1, <1>4 DEF Fits, ReqsFit, Out, OutThen, Issued
<1>10. OneUpdate'
  BY <1>7 DEF Fits, OneUpdate
<1>11. OneDevice'
  <2>1. \A u \in Rows : Holders(u)' \subseteq Holders(u)
    BY <1>1 DEF Holders, Updates
  <2>. QED BY <2>1 DEF OneDevice
<1>12. Unused'
  BY <1>1, <1>2, NoTokens DEF Unused
<1>13. PlaceholderIsClaimed'
  <2>1. ASSUME NEW u \in Rows, row'[u].cur = Pending
        PROVE  u \in left \/ \E j \in Logins : login'[j].pc = "update" /\ login'[j].row = u
    <3>1. u # s /\ row[u].cur = Pending
      BY <1>1, <1>2, <2>1, NoTokens DEF Issued
    <3>. QED BY <1>1, <3>1 DEF PlaceholderIsClaimed, Updates
  <2>. QED BY <1>1, <2>1 DEF PlaceholderIsClaimed
<1>14. Fits'
  BY <1>5, <1>6, <1>8, <1>9, <1>10 DEF Fits
<1>15. ASSUME NEW u \in Rows, u # s, Clean(u)' PROVE Ordered(u)'
  <2>1. Issued(u) /\ Ordered(u)
    BY <1>1, <1>15 DEF Clean, Mixed
  <2>. QED BY <1>1, <1>14, <1>15, <2>1, Elsewhere DEF Updates
<1>16. Ordered(s)'
  <2>1. NoneLater(s)' /\ CookieIsKnown(s)' /\ ReplyIsAlone(s)'
    BY <1>1, <1>3 DEF NoneLater, CookieIsKnown, ReplyIsAlone
  <2>2. OneRotates(s)' /\ RevokedIsOld(s)'
    BY <1>1, <1>3 DEF OneRotates, Rotating, RevokedIsOld, Fits, ReqsFit
  <2>3. LoginIsAlone(s)'
    BY <1>1, <1>3 DEF LoginIsAlone, Updates
  <2>4. Counted(s)' /\ PrevIsOld(s)'
    BY <1>1, <1>2, <1>3 DEF Counted, PrevIsOld, Unused, Updates
  <2>. QED BY <2>1, <2>2, <2>3, <2>4 DEF Ordered
<1>. QED BY <1>11, <1>12, <1>13, <1>14, <1>15, <1>16

-----------------------------------------------------------------------------
(* A device gets the token of a login or of a refresh.                      *)
Delivers(d, t) ==
    /\ cookie'[d] = t /\ Out(t) /\ \A c \in Devices \ {d} : cookie'[c] = cookie[c]
    /\ UNCHANGED <<row, now, exchanged, twins, same, left>>

LEMMA DeliversIs ==
  ASSUME Types, NEW d \in Devices, NEW t \in Tokens, cookie' = [cookie EXCEPT ![d] = t]
  PROVE  cookie' \in [Devices -> Tokens \cup {NoToken}] /\ cookie'[d] = t /\ \A c \in Devices \ {d} : cookie'[c] = cookie[c]
  BY DEF Types

LEMMA LoginReplyIs ==
  ASSUME SessionsAssumption, Fits, NEW i \in Logins, LoginReply(i)
  PROVE  /\ login[i].pc = "reply" /\ login[i].dev \in Devices /\ login[i].row = login[i].tok.of
         /\ Types' /\ Delivers(login[i].dev, login[i].tok) /\ cut' = cut \ {login[i].dev} /\ req' = req
         /\ login'[i].pc = "idle" /\ \A j \in Logins \ {i} : login'[j] = login[j]
<1>1. /\ login[i].pc = "reply" /\ login[i].dev \in Devices /\ login[i].row = login[i].tok.of
      /\ Out(login[i].tok) /\ login[i].tok \in Tokens
  BY DEF LoginReply, Fits, LoginsFit, Out
<1>2. /\ login' \in [Logins -> LoginRec] /\ login'[i].pc = "idle"
      /\ \A j \in Logins \ {i} : login'[j] = login[j]
  BY LoginTypes, IdleTypes, IdlePc DEF LoginReply, Fits
<1>3. /\ cookie' \in [Devices -> Tokens \cup {NoToken}] /\ cookie'[login[i].dev] = login[i].tok
      /\ \A c \in Devices \ {login[i].dev} : cookie'[c] = cookie[c]
  BY <1>1, DeliversIs DEF LoginReply, Fits
<1>. QED BY <1>1, <1>2, <1>3 DEF LoginReply, Delivers, Fits, Types

LEMMA RefreshReplyIs ==
  ASSUME SessionsAssumption, Fits, NEW r \in Refreshes, RefreshReply(r)
  PROVE  /\ req[r].pc = "reply" /\ req[r].dev \in Devices
         /\ Types' /\ Delivers(req[r].dev, req[r].tok) /\ cut' = cut /\ login' = login
         /\ req'[r].pc = "idle" /\ \A q \in Refreshes \ {r} : req'[q] = req[q]
<1>1. req[r].pc = "reply" /\ req[r].dev \in Devices /\ Out(req[r].tok) /\ req[r].tok \in Tokens
  BY DEF RefreshReply, Fits, ReqsFit, Out
<1>2. /\ req' \in [Refreshes -> ReqRec] /\ req'[r].pc = "idle"
      /\ \A q \in Refreshes \ {r} : req'[q] = req[q]
  BY ReqTypes, IdleTypes, IdlePc DEF RefreshReply, Fits
<1>3. /\ cookie' \in [Devices -> Tokens \cup {NoToken}] /\ cookie'[req[r].dev] = req[r].tok
      /\ \A c \in Devices \ {req[r].dev} : cookie'[c] = cookie[c]
  BY <1>1, DeliversIs DEF RefreshReply, Fits
<1>. QED BY <1>1, <1>2, <1>3 DEF RefreshReply, Delivers, Fits, Types, seen

\* The rows and the cookies fit after a delivery.
LEMMA DeliveryFits ==
  ASSUME Fits, NEW d \in Devices, NEW t, Delivers(d, t)
  PROVE  RowsFit' /\ CookiesFit' /\ (Unused => Unused')
<1>1. RowsFit'
  BY DEF Delivers, Fits, RowsFit, Issued
<1>2. CookiesFit'
  BY DEF Delivers, Fits, CookiesFit, Out, Issued
<1>3. Unused => Unused'
  BY DEF Delivers, Unused, Issued
<1>. QED BY <1>1, <1>2, <1>3

\* A token that only its device can have: nobody else holds one of its session.
LEMMA OnlyHolder ==
  ASSUME OneDevice, NEW s \in Rows, NEW d \in Holders(s), NEW c \in Devices, cookie[c].of = s
  PROVE  c = d
  BY DEF OneDevice, Holders

LEMMA LoginReplyKeepsInv ==
  ASSUME SessionsAssumption, Inv, NEW i \in Logins, LoginReply(i)
  PROVE  Types' /\ Inv'
<1> USE DEF Inv
<1>0. PICK d \in Devices, t \in Tokens, s \in Rows : d = login[i].dev /\ t = login[i].tok /\ s = t.of
  BY LoginReplyIs, NoTokens DEF Delivers, Out
<1>1. /\ login[i].pc = "reply" /\ d \in Devices /\ login[i].row = s
      /\ Types' /\ Delivers(d, t) /\ cut' = cut \ {d} /\ req' = req
      /\ login'[i].pc = "idle" /\ \A j \in Logins \ {i} : login'[j] = login[j]
  BY <1>0, LoginReplyIs
<1>2. Issued(s) /\ d \in Holders(s)
  BY <1>0, <1>1 DEF Delivers, Out, Holders
<1>3. RowsFit' /\ CookiesFit' /\ Unused'
  BY <1>0, <1>1, DeliveryFits
<1>4. LoginsFit'
  <2>1. \A x : Out(x) => OutThen(x)
    BY <1>0, <1>1 DEF Out, OutThen, Issued, Delivers
  <2>2. ASSUME NEW j \in Logins
        PROVE  /\ login'[j].pc # "idle" => login'[j].dev \in Devices
               /\ login'[j].pc = "update" => login'[j].row \in Rows /\ row'[login'[j].row].cur = Pending
               /\ login'[j].pc = "reply" => OutThen(login'[j].tok) /\ login'[j].row = login'[j].tok.of
    BY <1>0, <1>1, <2>1 DEF Fits, LoginsFit, Delivers
  <2>. QED BY <2>2 DEF LoginsFit, Out, OutThen, Issued
<1>5. ReqsFit' /\ OneUpdate'
  BY <1>0, <1>1 DEF Fits, ReqsFit, OneUpdate, Delivers, Out, Issued
<1>6. Fits'
  BY <1>0, <1>1, <1>3, <1>4, <1>5 DEF Fits
<1>7. OneDevice'
  <2>1. \A u \in Rows : Holders(u)' \subseteq Holders(u)
    BY <1>0, <1>1, <1>2 DEF Holders, Delivers
  <2>. QED BY <2>1 DEF OneDevice
<1>8. PlaceholderIsClaimed'
  BY <1>0, <1>1 DEF PlaceholderIsClaimed, Delivers
<1>9. ASSUME NEW u \in Rows, u # s, Clean(u)' PROVE Ordered(u)'
  <2>1. row'[u] = row[u] /\ Issued(u) /\ Ordered(u) /\ exchanged' = exchanged
    BY <1>0, <1>1, <1>9 DEF Clean, Mixed, Delivers, Issued
  <2>2. \A c \in Devices : cookie'[c].of = u => cookie'[c] = cookie[c] /\ (c \in cut => c \in cut')
    BY <1>0, <1>1, <1>9 DEF Delivers
  <2>3. \A j \in Logins : login'[j].pc = "reply" /\ login'[j].tok.of = u => login'[j] = login[j]
    BY <1>0, <1>1
  <2>. QED BY <1>0, <1>1, <1>6, <2>1, <2>2, <2>3, Elsewhere
<1>10. ASSUME Clean(s)' PROVE Ordered(s)'
  <2>1. row' = row /\ exchanged' = exchanged /\ Ordered(s)
    BY <1>0, <1>1, <1>2, <1>10 DEF Clean, Mixed, Delivers, Issued
  <2>2. /\ t = row[s].cur
        /\ \A j \in Logins : login[j].pc = "reply" /\ login[j].tok.of = s => j = i
        /\ \A r \in Refreshes : req[r].pc # "idle" => req[r].tok # row[s].cur
    BY <1>0, <1>1, <2>1 DEF Ordered, LoginIsAlone
  <2>3. \A c \in Devices : cookie'[c].of = s => c = d /\ cookie'[c] = row'[s].cur
    <3>1. \A c \in Devices \ {d} : cookie'[c] = cookie[c]
      BY <1>1 DEF Delivers
    <3>2. \A c \in Devices : cookie[c].of = s => c = d
      BY <1>2, OnlyHolder
    <3>3. cookie'[d] = row'[s].cur
      BY <1>0, <1>1, <2>1, <2>2 DEF Delivers
    <3>. QED BY <3>1, <3>2, <3>3
  <2>4. row[s].cur.at \in Nat
    BY <1>2, <2>2, NoTokens
  <2>5. NoneLater(s)' /\ CookieIsKnown(s)'
    <3>1. CookieIsKnown(s)'
      BY <2>3 DEF CookieIsKnown
    <3>2. ASSUME NEW q \in Refreshes, req'[q].pc # "idle", req'[q].tok.of = s
          PROVE  req'[q].tok.at <= row[s].cur.at
      BY <1>1, <2>1, <3>2 DEF Ordered, NoneLater
    <3>3. NoneLater(s)'
      BY <2>1, <2>3, <2>4, <3>2 DEF NoneLater
    <3>. QED BY <3>1, <3>3
  <2>6. OneRotates(s)' /\ Counted(s)' /\ PrevIsOld(s)' /\ RevokedIsOld(s)'
    <3>1. OneRotates(s)'
      BY <1>1, <2>1 DEF Ordered, OneRotates, Rotating
    <3>2. Counted(s)' /\ PrevIsOld(s)'
      BY <2>1 DEF Ordered, Counted, PrevIsOld, ExchangedIsOld
    <3>3. RevokedIsOld(s)'
      BY <1>1, <2>1 DEF Ordered, RevokedIsOld, ExchangedIsOld
    <3>. QED BY <3>1, <3>2, <3>3
  <2>7. LoginIsAlone(s)'
    BY <1>0, <1>1, <2>2 DEF LoginIsAlone
  <2>8. ReplyIsAlone(s)'
    BY <1>0, <1>1, <2>1, <2>2 DEF Ordered, ReplyIsAlone
  <2>. QED BY <2>5, <2>6, <2>7, <2>8 DEF Ordered
<1>. QED BY <1>1, <1>2, <1>3, <1>6, <1>7, <1>8, <1>9, <1>10

LEMMA RefreshReplyKeepsInv ==
  ASSUME SessionsAssumption, Inv, NEW r \in Refreshes, RefreshReply(r)
  PROVE  Types' /\ Inv'
<1> USE DEF Inv
<1>0. PICK d \in Devices, t \in Tokens, s \in Rows : d = req[r].dev /\ t = req[r].tok /\ s = t.of
  BY RefreshReplyIs, NoTokens DEF Delivers, Out
<1>1. /\ req[r].pc = "reply" /\ d \in Devices
      /\ Types' /\ Delivers(d, t) /\ cut' = cut /\ login' = login
      /\ req'[r].pc = "idle" /\ \A q \in Refreshes \ {r} : req'[q] = req[q]
  BY <1>0, RefreshReplyIs
<1>2. Issued(s) /\ d \in Holders(s)
  BY <1>0, <1>1 DEF Delivers, Out, Holders
<1>3. RowsFit' /\ CookiesFit' /\ Unused'
  BY <1>0, <1>1, DeliveryFits
<1>4. LoginsFit' /\ OneUpdate'
  BY <1>0, <1>1 DEF Fits, LoginsFit, OneUpdate, Delivers, Out, Issued
<1>5. ReqsFit'
  <2>1. \A x : Out(x) => OutThen(x)
    BY <1>0, <1>1 DEF Out, OutThen, Issued, Delivers
  <2>2. ASSUME NEW q \in Refreshes
        PROVE  /\ req'[q].pc # "idle" => req'[q].dev \in Devices /\ OutThen(req'[q].tok)
               /\ req'[q].pc \in {"revoke", "rotate"} => req'[q].row = req'[q].tok.of
    BY <1>0, <1>1, <2>1 DEF Fits, ReqsFit
  <2>. QED BY <2>2 DEF ReqsFit, Out, OutThen, Issued
<1>6. Fits'
  BY <1>0, <1>1, <1>3, <1>4, <1>5 DEF Fits
<1>7. OneDevice'
  <2>1. \A u \in Rows : Holders(u)' \subseteq Holders(u)
    BY <1>0, <1>1, <1>2 DEF Holders, Delivers
  <2>. QED BY <2>1 DEF OneDevice
<1>8. PlaceholderIsClaimed'
  BY <1>0, <1>1 DEF PlaceholderIsClaimed, Delivers
<1>9. ASSUME NEW u \in Rows, u # s, Clean(u)' PROVE Ordered(u)'
  <2>1. row'[u] = row[u] /\ Issued(u) /\ Ordered(u) /\ exchanged' = exchanged
    BY <1>0, <1>1, <1>9 DEF Clean, Mixed, Delivers, Issued
  <2>2. \A c \in Devices : cookie'[c].of = u => cookie'[c] = cookie[c] /\ (c \in cut => c \in cut')
    BY <1>0, <1>1, <1>9 DEF Delivers
  <2>3. \A q \in Refreshes : req'[q].pc # "idle" /\ req'[q].tok.of = u => req'[q] = req[q]
    BY <1>0, <1>1
  <2>4. \A q \in Refreshes : req[q].pc = "reply" /\ req[q].tok.of = u => req'[q] = req[q]
    BY <1>0, <1>1, <1>9
  <2>. QED BY <1>0, <1>1, <1>6, <2>1, <2>2, <2>3, <2>4, Elsewhere
<1>10. ASSUME Clean(s)' PROVE Ordered(s)'
  <2>1. row' = row /\ exchanged' = exchanged /\ Ordered(s)
    BY <1>0, <1>1, <1>2, <1>10 DEF Clean, Mixed, Delivers, Issued
  <2>2. t = row[s].cur /\ \A q \in Refreshes : req[q].pc # "idle" /\ req[q].tok = row[s].cur => q = r
    BY <1>0, <1>1, <2>1 DEF Ordered, ReplyIsAlone
  <2>3. \A c \in Devices : cookie'[c].of = s => c = d /\ cookie'[c] = row'[s].cur
    <3>1. \A c \in Devices \ {d} : cookie'[c] = cookie[c]
      BY <1>1 DEF Delivers
    <3>2. \A c \in Devices : cookie[c].of = s => c = d
      BY <1>2, OnlyHolder
    <3>3. cookie'[d] = row'[s].cur
      BY <1>0, <1>1, <2>1, <2>2 DEF Delivers
    <3>. QED BY <3>1, <3>2, <3>3
  <2>4. row[s].cur.at \in Nat
    BY <1>2, <2>2, NoTokens
  <2>5. NoneLater(s)' /\ CookieIsKnown(s)'
    <3>1. CookieIsKnown(s)'
      BY <2>3 DEF CookieIsKnown
    <3>2. ASSUME NEW q \in Refreshes, req'[q].pc # "idle", req'[q].tok.of = s
          PROVE  req'[q].tok.at <= row[s].cur.at
      BY <1>1, <2>1, <3>2 DEF Ordered, NoneLater
    <3>3. NoneLater(s)'
      BY <2>1, <2>3, <2>4, <3>2 DEF NoneLater
    <3>. QED BY <3>1, <3>3
  <2>6. OneRotates(s)' /\ Counted(s)' /\ PrevIsOld(s)' /\ RevokedIsOld(s)'
    <3>1. OneRotates(s)'
      BY <1>1, <2>1 DEF Ordered, OneRotates, Rotating
    <3>2. Counted(s)' /\ PrevIsOld(s)'
      BY <2>1 DEF Ordered, Counted, PrevIsOld, ExchangedIsOld
    <3>3. RevokedIsOld(s)'
      BY <1>1, <2>1 DEF Ordered, RevokedIsOld, ExchangedIsOld
    <3>. QED BY <3>1, <3>2, <3>3
  <2>7. LoginIsAlone(s)'
    <3>1. \A j \in Logins : ~(login[j].pc = "reply" /\ login[j].tok.of = s)
      BY <1>0, <1>1, <2>1, <2>2 DEF Ordered, LoginIsAlone
    <3>. QED BY <1>0, <1>1, <3>1 DEF LoginIsAlone
  <2>8. ReplyIsAlone(s)'
    <3>1. \A q \in Refreshes : ~(req'[q].pc = "reply" /\ req'[q].tok.of = s)
      BY <1>0, <1>1, <2>1, <2>2 DEF Ordered, ReplyIsAlone
    <3>. QED BY <3>1 DEF ReplyIsAlone
  <2>. QED BY <2>5, <2>6, <2>7, <2>8 DEF Ordered
<1>. QED BY <1>1, <1>2, <1>3, <1>6, <1>7, <1>8, <1>9, <1>10

-----------------------------------------------------------------------------
(* A refresh signs its session's next token.                                *)
Rotates(r, s, t) ==
    /\ req[r].pc = "rotate" /\ req[r].row = s /\ t \in Tokens /\ t.of = s /\ t.at = now
    /\ row'[s].cur = t /\ row'[s].prev = req[r].tok /\ row'[s].state # "none"
    /\ \A u \in Rows \ {s} : row'[u] = row[u]
    /\ req'[r].pc = "reply" /\ req'[r].dev = req[r].dev /\ req'[r].tok = t
    /\ \A q \in Refreshes \ {r} : req'[q] = req[q]
    /\ exchanged'[req[r].tok] = exchanged[req[r].tok] + 1
    /\ \A x \in Tokens \ {req[r].tok} : exchanged'[x] = exchanged[x]
    /\ same \subseteq same' /\ (t = req[r].tok => s \in same')
    /\ UNCHANGED <<cookie, login, now, twins, cut, left>>

LEMMA RotateIs ==
  ASSUME SessionsAssumption, Fits, NEW r \in Refreshes, Rotate(r)
  PROVE  Types' /\ \E s \in Rows, t \in Tokens : Rotates(r, s, t)
<1>0. PICK s \in Rows, t \in Tokens :
         s = req[r].row /\ s = req[r].tok.of /\ t = Signed(s) /\ t.of = s /\ t.at = now
  <2>1. req[r].row = req[r].tok.of /\ req[r].tok \in Tokens
    BY DEF Rotate, Fits, ReqsFit, Out
  <2>. QED BY <2>1, NoTokens, SignedIs DEF Fits, Types
<1>1. /\ req[r].pc = "rotate" /\ req[r].tok \in Tokens
      /\ row' = [row EXCEPT ![s] = [state |-> IF @.state = "revoked" THEN "revoked" ELSE "fresh",
                                    cur |-> t, prev |-> req[r].tok]]
      /\ ToReq(r, [req[r] EXCEPT !.pc = "reply", !.tok = t])
      /\ exchanged' = [exchanged EXCEPT ![req[r].tok] = @ + 1]
  BY <1>0 DEF Rotate, Fits, ReqsFit, Out
<1>2. UNCHANGED <<cookie, login, now, twins, cut, left>> /\ same \subseteq same' /\ (t = req[r].tok => s \in same')
  BY <1>0 DEF Rotate
<1>3. req[r] \in ReqRec
  BY DEF Fits, Types
<1>4. PICK rec \in ReqRec : ToReq(r, rec) /\ rec.pc = "reply" /\ rec.dev = req[r].dev /\ rec.tok = t
  <2> DEFINE rec == [req[r] EXCEPT !.pc = "reply", !.tok = t]
  <2>1. rec \in ReqRec /\ rec.pc = "reply" /\ rec.dev = req[r].dev /\ rec.tok = t
    BY <1>3, ReplyRec
  <2>2. ToReq(r, rec)
    BY <1>1
  <2> HIDE DEF rec
  <2>. QED BY <2>1, <2>2
<1>5. req' \in [Refreshes -> ReqRec] /\ req'[r] = rec /\ \A q \in Refreshes \ {r} : req'[q] = req[q]
  BY <1>4, ReqTypes DEF Fits
<1>6. /\ row' \in [Rows -> RowRec] /\ \A u \in Rows \ {s} : row'[u] = row[u]
      /\ row'[s].cur = t /\ row'[s].prev = req[r].tok /\ row'[s].state # "none"
  <2> DEFINE new == [state |-> IF row[s].state = "revoked" THEN "revoked" ELSE "fresh", cur |-> t, prev |-> req[r].tok]
  <2>1. new \in RowRec /\ new.cur = t /\ new.prev = req[r].tok /\ new.state # "none"
    BY <1>1 DEF RowRec, States
  <2>2. row' = [row EXCEPT ![s] = new]
    BY <1>1
  <2> HIDE DEF new
  <2>. QED BY <2>1, <2>2 DEF Fits, Types
<1>7. /\ exchanged' \in [Tokens -> Nat] /\ exchanged'[req[r].tok] = exchanged[req[r].tok] + 1
      /\ \A x \in Tokens \ {req[r].tok} : exchanged'[x] = exchanged[x]
  BY <1>1 DEF Fits, Types
<1>8. Types'
  BY <1>2, <1>5, <1>6, <1>7 DEF Fits, Types
<1>9. Rotates(r, s, t)
  BY <1>0, <1>1, <1>2, <1>4, <1>5, <1>6, <1>7 DEF Rotates
<1>. QED BY <1>8, <1>9

\* What does not depend on the order of the tokens.
LEMMA RotateFits ==
  ASSUME SessionsAssumption, Inv, Types', NEW r \in Refreshes, NEW s \in Rows, NEW t \in Tokens, Rotates(r, s, t)
  PROVE  Fits' /\ OneDevice' /\ Unused' /\ PlaceholderIsClaimed'
<1> USE DEF Inv
<1>1. /\ req[r].tok \in Tokens /\ req[r].tok.of = s /\ req[r].tok.at <= now /\ req[r].dev \in Devices
      /\ Issued(s) /\ Issued(s)' /\ row[s].cur # Pending
  BY NoTokens DEF Rotates, Fits, ReqsFit, Out, Issued
<1>2. \A u \in Rows : Issued(u) <=> Issued(u)'
  BY <1>1 DEF Rotates, Issued
<1>3. \A x : Out(x) => OutThen(x)
  BY <1>1, NoTokens DEF Out, OutThen, Issued, Rotates
<1>4. RowsFit'
  <2>1. ASSUME NEW u \in Rows, u # s
        PROVE  /\ row'[u].cur # NoToken => row'[u].state # "none"
               /\ row'[u].cur \in Tokens => row'[u].cur.of = u /\ row'[u].cur.at <= now'
               /\ row'[u].prev # NoToken => row'[u].cur \in Tokens /\ row'[u].prev.of = u /\ row'[u].prev.at <= now'
    BY <2>1 DEF Fits, RowsFit, Issued, Rotates
  <2>2. /\ row'[s].state # "none" /\ row'[s].cur \in Tokens /\ row'[s].cur.of = s /\ row'[s].cur.at <= now'
        /\ row'[s].prev.of = s /\ row'[s].prev.at <= now'
    BY <1>1 DEF Rotates, Fits, Types, Seconds
  <2>. QED BY <2>1, <2>2 DEF RowsFit, Issued
<1>5. CookiesFit'
  BY <1>3 DEF Fits, CookiesFit, Out, OutThen, Issued, Rotates
<1>6. LoginsFit'
  <2>1. ASSUME NEW i \in Logins, login[i].pc = "update"
        PROVE  login[i].row \in Rows /\ row'[login[i].row].cur = Pending
    BY <1>1, <2>1 DEF Fits, LoginsFit, Rotates
  <2>. QED BY <1>3, <2>1 DEF Fits, LoginsFit, Out, OutThen, Issued, Rotates
<1>7. ReqsFit'
  <2>1. ASSUME NEW q \in Refreshes
        PROVE  /\ req'[q].pc # "idle" => req'[q].dev \in Devices /\ OutThen(req'[q].tok)
               /\ req'[q].pc \in {"revoke", "rotate"} => req'[q].row = req'[q].tok.of
    <3>1. CASE q = r
      <4>1. OutThen(t)
        BY <1>1 DEF OutThen, Issued, Rotates, Fits, Types, Seconds
      <4>. QED BY <1>1, <3>1, <4>1 DEF Rotates
    <3>2. CASE q # r
      BY <1>3, <3>2 DEF Fits, ReqsFit, Rotates
    <3>. QED BY <3>1, <3>2
  <2>. QED BY <2>1 DEF ReqsFit, Out, OutThen, Issued
<1>8. OneUpdate'
  BY DEF Fits, OneUpdate, Rotates
<1>9. OneDevice'
  <2>1. \A u \in Rows : Holders(u)' \subseteq Holders(u)
    BY <1>1 DEF Holders, Rotates
  <2>. QED BY <2>1 DEF OneDevice
<1>10. Unused'
  BY <1>1, <1>2, NoTokens DEF Unused, Rotates
<1>11. PlaceholderIsClaimed'
  <2>1. ASSUME NEW u \in Rows, row'[u].cur = Pending
        PROVE  u \in left \/ \E j \in Logins : login[j].pc = "update" /\ login[j].row = u
    <3>1. row[u].cur = Pending
      BY <1>1, <2>1, NoTokens DEF Rotates
    <3>. QED BY <3>1 DEF PlaceholderIsClaimed
  <2>. QED BY <2>1 DEF PlaceholderIsClaimed, Rotates
<1>. QED BY <1>4, <1>5, <1>6, <1>7, <1>8, <1>9, <1>10, <1>11 DEF Fits

\* The token a clean session's refresh has found it by is the newest there is.
LEMMA RotateFinds ==
  ASSUME SessionsAssumption, Inv, Types', NEW r \in Refreshes, NEW s \in Rows, NEW t \in Tokens, Rotates(r, s, t),
         Clean(s)'
  PROVE  /\ Ordered(s) /\ req[r].tok = row[s].cur
         /\ row[s].cur \in Tokens /\ row[s].cur.of = s /\ row[s].cur.at < now
<1>1. req[r].tok \in Tokens /\ req[r].tok.of = s /\ req[r].tok.at <= now /\ Issued(s)
  BY DEF Inv, Rotates, Fits, ReqsFit, Out
<1>2. Clean(s) /\ t # req[r].tok
  BY <1>1 DEF Clean, Mixed, Rotates
<1>3. Ordered(s)
  BY <1>2 DEF Inv
<1>4. req[r].tok = row[s].cur
  BY <1>3 DEF Ordered, OneRotates, Rotating, Rotates
<1>5. req[r].tok.at # now
  BY <1>1, <1>2, TokenIs DEF Rotates
<1>6. req[r].tok.at \in Nat /\ now \in Nat
  BY <1>1, NoTokens DEF Inv, Fits, Types, Seconds
<1>. QED BY <1>1, <1>3, <1>4, <1>5, <1>6

LEMMA RotateOrdered ==
  ASSUME SessionsAssumption, Inv, Types', NEW r \in Refreshes, NEW s \in Rows, NEW t \in Tokens, Rotates(r, s, t),
         Clean(s)'
  PROVE  Ordered(s)'
<1> DEFINE old == row[s].cur
<1>1. Ordered(s) /\ req[r].tok = old /\ old \in Tokens /\ old.of = s /\ old.at < now
  BY RotateFinds
<1>2. /\ row'[s].cur = t /\ row'[s].prev = old /\ t.of = s /\ t.at = now /\ t \in Tokens
      /\ req[r].pc = "rotate" /\ req[r].dev \in Devices /\ req'[r].pc = "reply" /\ req'[r].tok = t /\ req'[r].dev = req[r].dev
      /\ \A q \in Refreshes \ {r} : req'[q] = req[q]
      /\ cookie' = cookie /\ login' = login /\ cut' = cut
      /\ exchanged'[old] = exchanged[old] + 1 /\ \A x \in Tokens \ {old} : exchanged'[x] = exchanged[x]
  BY <1>1 DEF Rotates, Inv, Fits, ReqsFit
<1>3. now \in Nat /\ old.at \in Nat
  BY <1>1, NoTokens DEF Inv, Fits, Types, Seconds
<1> HIDE DEF old
<1>4. /\ \A d \in Devices : cookie[d].of = s => cookie[d].at \in Nat /\ cookie[d].at < now
      /\ \A q \in Refreshes : req[q].pc # "idle" /\ req[q].tok.of = s => req[q].tok.at \in Nat /\ req[q].tok.at < now
  <2>1. \A d \in Devices : cookie[d].of = s => cookie[d].at \in Nat /\ cookie[d].at <= old.at
    BY <1>1, NoTokens, NoneOf DEF Inv, Fits, Types, Ordered, NoneLater, old
  <2>2. \A q \in Refreshes : req[q].pc # "idle" /\ req[q].tok.of = s => req[q].tok.at \in Nat /\ req[q].tok.at <= old.at
    BY <1>1, NoTokens DEF Inv, Fits, ReqsFit, Out, Ordered, NoneLater, old
  <2>. QED BY <1>1, <1>3, <2>1, <2>2
<1>5. NoneLater(s)'
  BY <1>2, <1>3, <1>4 DEF NoneLater
<1>6. \A q \in Refreshes : req[q].pc = "rotate" /\ req[q].row = s => q = r
  BY <1>1 DEF Ordered, OneRotates, Rotating, Rotates
<1>7. OneRotates(s)'
  BY <1>2, <1>6 DEF OneRotates, Rotating
<1>8. \A i \in Logins : ~(login[i].pc = "reply" /\ login[i].tok.of = s)
  BY <1>1, <1>2 DEF Ordered, LoginIsAlone, old
<1>9. LoginIsAlone(s)'
  BY <1>2, <1>8 DEF LoginIsAlone
<1>10. \A q \in Refreshes : ~(req[q].pc = "reply" /\ req[q].tok.of = s)
  BY <1>1, <1>2 DEF Ordered, ReplyIsAlone, old
<1>11. ReplyIsAlone(s)'
  <2>1. /\ \A d \in Devices : cookie'[d] # t
        /\ \A q \in Refreshes \ {r} : req'[q].pc # "idle" => req'[q].tok # t
    BY <1>2, <1>3, <1>4
  <2>. QED BY <1>2, <1>10, <2>1 DEF ReplyIsAlone
<1>12. CookieIsKnown(s)'
  <2> SUFFICES ASSUME NEW d \in Devices, cookie[d].of = s, d \notin cut
               PROVE  cookie[d] = old /\ d = req[r].dev
    BY <1>2 DEF CookieIsKnown
  <2>1. cookie[d] = old
    BY <1>1, <1>10 DEF Ordered, CookieIsKnown, old
  <2>2. d \in Holders(s) /\ req[r].dev \in Holders(s)
    BY <1>1, <1>2 DEF Holders
  <2>. QED BY <2>1, <2>2 DEF Inv, OneDevice
<1>13. exchanged[old] = 0
  BY <1>1, <1>3 DEF Ordered, Counted, ExchangedIsOld, old
<1>14. ASSUME NEW x \in Tokens, x.of = s, ExchangedIsOld(x)
       PROVE  exchanged'[x] = 1 /\ x.at < now
  <2>1. exchanged[x] = 1 /\ x.at < old.at /\ x.at \in Nat
    BY <1>14, NoTokens DEF ExchangedIsOld, old
  <2>2. x # old
    BY <1>3, <2>1
  <2>. QED BY <1>1, <1>2, <1>3, <2>1, <2>2
<1>15. Counted(s)'
  <2>1. ASSUME NEW x \in Tokens, x.of = s
        PROVE  exchanged'[x] = 0 \/ (exchanged'[x] = 1 /\ x.at < row'[x.of].cur.at)
    <3>1. CASE x = old
      BY <1>1, <1>2, <1>13, <2>1, <3>1
    <3>2. CASE x # old /\ exchanged[x] = 0
      BY <1>2, <3>2
    <3>3. CASE x # old /\ exchanged[x] # 0
      BY <1>1, <1>2, <1>14, <2>1, <3>3 DEF Ordered, Counted
    <3>. QED BY <3>1, <3>2, <3>3
  <2>. QED BY <2>1 DEF Counted, ExchangedIsOld
<1>16. PrevIsOld(s)'
  BY <1>1, <1>2, <1>13 DEF PrevIsOld, ExchangedIsOld
<1>17. RevokedIsOld(s)'
  <2>1. ASSUME NEW q \in Refreshes, req'[q].pc = "revoke", req'[q].row = s
        PROVE  exchanged'[req'[q].tok] = 1 /\ req'[q].tok.at < row'[req'[q].tok.of].cur.at
    <3>1. req'[q] = req[q]
      BY <1>2, <2>1
    <3>2. req[q].tok \in Tokens /\ req[q].tok.of = s
      BY <2>1, <3>1 DEF Inv, Fits, ReqsFit, Out
    <3>3. ExchangedIsOld(req[q].tok)
      BY <1>1, <2>1, <3>1 DEF Ordered, RevokedIsOld
    <3>. QED BY <1>2, <1>14, <3>1, <3>2, <3>3
  <2>. QED BY <2>1 DEF RevokedIsOld, ExchangedIsOld
<1>. QED BY <1>5, <1>7, <1>9, <1>11, <1>12, <1>15, <1>16, <1>17 DEF Ordered

LEMMA RotateKeepsInv ==
  ASSUME SessionsAssumption, Inv, Types', NEW r \in Refreshes, NEW s \in Rows, NEW t \in Tokens, Rotates(r, s, t)
  PROVE  Inv'
<1>1. Fits' /\ OneDevice' /\ Unused' /\ PlaceholderIsClaimed'
  BY RotateFits
<1>2. Clean(s)' => Ordered(s)'
  BY RotateOrdered
<1>3. ASSUME NEW u \in Rows, u # s, Clean(u)' PROVE Ordered(u)'
  <2>1. row'[u] = row[u] /\ Issued(u) /\ Ordered(u)
    BY <1>3 DEF Inv, Clean, Mixed, Issued, Rotates
  <2>2. req[r].tok.of = s
    BY DEF Inv, Fits, ReqsFit, Rotates
  <2>. QED BY <1>1, <1>3, <2>1, <2>2, Elsewhere DEF Inv, Rotates
<1>. QED BY <1>1, <1>2, <1>3 DEF Inv

-----------------------------------------------------------------------------
(* The invariant.                                                           *)
LEMMA InitInv == ASSUME SessionsAssumption, Init PROVE Inv
<1>1. /\ \A s \in Rows : row[s].cur = NoToken /\ row[s].prev = NoToken /\ row[s] \in RowRec
      /\ \A i \in Logins : login[i].pc = "idle"
      /\ \A r \in Refreshes : req[r].pc = "idle"
  BY IdlePc DEF Init, NoSession, RowRec, States
<1>2. \A s \in Rows : ~Issued(s)
  BY <1>1, NoTokens DEF Issued
<1>3. Types
  BY <1>1, IdleTypes DEF Init, Types, Seconds, SessionsAssumption
<1>4. RowsFit /\ CookiesFit /\ LoginsFit /\ ReqsFit /\ OneUpdate
  BY <1>1, <1>2 DEF Init, RowsFit, CookiesFit, LoginsFit, ReqsFit, OneUpdate
<1>5. OneDevice /\ Unused /\ PlaceholderIsClaimed
  <2>1. \A s \in Rows : Holders(s) = {}
    BY <1>1, NoneOf DEF Holders, Init
  <2>2. PlaceholderIsClaimed
    BY <1>1, NoTokens DEF PlaceholderIsClaimed, NoToken, Pending
  <2>. QED BY <2>1, <2>2 DEF OneDevice, Unused, Init
<1>. QED BY <1>2, <1>3, <1>4, <1>5 DEF Inv, Fits, Clean

LEMMA StepInv == ASSUME SessionsAssumption, Inv, [Next]_vars PROVE Inv'
<1>0. Types /\ Fits /\ ReqsFit
  BY DEF Inv, Fits
<1>1. ASSUME NEW i \in Logins, Update(i) PROVE Inv'
  BY <1>0, <1>1, UpdateIs, UpdateKeepsInv
<1>2. ASSUME NEW i \in Logins, LoginReply(i) PROVE Inv'
  BY <1>2, LoginReplyKeepsInv
<1>3. ASSUME NEW i \in Logins, LoginFault(i) PROVE Inv'
  BY <1>0, <1>3, LoginFaultIs, QuietKeepsInv
<1>4. ASSUME NEW i \in Logins, NEW d \in Devices, SwitchStart(i, d) PROVE Inv'
  BY <1>0, <1>4, SwitchStartIs, QuietKeepsInv
<1>5. ASSUME NEW i \in Logins, NEW d \in Devices, Create(i, d) PROVE Inv'
  BY <1>0, <1>5, CreateIs, CreateKeepsInv, QuietKeepsInv
<1>6. ASSUME NEW r \in Refreshes, Look(r) \/ Revoke(r) \/ Find(r) \/ RefreshFault(r) PROVE Inv'
  BY <1>0, <1>6, LookIs, RevokeIs, FindIs, RefreshFaultIs, QuietKeepsInv
<1>7. ASSUME NEW r \in Refreshes, Rotate(r) PROVE Inv'
  BY <1>0, <1>7, RotateIs, RotateKeepsInv
<1>8. ASSUME NEW r \in Refreshes, RefreshReply(r) PROVE Inv'
  BY <1>8, RefreshReplyKeepsInv
<1>9. ASSUME NEW r \in Refreshes, NEW d \in Devices, RefreshStart(r, d) PROVE Inv'
  BY <1>0, <1>9, RefreshStartIs, QuietKeepsInv
<1>10. CASE (\E d \in Devices : Logout(d)) \/ ResetPassword \/ Tick \/ \E s \in Rows : GraceEnds(s) \/ Lapse(s)
  BY <1>0, <1>10, RestIs, QuietKeepsInv
<1>11. CASE UNCHANGED vars
  <2>1. UNCHANGED <<row, cookie, login, req, now, exchanged, twins, same, cut, left>>
    BY <1>11 DEF vars, seen
  <2>2. Types' /\ now <= now'
    BY <1>0, <2>1 DEF Types, Seconds, SessionsAssumption
  <2>3. Quiet
    BY <1>0, <2>1, <2>2, QuietRest
  <2>. QED BY <2>2, <2>3, QuietKeepsInv
<1>. QED BY <1>1, <1>2, <1>3, <1>4, <1>5, <1>6, <1>7, <1>8, <1>9, <1>10, <1>11 DEF Next, Refresh

LEMMA InvHolds == Spec => []Inv
<1>1. Init => Inv
  BY SessionsAssumption, InitInv
<1>2. Inv /\ [Next]_vars => Inv'
  BY SessionsAssumption, StepInv
<1>. QED BY <1>1, <1>2, PTL DEF Spec

\* The rows, the cookies and the handlers keep their types, for any number of
\* devices, sessions, logins and refreshes.
THEOREM SessionsTypes == Spec => []TypeOK
<1>1. Inv => TypeOK
  <2> SUFFICES ASSUME Inv PROVE TypeOK
    OBVIOUS
  <2>1. Types /\ LoginsFit /\ ReqsFit
    BY DEF Inv, Fits
  <2>2. row \in [Rows -> [state : {"none", "fresh", "aged", "lapsed", "revoked"},
                          cur : Tokens \cup {NoToken, Pending}, prev : Tokens \cup {NoToken}]]
    BY <2>1 DEF Types, RowRec, States
  <2>3. \A i \in Logins : /\ login[i].pc \in {"idle", "create", "update", "reply"}
                          /\ login[i].pc = "update" => login[i].row \in Rows
                          /\ login[i].pc = "reply" => login[i].tok \in Tokens
    BY <2>1 DEF Types, LoginRec, LoginsFit, Out
  <2>4. \A r \in Refreshes : /\ req[r].pc \in {"idle", "look", "find", "revoke", "rotate", "reply"}
                             /\ req[r].pc # "idle" => req[r].tok \in Tokens
                             /\ req[r].pc \in {"revoke", "rotate"} => req[r].row \in Rows
    BY <2>1, SessionsAssumption, NoTokens DEF Types, ReqRec, ReqsFit, Out
  <2>. QED BY <2>1, <2>2, <2>3, <2>4 DEF TypeOK, Types
<1>. QED BY <1>1, InvHolds, PTL

\* Whatever order the replies of concurrent refreshes arrive in, a live session's
\* device holds its current token, or the one before with the current one on its way
\* (auth.service.ts, the grace in which a refresh "must not rotate again").
THEOREM SessionsCookieIsCurrent == Spec => []CookieIsCurrent
<1>1. Inv => CookieIsCurrent
  <2> SUFFICES ASSUME Inv, NEW d \in Devices, cookie[d] # NoToken,
                      Live(cookie[d].of), cookie[d].of \notin Mixed, d \notin cut
               PROVE  \/ cookie[d] = row[cookie[d].of].cur
                      \/ /\ cookie[d] = row[cookie[d].of].prev
                         /\ \E r \in Refreshes : /\ req[r].pc = "reply" /\ req[r].tok = row[cookie[d].of].cur
                                                  /\ req[r].dev = d
    BY DEF CookieIsCurrent
  <2>1. cookie[d].of \in Rows /\ Issued(cookie[d].of)
    BY SessionsAssumption, NoTokens DEF Inv, Fits, CookiesFit, Out
  <2>2. CookieIsKnown(cookie[d].of)
    BY <2>1 DEF Inv, Clean, Ordered
  <2>. QED BY <2>2 DEF CookieIsKnown
<1>. QED BY <1>1, InvHolds, PTL

\* A token is exchanged for a later one at most once (the rotation of
\* auth.service.ts), unless two refreshes had found its session by the same token, or
\* it was replaced within the second it was signed in.
THEOREM SessionsExchangedOnce == Spec => []ExchangedOnce
<1>1. Inv => ExchangedOnce
  <2> SUFFICES ASSUME Inv, NEW t \in Tokens, t.of \notin Mixed PROVE exchanged[t] <= 1
    BY DEF ExchangedOnce
  <2>1. t.of \in Rows
    BY SessionsAssumption, NoTokens
  <2>2. CASE ~Issued(t.of)
    BY <2>2 DEF Inv, Unused
  <2>3. CASE Issued(t.of)
    BY <2>1, <2>3 DEF Inv, Clean, Ordered, Counted, ExchangedIsOld
  <2>. QED BY <2>2, <2>3
<1>. QED BY <1>1, InvHolds, PTL

\* A session is revoked for a replay only when the token presented was exchanged for
\* a later one (auth.service.ts, the reuse of a rotated token), unless the session is
\* mixed up.
THEOREM SessionsReplayIsOld == Spec => []ReplayIsOld
<1>1. Inv => ReplayIsOld
  <2> SUFFICES ASSUME Inv, NEW r \in Refreshes, req[r].pc = "revoke", req[r].row \notin Mixed
               PROVE  exchanged[req[r].tok] = 1 /\ req[r].tok.at < row[req[r].row].cur.at
    BY DEF ReplayIsOld
  <2>1. req[r].row = req[r].tok.of /\ req[r].row \in Rows /\ Issued(req[r].row)
    BY SessionsAssumption, NoTokens DEF Inv, Fits, ReqsFit, Out
  <2>2. ExchangedIsOld(req[r].tok)
    BY <2>1 DEF Inv, Clean, Ordered, RevokedIsOld
  <2>. QED BY <2>1, <2>2 DEF ExchangedIsOld
<1>. QED BY <1>1, InvHolds, PTL

\* The placeholder hash of a session is a login's that is yet to overwrite it, or was
\* left by one that died (auth.service.ts, the two steps of creating a session).
THEOREM SessionsPlaceholderIsClaimed == Spec => []PlaceholderIsClaimed
<1>1. Inv => PlaceholderIsClaimed
  BY DEF Inv
<1>. QED BY <1>1, InvHolds, PTL
=============================================================================
