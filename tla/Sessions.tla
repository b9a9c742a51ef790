------------------------------ MODULE Sessions ------------------------------
(***************************************************************************)
(* Sessions of one user: the row a login creates, the rotation of its      *)
(* refresh token, the grace for a token that was just rotated, switching   *)
(* the organization, logging out and resetting the password                *)
(* (apps/api/src/modules/auth/auth.service.ts, auth.routes.ts).            *)
(*                                                                         *)
(* A device's tabs share one cookie and refresh at will; replies arrive in *)
(* any order.  A refresh token is a signed session id and the second it    *)
(* was signed in (lib/jwt.ts): one session's tokens of one second are      *)
(* equal, and so are their hashes.                                         *)
(***************************************************************************)
EXTENDS Integers, FiniteSets

CONSTANTS
    Devices,        \* browsers, one cookie each
    Rows,           \* ids of sessions
    Logins,         \* handlers of logins and switches
    Refreshes,      \* handlers of refreshes
    NoRow,
    MaxSeconds      \* bound: the clock

ASSUME SessionsAssumption == NoRow \notin Rows /\ MaxSeconds \in Nat \ {0}

Seconds == 1 .. MaxSeconds
Tokens == [of : Rows, at : Seconds]
NoToken == [of |-> NoRow, at |-> 0]
Pending == [of |-> NoRow, at |-> 1]     \* the placeholder in refresh_token_hash, a unique column

VARIABLES
    row,        \* the sessions
    cookie,     \* a device's refresh token
    login,      \* the logins' local records
    req,        \* the refreshes' local records
    now         \* the second on the clock

(***************************************************************************)
(* Observations: how often a token was exchanged for a new one; sessions   *)
(* that two refreshes had found by the same token; sessions whose token    *)
(* was replaced in the second it was signed in, by itself; devices that    *)
(* lost a reply; sessions whose login died before they had a token.        *)
(***************************************************************************)
VARIABLES exchanged, twins, same, cut, left

seen == <<exchanged, twins, same, cut, left>>
vars == <<row, cookie, login, req, now, seen>>

Idle == [pc |-> "idle", dev |-> CHOOSE d \in Devices : TRUE, row |-> NoRow, tok |-> NoToken]

\* A session is fresh within the grace of its last rotation, and lapsed when it
\* has expired: revoked_at, previous_token_rotated_at and expires_at in one.
NoSession == [state |-> "none", cur |-> NoToken, prev |-> NoToken]

Init ==
    /\ row = [s \in Rows |-> NoSession]
    /\ cookie = [d \in Devices |-> NoToken]
    /\ login = [i \in Logins |-> Idle]
    /\ req = [r \in Refreshes |-> Idle]
    /\ now = 1
    /\ exchanged = [t \in Tokens |-> 0]
    /\ twins = {} /\ same = {} /\ cut = {} /\ left = {}

\* What signRefreshToken returns for the session now.
Signed(s) == [of |-> s, at |-> now]

Live(s) == row[s].state \in {"fresh", "aged", "lapsed"}

ToLogin(i, rec) == login' = [login EXCEPT ![i] = rec]
ToReq(r, rec) == req' = [req EXCEPT ![r] = rec]

-----------------------------------------------------------------------------
(* Logins.                                                                  *)

\* The session of the device's access token is revoked before the new one exists.
SwitchStart(i, d) ==
    /\ login[i].pc = "idle"
    /\ cookie[d] # NoToken
    /\ row' = [row EXCEPT ![cookie[d].of].state = "revoked"]
    /\ ToLogin(i, [Idle EXCEPT !.pc = "create", !.dev = d])
    /\ UNCHANGED <<cookie, req, now, seen>>

\* A login whose credentials were checked, or the rest of a switch.
Starts(i, d) == login[i].pc = "idle" \/ (login[i].pc = "create" /\ login[i].dev = d)

\* Two rows cannot hold the placeholder.
Create(i, d) ==
    /\ Starts(i, d)
    /\ IF \E s \in Rows : row[s].cur = Pending
       THEN ToLogin(i, Idle) /\ UNCHANGED row
       ELSE \E s \in Rows :
               /\ row[s].state = "none"
               /\ row' = [row EXCEPT ![s] = [NoSession EXCEPT !.state = "fresh", !.cur = Pending]]
               /\ ToLogin(i, [Idle EXCEPT !.pc = "update", !.dev = d, !.row = s])
    /\ UNCHANGED <<cookie, req, now, seen>>

\* Mutant: the hash is written where the session is still live.
UpdateLive(i) ==
    LET s == login[i].row
    IN  /\ login[i].pc = "update"
        /\ row' = IF Live(s) THEN [row EXCEPT ![s].cur = Signed(s)] ELSE row
        /\ ToLogin(i, [login[i] EXCEPT !.pc = "reply", !.tok = Signed(s)])
        /\ UNCHANGED <<cookie, req, now, seen>>

Update(i) ==
    /\ login[i].pc = "update"
    /\ row' = [row EXCEPT ![login[i].row].cur = Signed(login[i].row)]
    /\ ToLogin(i, [login[i] EXCEPT !.pc = "reply", !.tok = Signed(login[i].row)])
    /\ UNCHANGED <<cookie, req, now, seen>>

\* What the device had in flight before is forgotten with its old cookie.
LoginReply(i) ==
    /\ login[i].pc = "reply"
    /\ cookie' = [cookie EXCEPT ![login[i].dev] = login[i].tok]
    /\ cut' = cut \ {login[i].dev}
    /\ ToLogin(i, Idle)
    /\ UNCHANGED <<row, req, now, exchanged, twins, same, left>>

LoginFault(i) ==
    /\ login[i].pc # "idle"
    /\ left' = IF login[i].pc = "update" THEN left \cup {login[i].row} ELSE left
    /\ ToLogin(i, Idle)
    /\ UNCHANGED <<row, cookie, req, now, exchanged, twins, same, cut>>

-----------------------------------------------------------------------------
(* Refreshes.                                                               *)

RefreshStart(r, d) ==
    /\ req[r].pc = "idle" /\ cookie[d] # NoToken
    /\ ToReq(r, [Idle EXCEPT !.pc = "look", !.dev = d, !.tok = cookie[d]])
    /\ UNCHANGED <<row, cookie, login, now, seen>>

\* Mutant: within the grace the token is rotated again.
LookRotates(r) ==
    LET reused == {s \in Rows : row[s].prev = req[r].tok /\ Live(s)}
    IN  /\ req[r].pc = "look"
        /\ IF reused = {} THEN ToReq(r, [req[r] EXCEPT !.pc = "find"])
           ELSE \E s \in reused :
                   ToReq(r, [req[r] EXCEPT !.row = s, !.pc = IF row[s].state = "fresh" THEN "rotate" ELSE "revoke"])
        /\ UNCHANGED <<row, cookie, login, now, seen>>

\* A token that was rotated: another access token within the grace, and no new
\* refresh token; afterwards the session is revoked.
Look(r) ==
    LET reused == {s \in Rows : row[s].prev = req[r].tok /\ Live(s)}
    IN  /\ req[r].pc = "look"
        /\ IF reused = {} THEN ToReq(r, [req[r] EXCEPT !.pc = "find"])
           ELSE \E s \in reused :
                   ToReq(r, IF row[s].state = "fresh" THEN Idle ELSE [req[r] EXCEPT !.row = s, !.pc = "revoke"])
        /\ UNCHANGED <<row, cookie, login, now, seen>>

Revoke(r) ==
    /\ req[r].pc = "revoke"
    /\ row' = [row EXCEPT ![req[r].row].state = "revoked"]
    /\ ToReq(r, Idle)
    /\ UNCHANGED <<cookie, login, now, seen>>

\* Mutant: the previous token finds the session, too.
FindEither(r) ==
    LET found == {s \in Rows : req[r].tok \in {row[s].cur, row[s].prev} /\ Live(s)}
    IN  /\ req[r].pc \in {"look", "find"}
        /\ IF found = {} THEN ToReq(r, Idle)
           ELSE \E s \in found : ToReq(r, [req[r] EXCEPT !.row = s, !.pc = "rotate"])
        /\ UNCHANGED <<row, cookie, login, now, seen>>

\* Requests that have found the session and are about to rotate its token.
Rotating(s) == {q \in Refreshes : req[q].pc = "rotate" /\ req[q].row = s}

Find(r) ==
    LET found == {s \in Rows : row[s].cur = req[r].tok /\ row[s].state \in {"fresh", "aged"}}
    IN  /\ req[r].pc = "find"
        /\ IF found = {} THEN ToReq(r, Idle) /\ UNCHANGED twins
           ELSE \E s \in found :
                   /\ ToReq(r, [req[r] EXCEPT !.row = s, !.pc = "rotate"])
                   /\ twins' = IF Rotating(s) = {} THEN twins ELSE twins \cup {s}
        /\ UNCHANGED <<row, cookie, login, now, exchanged, same, cut, left>>

\* Mutant: the previous hash is taken from the new token.
RotateSwapped(r) ==
    LET s == req[r].row
        t == Signed(s)
    IN  /\ req[r].pc = "rotate"
        /\ row' = [row EXCEPT ![s] = [state |-> IF @.state = "revoked" THEN "revoked" ELSE "fresh",
                                      cur |-> t, prev |-> t]]
        /\ exchanged' = [exchanged EXCEPT ![req[r].tok] = @ + 1]
        /\ same' = IF t = req[r].tok THEN same \cup {s} ELSE same
        /\ ToReq(r, [req[r] EXCEPT !.pc = "reply", !.tok = t])
        /\ UNCHANGED <<cookie, login, now, twins, cut, left>>

\* By id: neither the token nor the revocation is looked at again.  The previous
\* hash is the one the session had when it was found.
Rotate(r) ==
    LET s == req[r].row
        t == Signed(s)
    IN  /\ req[r].pc = "rotate"
        /\ row' = [row EXCEPT ![s] = [state |-> IF @.state = "revoked" THEN "revoked" ELSE "fresh",
                                      cur |-> t, prev |-> req[r].tok]]
        /\ exchanged' = [exchanged EXCEPT ![req[r].tok] = @ + 1]
        /\ same' = IF t = req[r].tok THEN same \cup {s} ELSE same
        /\ ToReq(r, [req[r] EXCEPT !.pc = "reply", !.tok = t])
        /\ UNCHANGED <<cookie, login, now, twins, cut, left>>

RefreshReply(r) ==
    /\ req[r].pc = "reply"
    /\ cookie' = [cookie EXCEPT ![req[r].dev] = req[r].tok]
    /\ ToReq(r, Idle)
    /\ UNCHANGED <<row, login, now, seen>>

\* The reply is lost, or the server dies before there is one.
RefreshFault(r) ==
    /\ req[r].pc # "idle"
    /\ cut' = IF req[r].pc = "reply" THEN cut \cup {req[r].dev} ELSE cut
    /\ ToReq(r, Idle)
    /\ UNCHANGED <<row, cookie, login, now, exchanged, twins, same, left>>

-----------------------------------------------------------------------------
Logout(d) ==
    /\ cookie[d] # NoToken
    /\ row' = [row EXCEPT ![cookie[d].of].state = "revoked"]
    /\ cookie' = [cookie EXCEPT ![d] = NoToken]
    /\ UNCHANGED <<login, req, now, seen>>

ResetPassword ==
    /\ \E s \in Rows : Live(s)
    /\ row' = [s \in Rows |-> IF Live(s) THEN [row[s] EXCEPT !.state = "revoked"] ELSE row[s]]
    /\ UNCHANGED <<cookie, login, req, now, seen>>

\* REUSE_GRACE_WINDOW_MS has passed since the rotation.
GraceEnds(s) ==
    /\ row[s].state = "fresh" /\ row[s].cur.at < now
    /\ row' = [row EXCEPT ![s].state = "aged"]
    /\ UNCHANGED <<cookie, login, req, now, seen>>

\* JWT_REFRESH_TTL_SECONDS have passed since the last rotation.
Lapse(s) ==
    /\ row[s].state = "aged"
    /\ row' = [row EXCEPT ![s].state = "lapsed"]
    /\ UNCHANGED <<cookie, login, req, now, seen>>

Tick ==
    /\ now < MaxSeconds
    /\ now' = now + 1
    /\ UNCHANGED <<row, cookie, login, req, seen>>

-----------------------------------------------------------------------------
Refresh(r) == Look(r) \/ Revoke(r) \/ Find(r) \/ Rotate(r) \/ RefreshReply(r)

Next ==
    \/ \E i \in Logins : Update(i) \/ LoginReply(i) \/ LoginFault(i) \/ \E d \in Devices : SwitchStart(i, d) \/ Create(i, d)
    \/ \E r \in Refreshes : Refresh(r) \/ RefreshFault(r) \/ \E d \in Devices : RefreshStart(r, d)
    \/ \E d \in Devices : Logout(d)
    \/ ResetPassword \/ Tick
    \/ \E s \in Rows : GraceEnds(s) \/ Lapse(s)

Spec == Init /\ [][Next]_vars

-----------------------------------------------------------------------------
(* Types of the rows, the cookies and the handlers' records.                *)
TypeOK ==
    /\ row \in [Rows -> [state : {"none", "fresh", "aged", "lapsed", "revoked"},
                         cur : Tokens \cup {NoToken, Pending}, prev : Tokens \cup {NoToken}]]
    /\ cookie \in [Devices -> Tokens \cup {NoToken}]
    /\ \A i \in Logins : /\ login[i].pc \in {"idle", "create", "update", "reply"}
                         /\ login[i].pc = "update" => login[i].row \in Rows
                         /\ login[i].pc = "reply" => login[i].tok \in Tokens
    /\ \A r \in Refreshes : /\ req[r].pc \in {"idle", "look", "find", "revoke", "rotate", "reply"}
                            /\ req[r].pc # "idle" => req[r].tok \in Tokens
                            /\ req[r].pc \in {"revoke", "rotate"} => req[r].row \in Rows
    /\ now \in Seconds
    /\ exchanged \in [Tokens -> Nat]

\* Two refreshes had found the session by one token, or its token was replaced
\* by an equal one.
Mixed == twins \cup same

\* "Must not rotate again": whatever order the replies of concurrent refreshes
\* arrive in, a device whose session is live holds its current token, or the
\* previous one with the current one on its way; unless the session is mixed
\* up, or a reply was lost.
CookieIsCurrent ==
    \A d \in Devices :
        cookie[d] # NoToken =>
            LET s == cookie[d].of
            IN  Live(s) /\ s \notin Mixed /\ d \notin cut =>
                    \/ cookie[d] = row[s].cur
                    \/ /\ cookie[d] = row[s].prev
                       /\ \E r \in Refreshes : req[r].pc = "reply" /\ req[r].tok = row[s].cur /\ req[r].dev = d

\* A refresh token is exchanged once, unless its session is mixed up.
ExchangedOnce == \A t \in Tokens : exchanged[t] <= 1 \/ t.of \in Mixed

\* A refresh that is about to revoke its session as replayed presents a token
\* that was exchanged for a later one ("a token that has already been exchanged
\* once"), unless the session is mixed up.
ReplayIsOld ==
    \A r \in Refreshes :
        req[r].pc = "revoke" =>
            \/ req[r].row \in Mixed
            \/ exchanged[req[r].tok] = 1 /\ req[r].tok.at < row[req[r].row].cur.at

\* The placeholder, which keeps every other login out, is a login's that is yet
\* to overwrite it, or was left by one that died ("overwritten below").
PlaceholderIsClaimed ==
    \A s \in Rows :
        row[s].cur = Pending =>
            s \in left \/ \E i \in Logins : login[i].pc = "update" /\ login[i].row = s
=============================================================================
