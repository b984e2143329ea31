---------------------------- MODULE DeviceSessions ----------------------------
(***************************************************************************)
(* The device sessions of one account: logins, refresh token rotation,     *)
(* revoking one session or all of them, changing and resetting the         *)
(* password, and the WebSockets a session has open.                        *)
(*                                                                         *)
(* Requests interleave between any two queries.  The row of a session is   *)
(* locked by SELECT FOR UPDATE, which waits for the holder and then looks  *)
(* at the row again.  Fail is an exception or a dead process: the          *)
(* transaction rolls back, its locks are freed, on_commit work is lost.    *)
(*                                                                         *)
(* The refresh tokens of session s are numbered in the order of their      *)
(* issue and named <<s, n>>.  Expiry by time is left out.                  *)
(***************************************************************************)
EXTENDS Integers, FiniteSets

CONSTANTS
    Sessions,   \* the device sessions the account ever has
    Requests,   \* the calls in flight, each of which runs once
    Sockets,    \* WebSocket connections, each of which is opened once
    NoRequest,  \* the value of a free lock
    MaxTokens   \* bound: refresh tokens one session ever gets

ASSUME NoRequestAssumption == NoRequest \notin Requests
ASSUME SessionsAssumption == Sessions # {}
ASSUME MaxTokensAssumption == MaxTokens \in Nat \ {0}

VARIABLES
    status,     \* status[s]: "none", or is the row "active" or "revoked"
    auth,       \* auth[s]: "API" or "WEB"
    secret,     \* secret[s]: the password (its version) s logged in with
    issued,     \* issued[s]: refresh tokens issued so far
    jti,        \* jti[s]: refresh_token_jti, the token the row knows
    outstanding,\* OutstandingToken rows
    blacklisted,\* BlacklistedToken rows
    cookies,    \* sessions whose django_session row exists
    password,   \* the version of the account's password
    lock,       \* lock[s]: the request that holds the row, or NoRequest
    pc,         \* pc[r]: the step request r takes next
    mode,       \* mode[r]: which service a revoke-all belongs to
    token,      \* token[r]: the token presented, the row looked up
    known,      \* known[r]: the password a login was checked against, or a
                \* change has set
    want,       \* want[r]: sessions still to be locked, or to be told
    held,       \* held[r]: sessions a revoke is about to revoke
    covered,    \* covered[r]: sessions a revoke-all found; auxiliary
    socket,     \* socket[k]: the state of connection k
    link,       \* link[k]: the session whose credentials it presents
    group,      \* sockets that have joined the group of their session
    mail        \* sockets with a session_revoked message in their channel

rows == <<status, auth, secret, issued, jti, outstanding, blacklisted, cookies>>
locals == <<mode, token, known, want, held, covered>>
sockets == <<socket, link, group, mail>>
vars == <<rows, password, lock, pc, locals, sockets>>

Active == {s \in Sessions : status[s] = "active"}
Token(s, n) == <<s, n>>

Init ==
    /\ status \in [Sessions -> {"none", "active"}]
    /\ auth \in [Sessions -> {"API", "WEB"}]
    /\ secret = [s \in Sessions |-> 0]
    /\ issued = [s \in Sessions |-> IF s \in Active /\ auth[s] = "API" THEN 1 ELSE 0]
    /\ jti = issued
    /\ outstanding = {Token(s, 1) : s \in {t \in Sessions : issued[t] = 1}}
    /\ blacklisted = {}
    /\ cookies = {s \in Active : auth[s] = "WEB"}
    /\ password = 0
    /\ lock = [s \in Sessions |-> NoRequest]
    /\ pc = [r \in Requests |-> "idle"]
    /\ mode = [r \in Requests |-> "one"]
    /\ \E s \in Sessions : token = [r \in Requests |-> Token(s, 0)]
    /\ known = [r \in Requests |-> 0]
    /\ want = [r \in Requests |-> {}]
    /\ held = [r \in Requests |-> {}]
    /\ covered = [r \in Requests |-> {}]
    /\ socket = [k \in Sockets |-> "new"]
    /\ link \in [Sockets -> Sessions]
    /\ group = {}
    /\ mail = {}

Goto(r, step) == pc' = [pc EXCEPT ![r] = step]
Free(s) == lock[s] = NoRequest
(* mutant: a transaction keeps its locks when it ends *)
Unlocked_Nothing(r) == lock

Unlocked(r) == [s \in Sessions |-> IF lock[s] = r THEN NoRequest ELSE lock[s]]
------------------------------------------------------------------------------
(* LoginView and login_view: authenticate(), then create_device_session or *)
(* create_web_device_session.                                              *)
Authenticate(r) ==
    /\ pc[r] = "idle"
    /\ known' = [known EXCEPT ![r] = password]
    /\ Goto(r, "login")
    /\ UNCHANGED <<rows, password, lock, mode, token, want, held, covered, sockets>>

CreateSession(r) ==
    /\ pc[r] = "login"
    /\ \E s \in Sessions :
         /\ status[s] = "none"
         /\ status' = [status EXCEPT ![s] = "active"]
         /\ secret' = [secret EXCEPT ![s] = known[r]]
         /\ IF auth[s] = "API"
              THEN /\ issued' = [issued EXCEPT ![s] = 1]
                   /\ jti' = [jti EXCEPT ![s] = 1]
                   /\ outstanding' = outstanding \union {Token(s, 1)}
                   /\ UNCHANGED cookies
              ELSE /\ cookies' = cookies \union {s}
                   /\ UNCHANGED <<issued, jti, outstanding>>
    /\ Goto(r, "done")
    /\ UNCHANGED <<auth, blacklisted, password, lock, locals, sockets>>
------------------------------------------------------------------------------
(* DeviceSessionRefreshSerializer.validate *)

(* RefreshToken(raw) verifies the token, its blacklisting included. *)
IsUsable(t) == t \notin blacklisted

VerifyRefresh(r) ==
    /\ pc[r] = "idle"
    /\ \E s \in Sessions, n \in 1 .. MaxTokens :
         /\ n <= issued[s]
         /\ IsUsable(Token(s, n))
         /\ token' = [token EXCEPT ![r] = Token(s, n)]
    /\ Goto(r, "refresh")
    /\ UNCHANGED <<rows, password, lock, mode, known, want, held, covered, sockets>>

(* the filter of the locking query, applied to the row as it is once the   *)
(* lock is granted *)
NotRevoked(s) == status[s] = "active"

(* mutant: a plain SELECT instead of SELECT FOR UPDATE *)
LockRefresh_NoLock(r) ==
    /\ pc[r] = "refresh"
    /\ Goto(r, IF NotRevoked(token[r][1]) THEN "rotate" ELSE "failed")
    /\ UNCHANGED <<rows, password, lock, locals, sockets>>

LockRefresh(r) ==
    LET s == token[r][1] IN
    /\ pc[r] = "refresh"
    /\ Free(s)
    /\ IF NotRevoked(s)
         THEN lock' = [lock EXCEPT ![s] = r] /\ Goto(r, "rotate")
         ELSE Goto(r, "failed") /\ UNCHANGED lock
    /\ UNCHANGED <<rows, password, locals, sockets>>

(* mutant: the token is not verified again under the lock *)
Reverify_Skipped(r) ==
    /\ pc[r] = "rotate"
    /\ Goto(r, "issue")
    /\ UNCHANGED <<rows, password, lock, locals, sockets>>

(* super().validate verifies the token once more, *)
Reverify(r) ==
    /\ pc[r] = "rotate"
    /\ IF IsUsable(token[r])
         THEN Goto(r, "issue") /\ UNCHANGED lock
         ELSE Goto(r, "failed") /\ lock' = Unlocked(r)
    /\ UNCHANGED <<rows, password, locals, sockets>>

(* mutant: refresh_token_jti is that of a token never issued *)
Rotate_UnissuedJti(r) ==
    LET s == token[r][1]
        new == Token(s, issued[s] + 1)
    IN  /\ pc[r] = "issue"
        /\ issued[s] < MaxTokens
        /\ blacklisted' = blacklisted \union {token[r]}
        /\ outstanding' = outstanding \union {token[r], new}
        /\ issued' = [issued EXCEPT ![s] = @ + 1]
        /\ jti' = [jti EXCEPT ![s] = issued[s] + 2]
        /\ lock' = Unlocked(r)
        /\ Goto(r, "done")
        /\ UNCHANGED <<status, auth, secret, cookies, password, locals, sockets>>

(* blacklists it and makes the next one; the row is told of it.  Whether   *)
(* the library records the new one as outstanding depends on its version.  *)
Rotate(r) ==
    LET s == token[r][1]
        new == Token(s, issued[s] + 1)
    IN  /\ pc[r] = "issue"
        /\ issued[s] < MaxTokens
        /\ blacklisted' = blacklisted \union {token[r]}
        /\ \/ outstanding' = outstanding \union {token[r], new}
           \/ outstanding' = outstanding \union {token[r]}
        /\ issued' = [issued EXCEPT ![s] = @ + 1]
        /\ jti' = [jti EXCEPT ![s] = issued[s] + 1]
        /\ lock' = Unlocked(r)
        /\ Goto(r, "done")
        /\ UNCHANGED <<status, auth, secret, cookies, password, locals, sockets>>
------------------------------------------------------------------------------
(* revoke_device_session *)

(* LogoutView, DeviceSessionRevokeView, logout_view: the row is looked up, *)
FindSession(r) ==
    /\ pc[r] = "idle"
    /\ \E s \in Active : token' = [token EXCEPT ![r] = Token(s, jti[s])]
    /\ Goto(r, "revoke")
    /\ UNCHANGED <<rows, password, lock, mode, known, want, held, covered, sockets>>

(* and read again under its lock; an earlier revoke ends the call. *)
LockRevoke(r) ==
    LET s == token[r][1] IN
    /\ pc[r] = "revoke"
    /\ Free(s)
    /\ IF status[s] = "revoked"
         THEN Goto(r, "done") /\ UNCHANGED <<lock, held>>
         ELSE /\ lock' = [lock EXCEPT ![s] = r]
              /\ held' = [held EXCEPT ![r] = {s}]
              /\ Goto(r, "commit")
    /\ UNCHANGED <<rows, password, mode, token, known, want, covered, sockets>>

(* the row of the user, which save() locks to the end of a transaction     *)
AccountFree ==
    \A q \in Requests : mode[q] = "reset" => pc[q] \notin {"select", "lockAll", "commit"}

(* LogoutAllView, ChangePasswordView (the password is saved first, in a    *)
(* transaction of its own, and the caller's session is kept), both called  *)
(* with an access token, and PasswordResetOTPSerializer.save (one          *)
(* transaction, no session needed)                                         *)
StartRevokeAll(r) ==
    /\ pc[r] = "idle"
    /\ \E m \in {"logoutAll", "change", "reset"}, s \in Sessions :
         /\ m # "reset" => s \in Active /\ auth[s] = "API"
         /\ m # "logoutAll" => AccountFree
         /\ mode' = [mode EXCEPT ![r] = m]
         /\ token' = [token EXCEPT ![r] = Token(s, jti[s])]
         /\ password' = IF m = "change" THEN password + 1 ELSE password
         /\ known' = [known EXCEPT ![r] = password']
    /\ Goto(r, "select")
    /\ UNCHANGED <<rows, lock, want, held, covered, sockets>>

Kept(r) == IF mode[r] = "change" THEN {token[r][1]} ELSE {}

SelectAll(r) ==
    /\ pc[r] = "select"
    /\ want' = [want EXCEPT ![r] = Active \ Kept(r)]
    /\ covered' = [covered EXCEPT ![r] = Active \ Kept(r)]
    /\ Goto(r, "lockAll")
    /\ UNCHANGED <<rows, password, lock, mode, token, known, held, sockets>>

(* mutant: select_for_update(skip_locked=True) *)
LockNext_SkipLocked(r) ==
    /\ pc[r] = "lockAll"
    /\ \E s \in want[r] :
         /\ want' = [want EXCEPT ![r] = @ \ {s}]
         /\ IF Free(s) /\ NotRevoked(s)
              THEN /\ lock' = [lock EXCEPT ![s] = r]
                   /\ held' = [held EXCEPT ![r] = @ \union {s}]
              ELSE UNCHANGED <<lock, held>>
    /\ UNCHANGED <<rows, password, pc, mode, token, known, covered, sockets>>

(* The rows are locked one after the other.  The query orders them by      *)
(* last_used_at, which refreshes change from one query to the next, so two *)
(* calls may lock in different orders.                                     *)
LockNext(r) ==
    /\ pc[r] = "lockAll"
    /\ \E s \in want[r] :
         /\ Free(s)
         /\ want' = [want EXCEPT ![r] = @ \ {s}]
         /\ IF NotRevoked(s)
              THEN /\ lock' = [lock EXCEPT ![s] = r]
                   /\ held' = [held EXCEPT ![r] = @ \union {s}]
              ELSE UNCHANGED <<lock, held>>
    /\ UNCHANGED <<rows, password, pc, mode, token, known, covered, sockets>>

AllLocked(r) ==
    /\ pc[r] = "lockAll"
    /\ want[r] = {}
    /\ Goto(r, "commit")
    /\ UNCHANGED <<rows, password, lock, locals, sockets>>

(* the refresh token to blacklist: the one on the row read under the lock *)
CurrentToken(s) == Token(s, jti[s])

(* mutant: the token of the row as it was before the lock is blacklisted *)
CommitRevoke_StaleRow(r) ==
    /\ pc[r] = "commit"
    /\ status' = [s \in Sessions |-> IF s \in held[r] THEN "revoked" ELSE status[s]]
    /\ blacklisted' = blacklisted \union ({token[r]} \intersect outstanding)
    /\ cookies' = cookies \ held[r]
    /\ password' = IF mode[r] = "reset" THEN password + 1 ELSE password
    /\ want' = [want EXCEPT ![r] = held[r]]
    /\ lock' = Unlocked(r)
    /\ Goto(r, "broadcast")
    /\ UNCHANGED <<auth, secret, issued, jti, outstanding, mode, token, known, held, covered, sockets>>

CommitRevoke(r) ==
    /\ pc[r] = "commit"
    /\ status' = [s \in Sessions |-> IF s \in held[r] THEN "revoked" ELSE status[s]]
    /\ blacklisted' = blacklisted \union
         ({CurrentToken(s) : s \in {t \in held[r] : auth[t] = "API"}} \intersect outstanding)
    /\ cookies' = cookies \ held[r]
    /\ password' = IF mode[r] = "reset" THEN password + 1 ELSE password
    /\ want' = [want EXCEPT ![r] = held[r]]
    /\ lock' = Unlocked(r)
    /\ Goto(r, "broadcast")
    /\ UNCHANGED <<auth, secret, issued, jti, outstanding, mode, token, known, held, covered, sockets>>

(* mutant: only connections already accepted are told *)
InGroup_Accepted(s) == {k \in group : link[k] = s /\ socket[k] = "open"}

(* on_commit: broadcast_session_revoked to whoever is in the group by now *)
InGroup(s) == {k \in group : link[k] = s}

Broadcast(r) ==
    /\ pc[r] = "broadcast"
    /\ IF want[r] = {}
         THEN Goto(r, "done") /\ UNCHANGED <<want, mail>>
         ELSE \E s \in want[r] :
                /\ mail' = mail \union InGroup(s)
                /\ want' = [want EXCEPT ![r] = @ \ {s}]
                /\ UNCHANGED pc
    /\ UNCHANGED <<rows, password, lock, mode, token, known, held, covered, socket, link, group>>

(* PostgreSQL aborts one of the transactions that wait for each other in a *)
(* circle. *)
WaitsFor(r, q) == pc[r] = "lockAll" /\ \E s \in want[r] : lock[s] = q

InCircle(r) ==
    \E S \in SUBSET Requests : \E next \in [S -> S] :
        /\ r \in S
        /\ \A q \in S : WaitsFor(q, next[q]) /\ \E p \in S : next[p] = q

DeadlockVictim(r) ==
    /\ InCircle(r)
    /\ lock' = Unlocked(r)
    /\ Goto(r, "failed")
    /\ UNCHANGED <<rows, password, locals, sockets>>

Fail(r) ==
    /\ pc[r] \notin {"idle", "done", "failed"}
    /\ lock' = Unlocked(r)
    /\ Goto(r, "failed")
    /\ UNCHANGED <<rows, password, locals, sockets>>
------------------------------------------------------------------------------
(* The WebSocket of a session: the middlewares resolve its user and its    *)
(* session, then connect joins the session's group and accepts.            *)
requests == <<rows, password, lock, pc, locals>>
SetSocket(k, state) == socket' = [socket EXCEPT ![k] = state]

(* get_user_and_session_from_token *)
ResolveToken(k) ==
    /\ socket[k] = "new"
    /\ auth[link[k]] = "API" /\ status[link[k]] = "active"
    /\ SetSocket(k, "resolved")
    /\ UNCHANGED <<requests, link, group, mail>>

(* AuthMiddlewareStack: the Django session exists, and was made with the   *)
(* password the user has now                                               *)
LoadCookie(k) ==
    /\ socket[k] = "new"
    /\ link[k] \in cookies /\ secret[link[k]] = password
    /\ SetSocket(k, "cookie")
    /\ UNCHANGED <<requests, link, group, mail>>

(* get_device_session_id_for_cookie_user: the user stays authenticated     *)
(* also when no active DeviceSession is found, without a session to join.  *)
ResolveCookie(k) ==
    /\ socket[k] = "cookie"
    /\ SetSocket(k, IF status[link[k]] = "active" THEN "resolved" ELSE "accepting")
    /\ UNCHANGED <<requests, link, group, mail>>

JoinGroup(k) ==
    /\ socket[k] = "resolved"
    /\ SetSocket(k, "accepting")
    /\ group' = group \union {k}
    /\ UNCHANGED <<requests, link, mail>>

Accept(k) ==
    /\ socket[k] = "accepting"
    /\ SetSocket(k, "open")
    /\ UNCHANGED <<requests, link, group, mail>>

Close(k) ==
    /\ SetSocket(k, "closed")
    /\ group' = group \ {k}
    /\ mail' = mail \ {k}
    /\ UNCHANGED <<requests, link>>

(* the broadcast_session_revoked handler, which runs after connect *)
ForceClose(k) == socket[k] = "open" /\ k \in mail /\ Close(k)

(* the client goes away *)
Disconnect(k) == socket[k] = "open" /\ Close(k)
------------------------------------------------------------------------------
Login(r) == Authenticate(r) \/ CreateSession(r)
Refresh(r) == VerifyRefresh(r) \/ LockRefresh(r) \/ Reverify(r) \/ Rotate(r)
Revoke(r) == FindSession(r) \/ LockRevoke(r) \/ CommitRevoke(r) \/ Broadcast(r)
RevokeAll(r) == StartRevokeAll(r) \/ SelectAll(r) \/ LockNext(r) \/ AllLocked(r)
Connect(k) == ResolveToken(k) \/ LoadCookie(k)
Connecting(k) == ResolveCookie(k) \/ JoinGroup(k) \/ Accept(k) \/ ForceClose(k)

Next == \/ \E r \in Requests : \/ Login(r) \/ Refresh(r) \/ Revoke(r)
                               \/ RevokeAll(r) \/ DeadlockVictim(r) \/ Fail(r)
        \/ \E k \in Sockets : Connect(k) \/ Connecting(k) \/ Disconnect(k)

Spec == Init /\ [][Next]_vars

(* Started requests run on (the database grants locks and breaks           *)
(* deadlocks), and so do the consumers of sockets.  Nobody has to start a  *)
(* request, to connect or to go away.                                      *)
Proceed(r) == /\ pc[r] # "idle"
              /\ \/ Login(r) \/ Refresh(r) \/ Revoke(r) \/ RevokeAll(r)
                 \/ DeadlockVictim(r)

Fairness == /\ \A r \in Requests : WF_vars(Proceed(r))
            /\ \A k \in Sockets : WF_vars(Connecting(k))

FairSpec == Spec /\ Fairness
------------------------------------------------------------------------------
Steps == {"idle", "login", "refresh", "rotate", "issue", "revoke", "select",
          "lockAll", "commit", "broadcast", "done", "failed"}
Tokens == Sessions \X (0 .. MaxTokens)

TypeOK ==
    /\ status \in [Sessions -> {"none", "active", "revoked"}]
    /\ auth \in [Sessions -> {"API", "WEB"}]
    /\ secret \in [Sessions -> Nat]
    /\ issued \in [Sessions -> 0 .. MaxTokens]
    /\ jti \in [Sessions -> 0 .. MaxTokens]
    /\ outstanding \in SUBSET Tokens
    /\ blacklisted \in SUBSET Tokens
    /\ cookies \in SUBSET Sessions
    /\ password \in Nat
    /\ lock \in [Sessions -> Requests \union {NoRequest}]
    /\ pc \in [Requests -> Steps]
    /\ mode \in [Requests -> {"one", "logoutAll", "change", "reset"}]
    /\ token \in [Requests -> Tokens]
    /\ known \in [Requests -> Nat]
    /\ want \in [Requests -> SUBSET Sessions]
    /\ held \in [Requests -> SUBSET Sessions]
    /\ covered \in [Requests -> SUBSET Sessions]
    /\ socket \in [Sockets -> {"new", "cookie", "resolved", "accepting",
                             "open", "closed"}]
    /\ link \in [Sockets -> Sessions]
    /\ group \in SUBSET Sockets
    /\ mail \in SUBSET Sockets

(* A session has at most one refresh token that still works, and it is the *)
(* one on its row: concurrent refreshes with one token, or a refresh       *)
(* racing a revoke, never leave a second one alive, which no revoke would  *)
(* ever blacklist (DeviceSessionRefreshSerializer.validate).               *)
OneLiveToken ==
    \A s \in Sessions : \A n \in 1 .. issued[s] :
        Token(s, n) \notin blacklisted => n = jti[s]

(* No token is issued for a session once it is revoked, however long the   *)
(* refresh waited for the row.                                             *)
NoTokenAfterRevoke ==
    [][\A s \in Sessions : status[s] = "revoked" => issued'[s] = issued[s]]_vars

(* Revoking takes the credentials away: the refresh token the row ended up *)
(* with is blacklisted (if the library knows it), the Django session is    *)
(* gone (revoke_device_session).                                           *)
RevokedHasNoCredentials ==
    \A s \in Sessions :
        status[s] = "revoked" =>
            /\ s \notin cookies
            /\ (auth[s] = "API" /\ Token(s, jti[s]) \in outstanding) =>
                   Token(s, jti[s]) \in blacklisted

(* When revoke_all_device_sessions has committed, every session it found   *)
(* is revoked, by itself or by whoever held the row before.                *)
RevokeAllCovers ==
    \A r \in Requests :
        pc[r] \in {"broadcast", "done"} =>
            \A s \in covered[r] : status[s] = "revoked"

(* Every socket that is in the group of a session when its revocation is   *)
(* broadcast is closed, accepted already or not.                           *)
MembersAreClosed ==
    \A r \in Requests, k \in Sockets :
        (pc[r] = "broadcast" /\ link[k] \in want[r] /\ k \in group)
            ~> (socket[k] = "closed" \/ pc[r] = "failed")

(* No request waits for a session's row forever. *)
LocksAreGranted ==
    \A r \in Requests :
        pc[r] \in {"refresh", "revoke", "lockAll"}
            ~> pc[r] \in {"rotate", "broadcast", "done", "failed"}

(* "Force-disconnects every WebSocket connection tied to one               *)
(* DeviceSession" (broadcast_session_revoked): once the broadcasts are     *)
(* done, no socket of a revoked session stays open.                        *)
RevokedSocketsClose ==
    \A k \in Sockets, r \in Requests :
        (pc[r] = "done" /\ link[k] \in held[r] /\ socket[k] = "open")
            ~> socket[k] = "closed"
==============================================================================
