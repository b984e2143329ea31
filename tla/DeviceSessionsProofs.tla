-------------------------- MODULE DeviceSessionsProofs --------------------------
(***************************************************************************)
(* The safety properties of DeviceSessions for any number of sessions,     *)
(* requests, sockets and tokens.                                           *)
(*                                                                         *)
(* The argument: the row of a session that exists is changed by whoever    *)
(* holds its lock, and by nobody else.  So what a refresh or a revoke has  *)
(* read under the lock is still true when it writes.                       *)
(***************************************************************************)
EXTENDS DeviceSessions, TLAPS

USE DEF Token

LEMMA InitTypes == Init => TypeOK
  <1> SUFFICES ASSUME Init PROVE TypeOK
    OBVIOUS
  <1> USE MaxTokensAssumption
  <1>1. issued \in [Sessions -> 0 .. MaxTokens] /\ jti \in [Sessions -> 0 .. MaxTokens]
    BY DEF Init, Active
  <1>2. outstanding \in SUBSET Tokens /\ cookies \in SUBSET Sessions
    BY DEF Init, Tokens, Active
  <1>3. token \in [Requests -> Tokens]
    BY DEF Init, Tokens
  <1>4. status \in [Sessions -> {"none", "active", "revoked"}]
    BY DEF Init
  <1> QED
    BY <1>1, <1>2, <1>3, <1>4 DEF Init, TypeOK, Steps

LEMMA UnlockedType ==
  ASSUME TypeOK, NEW r \in Requests
  PROVE  Unlocked(r) \in [Sessions -> Requests \union {NoRequest}]
  BY DEF TypeOK, Unlocked

LEMMA TokenType ==
  ASSUME TypeOK, NEW s \in Sessions
  PROVE  /\ Token(s, jti[s]) \in Tokens
         /\ issued[s] < MaxTokens => /\ issued[s] + 1 \in 0 .. MaxTokens
                                     /\ Token(s, issued[s] + 1) \in Tokens
  BY MaxTokensAssumption DEF TypeOK, Tokens

LEMMA NextTypes == TypeOK /\ [Next]_vars => TypeOK'
  <1> SUFFICES ASSUME TypeOK, [Next]_vars PROVE TypeOK'
    OBVIOUS
  <1> USE DEF Goto, Steps, rows, locals, sockets
  <1>1. ASSUME NEW r \in Requests, Authenticate(r) PROVE TypeOK'
    BY <1>1 DEF Authenticate, TypeOK
  <1>2. ASSUME NEW r \in Requests, CreateSession(r) PROVE TypeOK'
    <2>1. PICK s \in Sessions :
             /\ status[s] = "none"
             /\ status' = [status EXCEPT ![s] = "active"]
             /\ secret' = [secret EXCEPT ![s] = known[r]]
             /\ IF auth[s] = "API"
                  THEN /\ issued' = [issued EXCEPT ![s] = 1]
                       /\ jti' = [jti EXCEPT ![s] = 1]
                       /\ outstanding' = outstanding \union {Token(s, 1)}
                       /\ UNCHANGED cookies
                  ELSE /\ cookies' = cookies \union {s}
                       /\ UNCHANGED <<issued, jti, outstanding>>
      BY <1>2 DEF CreateSession
    <2>2. Token(s, 1) \in Tokens /\ 1 \in 0 .. MaxTokens
      BY MaxTokensAssumption DEF Tokens
    <2>3. /\ issued' \in [Sessions -> 0 .. MaxTokens] /\ jti' \in [Sessions -> 0 .. MaxTokens]
          /\ outstanding' \in SUBSET Tokens /\ cookies' \in SUBSET Sessions
      BY <2>1, <2>2 DEF TypeOK
    <2>4. /\ status' \in [Sessions -> {"none", "active", "revoked"}]
          /\ secret' \in [Sessions -> Nat]
      BY <2>1 DEF TypeOK
    <2> QED
      BY <1>2, <2>3, <2>4 DEF CreateSession, TypeOK
  <1>3. ASSUME NEW r \in Requests, VerifyRefresh(r) PROVE TypeOK'
    BY <1>3, MaxTokensAssumption DEF VerifyRefresh, TypeOK, Tokens
  <1>4. ASSUME NEW r \in Requests, LockRefresh(r) PROVE TypeOK'
    BY <1>4 DEF LockRefresh, TypeOK
  <1>5. ASSUME NEW r \in Requests, Reverify(r) PROVE TypeOK'
    BY <1>5, UnlockedType DEF Reverify, TypeOK
  <1>6. ASSUME NEW r \in Requests, Rotate(r) PROVE TypeOK'
    <2>1. token[r] \in Tokens /\ token[r][1] \in Sessions
      BY DEF TypeOK, Tokens
    <2>2. /\ Token(token[r][1], issued[token[r][1]] + 1) \in Tokens
          /\ issued[token[r][1]] + 1 \in 0 .. MaxTokens
      BY <1>6, <2>1, TokenType DEF Rotate
    <2>3. blacklisted' \in SUBSET Tokens /\ outstanding' \in SUBSET Tokens
      BY <1>6, <2>1, <2>2 DEF Rotate, TypeOK
    <2>4. issued' \in [Sessions -> 0 .. MaxTokens] /\ jti' \in [Sessions -> 0 .. MaxTokens]
      BY <1>6, <2>1, <2>2 DEF Rotate, TypeOK
    <2> QED
      BY <1>6, <2>3, <2>4, UnlockedType DEF Rotate, TypeOK
  <1>7. ASSUME NEW r \in Requests, FindSession(r) PROVE TypeOK'
    <2>1. token' \in [Requests -> Tokens]
      BY <1>7, TokenType DEF FindSession, TypeOK, Active
    <2> QED
      BY <1>7, <2>1 DEF FindSession, TypeOK
  <1>8. ASSUME NEW r \in Requests, LockRevoke(r) PROVE TypeOK'
    <2>1. token[r][1] \in Sessions
      BY DEF TypeOK, Tokens
    <2>2. /\ lock' \in [Sessions -> Requests \union {NoRequest}]
          /\ held' \in [Requests -> SUBSET Sessions] /\ pc' \in [Requests -> Steps]
      <3>1. CASE status[token[r][1]] = "revoked"
        BY <1>8, <3>1 DEF LockRevoke, TypeOK
      <3>2. CASE status[token[r][1]] # "revoked"
        <4>1. /\ lock' = [lock EXCEPT ![token[r][1]] = r]
              /\ held' = [held EXCEPT ![r] = {token[r][1]}]
              /\ pc' = [pc EXCEPT ![r] = "commit"]
          BY <1>8, <3>2 DEF LockRevoke
        <4>2. {token[r][1]} \in SUBSET Sessions
          BY <2>1
        <4> QED
          BY <4>1, <4>2, <2>1 DEF TypeOK
      <3> QED
        BY <3>1, <3>2
    <2> QED
      BY <1>8, <2>2 DEF LockRevoke, TypeOK
  <1>9. ASSUME NEW r \in Requests, StartRevokeAll(r) PROVE TypeOK'
    <2>1. PICK m \in {"logoutAll", "change", "reset"}, s \in Sessions :
             /\ mode' = [mode EXCEPT ![r] = m]
             /\ token' = [token EXCEPT ![r] = Token(s, jti[s])]
             /\ password' = IF m = "change" THEN password + 1 ELSE password
             /\ known' = [known EXCEPT ![r] = password']
      BY <1>9 DEF StartRevokeAll
    <2>2. token' \in [Requests -> Tokens]
      BY <2>1, TokenType DEF TypeOK
    <2>3. password' \in Nat /\ known' \in [Requests -> Nat]
      BY <2>1 DEF TypeOK
    <2>4. mode' \in [Requests -> {"one", "logoutAll", "change", "reset"}]
      BY <2>1 DEF TypeOK
    <2> QED
      BY <1>9, <2>2, <2>3, <2>4 DEF StartRevokeAll, TypeOK
  <1>10. ASSUME NEW r \in Requests, SelectAll(r) PROVE TypeOK'
    <2>1. Active \ Kept(r) \in SUBSET Sessions
      BY DEF Active
    <2> QED
      BY <1>10, <2>1 DEF SelectAll, TypeOK
  <1>11. ASSUME NEW r \in Requests, LockNext(r) PROVE TypeOK'
    <2>1. PICK s \in want[r] :
             /\ want' = [want EXCEPT ![r] = @ \ {s}]
             /\ IF NotRevoked(s)
                  THEN /\ lock' = [lock EXCEPT ![s] = r]
                       /\ held' = [held EXCEPT ![r] = @ \union {s}]
                  ELSE UNCHANGED <<lock, held>>
      BY <1>11 DEF LockNext
    <2>2. s \in Sessions /\ want' \in [Requests -> SUBSET Sessions]
      BY <2>1 DEF TypeOK
    <2>3. /\ held' \in [Requests -> SUBSET Sessions]
          /\ lock' \in [Sessions -> Requests \union {NoRequest}]
      BY <2>1, <2>2 DEF TypeOK
    <2> QED
      BY <1>11, <2>2, <2>3 DEF LockNext, TypeOK
  <1>12. ASSUME NEW r \in Requests, AllLocked(r) PROVE TypeOK'
    BY <1>12 DEF AllLocked, TypeOK
  <1>13. ASSUME NEW r \in Requests, CommitRevoke(r) PROVE TypeOK'
    <2>1. status' \in [Sessions -> {"none", "active", "revoked"}]
      BY <1>13 DEF CommitRevoke, TypeOK
    <2>2. blacklisted' \in SUBSET Tokens /\ cookies' \in SUBSET Sessions /\ password' \in Nat
      BY <1>13 DEF CommitRevoke, TypeOK
    <2>3. want' \in [Requests -> SUBSET Sessions]
      BY <1>13 DEF CommitRevoke, TypeOK
    <2> QED
      BY <1>13, <2>1, <2>2, <2>3, UnlockedType DEF CommitRevoke, TypeOK
  <1>14. ASSUME NEW r \in Requests, Broadcast(r) PROVE TypeOK'
    <2>1. /\ want' \in [Requests -> SUBSET Sessions] /\ mail' \in SUBSET Sockets
          /\ pc' \in [Requests -> Steps]
      BY <1>14 DEF Broadcast, InGroup, TypeOK
    <2> QED
      BY <1>14, <2>1 DEF Broadcast, TypeOK
  <1>15. ASSUME NEW r \in Requests, DeadlockVictim(r) \/ Fail(r) PROVE TypeOK'
    <2>1. lock' \in [Sessions -> Requests \union {NoRequest}]
      BY <1>15, UnlockedType DEF DeadlockVictim, Fail
    <2> QED
      BY <1>15, <2>1 DEF DeadlockVictim, Fail, TypeOK
  <1>16. ASSUME NEW k \in Sockets, Connect(k) \/ Connecting(k) \/ Disconnect(k) PROVE TypeOK'
    BY <1>16 DEF Connect, Connecting, Disconnect, ResolveToken, LoadCookie, ResolveCookie,
                 JoinGroup, Accept, ForceClose, Close, SetSocket, requests, TypeOK
  <1>17. CASE UNCHANGED vars
    BY <1>17 DEF vars, TypeOK
  <1> QED
    BY <1>1, <1>2, <1>3, <1>4, <1>5, <1>6, <1>7, <1>8, <1>9, <1>10, <1>11, <1>12,
       <1>13, <1>14, <1>15, <1>16, <1>17
       DEF Next, Login, Refresh, Revoke, RevokeAll
------------------------------------------------------------------------------
(* What a request between two of its steps may rely on. *)

(* The rows it has locked are its own and in use. *)
RowLocks ==
    \A r \in Requests :
        /\ pc[r] \in {"rotate", "issue"} =>
             /\ lock[token[r][1]] = r
             /\ status[token[r][1]] = "active"
        /\ pc[r] \in {"lockAll", "commit"} =>
             \A s \in held[r] : lock[s] = r /\ status[s] = "active"

(* A request that has not come to a revoke holds no row. *)
Before == {"idle", "login", "refresh", "rotate", "issue", "revoke", "select"}

NothingYet ==
    \A r \in Requests :
        pc[r] \in Before => held[r] = {} /\ covered[r] = {}

(* The row that a request looked up exists. *)
RowExists ==
    \A r \in Requests :
        /\ pc[r] = "revoke" => status[token[r][1]] # "none"
        /\ pc[r] \in {"refresh", "rotate", "issue"} =>
             token[r][2] \in 1 .. issued[token[r][1]]

(* A row knows the last token that was issued for it. *)
RowKnowsToken ==
    \A s \in Sessions :
        /\ jti[s] = issued[s]
        /\ status[s] = "none" => issued[s] = 0

(* The token about to be rotated is still good. *)
RotatesLive ==
    \A r \in Requests : pc[r] = "issue" => token[r] \notin blacklisted

Base == TypeOK /\ RowLocks /\ NothingYet /\ RowExists /\ RowKnowsToken

LEMMA InitBase == Init => Base
  <1> SUFFICES ASSUME Init PROVE Base
    OBVIOUS
  <1>1. TypeOK
    BY InitTypes
  <1>2. RowLocks /\ NothingYet /\ RowExists
    BY DEF Init, RowLocks, NothingYet, RowExists
  <1>3. RowKnowsToken
    BY DEF Init, RowKnowsToken, Active
  <1> QED
    BY <1>1, <1>2, <1>3 DEF Base

(* Steps that change no row and no lock. *)
Moves(r) ==
    \/ Authenticate(r) \/ VerifyRefresh(r) \/ FindSession(r) \/ StartRevokeAll(r)
    \/ SelectAll(r) \/ AllLocked(r) \/ Broadcast(r)

Locks(r) == LockRefresh(r) \/ LockRevoke(r) \/ LockNext(r)
Ends(r) == DeadlockVictim(r) \/ Fail(r)

(* The steps, by what they do to the rows and the locks. *)
LEMMA StepKinds ==
  ASSUME [Next]_vars
  PROVE  \/ \E r \in Requests : Moves(r)
         \/ \E r \in Requests : Locks(r)
         \/ \E r \in Requests : Reverify(r)
         \/ \E r \in Requests : Ends(r)
         \/ \E r \in Requests : CreateSession(r)
         \/ \E r \in Requests : Rotate(r)
         \/ \E r \in Requests : CommitRevoke(r)
         \/ UNCHANGED <<rows, password, lock, pc, locals>>
  <1>1. ASSUME NEW k \in Sockets, Connect(k) \/ Connecting(k) \/ Disconnect(k)
        PROVE  UNCHANGED <<rows, password, lock, pc, locals>>
    BY <1>1 DEF Connect, Connecting, Disconnect, ResolveToken, LoadCookie, ResolveCookie,
                JoinGroup, Accept, ForceClose, Close, requests
  <1>2. UNCHANGED vars => UNCHANGED <<rows, password, lock, pc, locals>>
    BY DEF vars
  <1> QED
    BY <1>1, <1>2 DEF Next, Login, Refresh, Revoke, RevokeAll, Moves, Locks, Ends

LEMMA MovesKeep ==
  ASSUME NEW r \in Requests, Moves(r) \/ Locks(r) \/ Reverify(r) \/ Ends(r)
  PROVE  UNCHANGED rows
  BY DEF Moves, Locks, Ends, Authenticate, VerifyRefresh, FindSession, StartRevokeAll,
         SelectAll, AllLocked, Broadcast, LockRefresh, LockRevoke, LockNext, Reverify,
         DeadlockVictim, Fail

LEMMA NextRowLocks == Base /\ [Next]_vars => RowLocks'
  <1> SUFFICES ASSUME Base, [Next]_vars PROVE RowLocks'
    OBVIOUS
  <1> USE DEF Base, Goto, rows, locals
  <1>a. NoRequest \notin Requests
    BY NoRequestAssumption
  <1>t. \A r \in Requests : token[r][1] \in Sessions
    BY DEF TypeOK, Tokens
  <1>1. ASSUME NEW r \in Requests, Moves(r) PROVE RowLocks'
    <2>1. UNCHANGED <<status, lock>> /\ \A q \in Requests \ {r} : UNCHANGED <<pc[q], token[q], held[q]>>
      BY <1>1 DEF TypeOK, Moves, Authenticate, VerifyRefresh, FindSession,
                  StartRevokeAll, SelectAll, AllLocked, Broadcast
    <2>2. CASE SelectAll(r) \/ AllLocked(r)
      BY <2>1, <2>2 DEF TypeOK, RowLocks, NothingYet, Before, SelectAll, AllLocked
    <2>3. CASE ~(SelectAll(r) \/ AllLocked(r))
      <3>1. pc'[r] \notin {"rotate", "issue", "lockAll", "commit"}
        BY <1>1, <2>3 DEF TypeOK, Moves, Authenticate, VerifyRefresh, FindSession,
                          StartRevokeAll, Broadcast
      <3> QED
        BY <2>1, <3>1 DEF RowLocks
    <2> QED
      BY <2>2, <2>3
  <1>2. ASSUME NEW r \in Requests, LockRefresh(r) PROVE RowLocks'
    BY <1>2, <1>a, <1>t DEF LockRefresh, Free, NotRevoked, TypeOK, RowLocks
  <1>3. ASSUME NEW r \in Requests, LockRevoke(r) PROVE RowLocks'
    BY <1>3, <1>a, <1>t DEF LockRevoke, Free, TypeOK, RowLocks, RowExists
  <1>4. ASSUME NEW r \in Requests, LockNext(r) PROVE RowLocks'
    BY <1>4, <1>a, <1>t DEF LockNext, Free, NotRevoked, TypeOK, RowLocks
  <1>5. ASSUME NEW r \in Requests, Reverify(r) PROVE RowLocks'
    BY <1>5, <1>t DEF Reverify, Unlocked, TypeOK, RowLocks
  <1>6. ASSUME NEW r \in Requests, Ends(r) PROVE RowLocks'
    BY <1>6, <1>t DEF Ends, DeadlockVictim, Fail, Unlocked, TypeOK, RowLocks
  <1>7. ASSUME NEW r \in Requests, CreateSession(r) PROVE RowLocks'
    BY <1>7, <1>t DEF CreateSession, TypeOK, RowLocks
  <1>8. ASSUME NEW r \in Requests, Rotate(r) PROVE RowLocks'
    BY <1>8, <1>t DEF Rotate, Unlocked, TypeOK, RowLocks
  <1>9. ASSUME NEW r \in Requests, CommitRevoke(r) PROVE RowLocks'
    BY <1>9, <1>t DEF CommitRevoke, Unlocked, TypeOK, RowLocks
  <1>10. CASE UNCHANGED <<rows, password, lock, pc, locals>>
    BY <1>10 DEF RowLocks
  <1> QED
    BY <1>1, <1>2, <1>3, <1>4, <1>5, <1>6, <1>7, <1>8, <1>9, <1>10, StepKinds DEF Locks

LEMMA NextNothingYet == Base /\ [Next]_vars => NothingYet'
  <1> SUFFICES ASSUME Base, [Next]_vars PROVE NothingYet'
    OBVIOUS
  <1> USE DEF Base, Goto, locals
  <1>1. ASSUME NEW r \in Requests, Moves(r) PROVE NothingYet'
    BY <1>1 DEF Moves, Authenticate, VerifyRefresh, FindSession, StartRevokeAll, SelectAll,
                AllLocked, Broadcast, TypeOK, NothingYet, Before
  <1>2. ASSUME NEW r \in Requests, Locks(r) PROVE NothingYet'
    BY <1>2 DEF Locks, LockRefresh, LockRevoke, LockNext, TypeOK, NothingYet, Before
  <1>3. ASSUME NEW r \in Requests, Reverify(r) \/ Ends(r) PROVE NothingYet'
    BY <1>3 DEF Reverify, Ends, DeadlockVictim, Fail, TypeOK, NothingYet, Before
  <1>4. ASSUME NEW r \in Requests, CreateSession(r) \/ Rotate(r) \/ CommitRevoke(r)
        PROVE  NothingYet'
    BY <1>4 DEF CreateSession, Rotate, CommitRevoke, TypeOK, NothingYet, Before
  <1>5. CASE UNCHANGED <<rows, password, lock, pc, locals>>
    BY <1>5 DEF NothingYet
  <1> QED
    BY <1>1, <1>2, <1>3, <1>4, <1>5, StepKinds

LEMMA NextRowExists == Base /\ [Next]_vars => RowExists'
  <1> SUFFICES ASSUME Base, [Next]_vars PROVE RowExists'
    OBVIOUS
  <1> USE DEF Base, Goto, rows, locals
  <1>t. \A r \in Requests : token[r][1] \in Sessions /\ token[r][2] \in Nat
    BY DEF TypeOK, Tokens
  <1>i. \A s \in Sessions : issued[s] \in Nat
    BY DEF TypeOK
  <1>1. ASSUME NEW r \in Requests, Moves(r) PROVE RowExists'
    <2>1. CASE VerifyRefresh(r)
      BY <1>i, <2>1 DEF VerifyRefresh, TypeOK, RowExists
    <2>2. CASE FindSession(r)
      BY <2>2 DEF FindSession, Active, TypeOK, RowExists
    <2>3. CASE ~(VerifyRefresh(r) \/ FindSession(r))
      BY <1>1, <2>3 DEF Moves, Authenticate, StartRevokeAll, SelectAll, AllLocked, Broadcast,
                        TypeOK, RowExists
    <2> QED
      BY <2>1, <2>2, <2>3
  <1>2. ASSUME NEW r \in Requests, Locks(r) PROVE RowExists'
    BY <1>2 DEF Locks, LockRefresh, LockRevoke, LockNext, TypeOK, RowExists
  <1>3. ASSUME NEW r \in Requests, Reverify(r) \/ Ends(r) PROVE RowExists'
    BY <1>3 DEF Reverify, Ends, DeadlockVictim, Fail, TypeOK, RowExists
  <1>4. ASSUME NEW r \in Requests, CreateSession(r) PROVE RowExists'
    <2>1. /\ \A s \in Sessions : status'[s] = "none" => status[s] = "none"
          /\ \A s \in Sessions : issued'[s] = issued[s] \/ issued[s] = 0
      BY <1>4 DEF CreateSession, TypeOK, RowKnowsToken
    <2> QED
      BY <1>4, <1>t, <1>i, <2>1 DEF CreateSession, TypeOK, RowExists
  <1>5. ASSUME NEW r \in Requests, Rotate(r) PROVE RowExists'
    BY <1>5, <1>t, <1>i DEF Rotate, TypeOK, RowExists
  <1>6. ASSUME NEW r \in Requests, CommitRevoke(r) PROVE RowExists'
    BY <1>6, <1>t DEF CommitRevoke, TypeOK, RowExists
  <1>7. CASE UNCHANGED <<rows, password, lock, pc, locals>>
    BY <1>7 DEF RowExists
  <1> QED
    BY <1>1, <1>2, <1>3, <1>4, <1>5, <1>6, <1>7, StepKinds

LEMMA NextRowKnowsToken == Base /\ [Next]_vars => RowKnowsToken'
  <1> SUFFICES ASSUME Base, [Next]_vars PROVE RowKnowsToken'
    OBVIOUS
  <1> USE DEF Base, rows
  <1>t. \A r \in Requests : token[r][1] \in Sessions
    BY DEF TypeOK, Tokens
  <1>1. CASE UNCHANGED rows
    BY <1>1 DEF RowKnowsToken
  <1>2. ASSUME NEW r \in Requests, CreateSession(r) PROVE RowKnowsToken'
    BY <1>2 DEF CreateSession, TypeOK, RowKnowsToken
  <1>3. ASSUME NEW r \in Requests, Rotate(r) PROVE RowKnowsToken'
    BY <1>3, <1>t DEF Rotate, TypeOK, RowKnowsToken, RowLocks
  <1>4. ASSUME NEW r \in Requests, CommitRevoke(r) PROVE RowKnowsToken'
    BY <1>4 DEF CommitRevoke, TypeOK, RowKnowsToken, RowLocks
  <1> QED
    BY <1>1, <1>2, <1>3, <1>4, StepKinds, MovesKeep

LEMMA NextBase == Base /\ [Next]_vars => Base'
  BY NextTypes, NextRowLocks, NextNothingYet, NextRowExists, NextRowKnowsToken DEF Base

LEMMA BaseHolds == Spec => []Base
  BY InitBase, NextBase, PTL DEF Spec

(* Every variable keeps its type, the bounds included. *)
THEOREM TypeCorrect == Spec => []TypeOK
  BY BaseHolds, PTL DEF Base
------------------------------------------------------------------------------
(* Tokens *)

(* The tokens of a row that a step blacklists, or adds, are those of rows  *)
(* the request holds; so the others keep theirs.                           *)
TokenInv == Base /\ OneLiveToken /\ RotatesLive

LEMMA NextRotatesLive == Base /\ RotatesLive /\ [Next]_vars => RotatesLive'
  <1> SUFFICES ASSUME Base, RotatesLive, [Next]_vars PROVE RotatesLive'
    OBVIOUS
  <1> USE DEF Base, Goto, rows, locals
  <1>1. ASSUME NEW r \in Requests, Moves(r) \/ Locks(r) \/ Ends(r) PROVE RotatesLive'
    <2>1. CASE Moves(r)
      <3>1. UNCHANGED blacklisted /\ \A q \in Requests \ {r} : UNCHANGED <<pc[q], token[q]>>
        BY <2>1 DEF Moves, Authenticate, VerifyRefresh, FindSession, StartRevokeAll,
                    SelectAll, AllLocked, Broadcast, TypeOK
      <3>2. pc'[r] # "issue"
        BY <2>1 DEF Moves, Authenticate, VerifyRefresh, FindSession, StartRevokeAll,
                    SelectAll, AllLocked, Broadcast, TypeOK
      <3> QED
        BY <3>1, <3>2 DEF RotatesLive
    <2>2. CASE Locks(r)
      BY <2>2 DEF Locks, LockRefresh, LockRevoke, LockNext, TypeOK, RotatesLive
    <2>3. CASE Ends(r)
      BY <2>3 DEF Ends, DeadlockVictim, Fail, TypeOK, RotatesLive
    <2> QED
      BY <1>1, <2>1, <2>2, <2>3
  <1>2. ASSUME NEW r \in Requests, Reverify(r) PROVE RotatesLive'
    BY <1>2 DEF Reverify, IsUsable, TypeOK, RotatesLive
  <1>3. ASSUME NEW r \in Requests, CreateSession(r) PROVE RotatesLive'
    BY <1>3 DEF CreateSession, TypeOK, RotatesLive
  <1>4. ASSUME NEW r \in Requests, Rotate(r) PROVE RotatesLive'
    <2>1. \A q \in Requests \ {r} : pc[q] = "issue" => token[q] # token[r]
      BY <1>4 DEF Rotate, RowLocks
    <2> QED
      BY <1>4, <2>1 DEF Rotate, TypeOK, RotatesLive
  <1>5. ASSUME NEW r \in Requests, CommitRevoke(r) PROVE RotatesLive'
    <2>1. \A q \in Requests : pc[q] = "issue" => token[q][1] \notin held[r]
      BY <1>5 DEF CommitRevoke, RowLocks
    <2>2. \A t \in blacklisted' \ blacklisted : t[1] \in held[r]
      BY <1>5 DEF CommitRevoke, CurrentToken
    <2> QED
      BY <1>5, <2>1, <2>2 DEF CommitRevoke, TypeOK, RotatesLive
  <1>6. CASE UNCHANGED <<rows, password, lock, pc, locals>>
    BY <1>6 DEF RotatesLive
  <1> QED
    BY <1>1, <1>2, <1>3, <1>4, <1>5, <1>6, StepKinds

LEMMA NextOneLiveToken == TokenInv /\ [Next]_vars => OneLiveToken'
  <1> SUFFICES ASSUME TokenInv, [Next]_vars PROVE OneLiveToken'
    OBVIOUS
  <1> USE DEF TokenInv, Base, rows
  <1>i. \A s \in Sessions : issued[s] \in Nat
    BY DEF TypeOK
  <1>1. CASE UNCHANGED rows
    BY <1>1 DEF OneLiveToken
  <1>2. ASSUME NEW r \in Requests, CreateSession(r) PROVE OneLiveToken'
    <2>1. PICK s \in Sessions :
             IF auth[s] = "API"
               THEN issued' = [issued EXCEPT ![s] = 1] /\ jti' = [jti EXCEPT ![s] = 1]
               ELSE UNCHANGED <<issued, jti>>
      BY <1>2 DEF CreateSession
    <2> QED
      BY <1>2, <1>i, <2>1 DEF CreateSession, TypeOK, OneLiveToken
  <1>3. ASSUME NEW r \in Requests, Rotate(r) PROVE OneLiveToken'
    <2> DEFINE s == token[r][1]
    <2>1. s \in Sessions /\ token[r] = Token(s, token[r][2])
      BY DEF TypeOK, Tokens
    <2>2. \A n \in 1 .. issued[s] : Token(s, n) \notin blacklisted => n = token[r][2]
      BY <1>3, <1>i, <2>1 DEF Rotate, OneLiveToken, RotatesLive, RowExists
    <2>3. /\ issued' = [issued EXCEPT ![s] = @ + 1]
          /\ jti' = [jti EXCEPT ![s] = issued[s] + 1]
          /\ blacklisted' = blacklisted \union {token[r]}
      BY <1>3 DEF Rotate
    <2> SUFFICES ASSUME NEW x \in Sessions, NEW n \in 1 .. issued'[x],
                        Token(x, n) \notin blacklisted'
                 PROVE  n = jti'[x]
      BY DEF OneLiveToken
    <2>4. CASE x = s
      <3>1. issued'[s] = issued[s] + 1 /\ jti'[s] = issued[s] + 1
        BY <2>1, <2>3 DEF TypeOK
      <3>2. n \in 1 .. issued[s] => n = token[r][2]
        BY <2>2, <2>3, <2>4
      <3>3. token[r][2] = n => token[r] = Token(x, n)
        BY <2>1, <2>4
      <3> QED
        BY <1>i, <2>1, <2>3, <2>4, <3>1, <3>2, <3>3
    <2>5. CASE x # s
      BY <2>1, <2>3, <2>5 DEF TypeOK, OneLiveToken
    <2> QED
      BY <2>4, <2>5
  <1>4. ASSUME NEW r \in Requests, CommitRevoke(r) PROVE OneLiveToken'
    BY <1>4 DEF CommitRevoke, OneLiveToken
  <1> QED
    BY <1>1, <1>2, <1>3, <1>4, StepKinds, MovesKeep

(* At any time one refresh token of a session works, and its row knows it. *)
THEOREM OneTokenLives == Spec => []OneLiveToken
  <1>1. Init => TokenInv
    <2>1. Init => OneLiveToken /\ RotatesLive
      BY DEF Init, OneLiveToken, RotatesLive, Active
    <2> QED
      BY <2>1, InitBase DEF TokenInv
  <1>2. TokenInv /\ [Next]_vars => TokenInv'
    BY NextBase, NextRotatesLive, NextOneLiveToken DEF TokenInv
  <1> QED
    BY <1>1, <1>2, PTL DEF Spec, TokenInv
------------------------------------------------------------------------------
(* Revocation *)

(* A session once revoked is never used again: its row, its token and its  *)
(* cookie stay as they are.                                                *)
RevokedRowIsFinal(s) ==
    /\ status'[s] = "revoked"
    /\ auth'[s] = auth[s] /\ issued'[s] = issued[s] /\ jti'[s] = jti[s]
    /\ s \in cookies' => s \in cookies
    /\ \A n \in Nat : Token(s, n) \in outstanding' => Token(s, n) \in outstanding
    /\ blacklisted \subseteq blacklisted'

LEMMA RevokedStays ==
  ASSUME Base, [Next]_vars, NEW s \in Sessions, status[s] = "revoked"
  PROVE  RevokedRowIsFinal(s)
  <1> USE DEF Base, rows, RevokedRowIsFinal
  <1>1. CASE UNCHANGED rows
    BY <1>1
  <1>2. ASSUME NEW r \in Requests, CreateSession(r) PROVE RevokedRowIsFinal(s)
    BY <1>2 DEF CreateSession, TypeOK
  <1>3. ASSUME NEW r \in Requests, Rotate(r) PROVE RevokedRowIsFinal(s)
    <2>1. token[r][1] # s /\ token[r][1] \in Sessions
      BY <1>3 DEF Rotate, RowLocks, TypeOK, Tokens
    <2>2. token[r] = Token(token[r][1], token[r][2])
      BY DEF TypeOK, Tokens
    <2> QED
      BY <1>3, <2>1, <2>2 DEF Rotate, TypeOK
  <1>4. ASSUME NEW r \in Requests, CommitRevoke(r) PROVE RevokedRowIsFinal(s)
    BY <1>4 DEF CommitRevoke, TypeOK
  <1> QED
    BY <1>1, <1>2, <1>3, <1>4, StepKinds, MovesKeep

(* However long a refresh waited for the row, it gets no token after a     *)
(* revoke.                                                                 *)
THEOREM NoneAfterRevoke == Spec => NoTokenAfterRevoke
  <1>1. Base /\ [Next]_vars =>
          [\A s \in Sessions : status[s] = "revoked" => issued'[s] = issued[s]]_vars
    BY RevokedStays DEF RevokedRowIsFinal
  <1> QED
    BY <1>1, BaseHolds, PTL DEF Spec, NoTokenAfterRevoke

LEMMA NextRevoked ==
  ASSUME Base, RevokedHasNoCredentials, [Next]_vars
  PROVE  RevokedHasNoCredentials'
  <1> SUFFICES ASSUME NEW s \in Sessions, status'[s] = "revoked"
               PROVE  /\ s \notin cookies'
                      /\ (auth'[s] = "API" /\ Token(s, jti'[s]) \in outstanding') =>
                            Token(s, jti'[s]) \in blacklisted'
    BY DEF RevokedHasNoCredentials
  <1>n. jti[s] \in Nat
    BY DEF Base, TypeOK
  <1>1. CASE status[s] = "revoked"
    BY <1>1, <1>n, RevokedStays DEF RevokedRowIsFinal, RevokedHasNoCredentials
  <1>2. CASE status[s] # "revoked"
    <2>1. PICK r \in Requests : CommitRevoke(r)
      BY <1>2, StepKinds, MovesKeep DEF rows, CreateSession, Rotate, Base, TypeOK
    <2>2. s \in held[r]
      BY <1>2, <2>1 DEF CommitRevoke, Base, TypeOK
    <2> QED
      BY <2>1, <2>2 DEF CommitRevoke, CurrentToken
  <1> QED
    BY <1>1, <1>2

(* Revoking takes the cookie and the token of the row as it is then. *)
THEOREM RevokeTakesCredentials == Spec => []RevokedHasNoCredentials
  <1>1. Init => RevokedHasNoCredentials
    BY DEF Init, RevokedHasNoCredentials
  <1>2. Base /\ RevokedHasNoCredentials /\ [Next]_vars => RevokedHasNoCredentials'
    BY NextRevoked
  <1> QED
    BY <1>1, <1>2, BaseHolds, PTL DEF Spec

(* A revoke-all still wants, holds or has seen revoked what it selected. *)
Covering ==
    \A r \in Requests :
        /\ pc[r] = "lockAll" =>
             /\ \A s \in covered[r] : s \in want[r] \union held[r] \/ status[s] = "revoked"
             /\ \A s \in covered[r] \union want[r] : status[s] # "none"
        /\ pc[r] = "commit" => \A s \in covered[r] : s \in held[r] \/ status[s] = "revoked"
        /\ pc[r] \in {"broadcast", "done"} => \A s \in covered[r] : status[s] = "revoked"

LEMMA StatusMovesOn ==
  ASSUME Base, [Next]_vars, NEW s \in Sessions
  PROVE  /\ status[s] # "none" => status'[s] # "none"
         /\ status[s] = "revoked" => status'[s] = "revoked"
  <1>1. status[s] # "none" => status'[s] # "none"
    BY StepKinds, MovesKeep DEF rows, CreateSession, Rotate, CommitRevoke, Base, TypeOK
  <1> QED
    BY <1>1, RevokedStays DEF RevokedRowIsFinal

LEMMA NextCovering ==
  ASSUME Base, Covering, [Next]_vars
  PROVE  Covering'
  <1> USE DEF Base, Goto, rows, locals
  <1>s. \A r \in Requests : covered[r] \subseteq Sessions /\ want[r] \subseteq Sessions
                            /\ held[r] \subseteq Sessions
    BY DEF TypeOK
  <1>m. \A s \in Sessions : /\ status[s] # "none" => status'[s] # "none"
                            /\ status[s] = "revoked" => status'[s] = "revoked"
    BY StatusMovesOn
  <1>1. ASSUME NEW r \in Requests, Moves(r) PROVE Covering'
    BY <1>1, <1>s DEF Moves, Authenticate, VerifyRefresh, FindSession, StartRevokeAll,
                SelectAll, AllLocked, Broadcast, Active, TypeOK, Covering
  <1>2. ASSUME NEW r \in Requests, LockRefresh(r) \/ LockRevoke(r) PROVE Covering'
    BY <1>2, <1>s DEF LockRefresh, LockRevoke, NothingYet, Before, TypeOK, Covering
  <1>3. ASSUME NEW r \in Requests, LockNext(r) PROVE Covering'
    BY <1>3, <1>s DEF LockNext, NotRevoked, TypeOK, Covering
  <1>4. ASSUME NEW r \in Requests, Reverify(r) \/ Ends(r) PROVE Covering'
    BY <1>4, <1>s DEF Reverify, Ends, DeadlockVictim, Fail, TypeOK, Covering
  <1>5. ASSUME NEW r \in Requests, CreateSession(r) \/ Rotate(r) PROVE Covering'
    BY <1>5, <1>s, <1>m DEF CreateSession, Rotate, NothingYet, Before, TypeOK, Covering
  <1>6. ASSUME NEW r \in Requests, CommitRevoke(r) PROVE Covering'
    BY <1>6, <1>s, <1>m DEF CommitRevoke, TypeOK, Covering
  <1>7. CASE UNCHANGED <<rows, password, lock, pc, locals>>
    BY <1>7 DEF Covering
  <1> QED
    BY <1>1, <1>2, <1>3, <1>4, <1>5, <1>6, <1>7, StepKinds DEF Locks

(* A revoke-all that has committed leaves none of the sessions it found. *)
THEOREM RevokeAllIsComplete == Spec => []RevokeAllCovers
  <1>1. Init => Covering
    BY DEF Init, Covering
  <1>2. Base /\ Covering /\ [Next]_vars => Covering'
    BY NextCovering
  <1>3. Covering => RevokeAllCovers
    BY DEF Covering, RevokeAllCovers
  <1> QED
    BY <1>1, <1>2, <1>3, BaseHolds, PTL DEF Spec
------------------------------------------------------------------------------
(* Locks *)

(* A row is locked by a request that is past its waiting, or by a          *)
(* revoke-all that locks row after row.                                    *)
HoldersRun ==
    \A s \in Sessions :
        lock[s] # NoRequest => pc[lock[s]] \in {"rotate", "issue", "lockAll", "commit"}

LEMMA NextHoldersRun == TypeOK /\ HoldersRun /\ [Next]_vars => HoldersRun'
  <1> SUFFICES ASSUME TypeOK, HoldersRun, [Next]_vars PROVE HoldersRun'
    OBVIOUS
  <1> USE NoRequestAssumption DEF Goto, rows, locals
  <1>t. /\ lock \in [Sessions -> Requests \union {NoRequest}]
        /\ pc \in [Requests -> Steps]
        /\ \A r \in Requests : token[r][1] \in Sessions /\ want[r] \subseteq Sessions
    BY DEF TypeOK, Tokens
  (* a step that takes no lock, of a request that holds none afterwards or  *)
  (* may hold what it has *)
  <1>s. ASSUME NEW r \in Requests,
               \A s \in Sessions : lock'[s] \in {lock[s], NoRequest},
               \A q \in Requests \ {r} : pc'[q] = pc[q],
               \/ \A s \in Sessions : lock'[s] # r
               \/ pc'[r] \in {"rotate", "issue", "lockAll", "commit"}
        PROVE  HoldersRun'
    BY <1>s, <1>t DEF HoldersRun
  <1>1. ASSUME NEW r \in Requests, Moves(r) \/ CreateSession(r) PROVE HoldersRun'
    <2>1. UNCHANGED lock /\ \A q \in Requests \ {r} : pc'[q] = pc[q]
      BY <1>1, <1>t DEF Moves, Authenticate, VerifyRefresh, FindSession, StartRevokeAll,
                        SelectAll, AllLocked, Broadcast, CreateSession
    <2>2. CASE AllLocked(r)
      BY <2>1, <2>2, <1>s, <1>t DEF AllLocked
    <2>3. CASE ~AllLocked(r)
      <3>1. pc[r] \in {"idle", "login", "select", "broadcast"}
        BY <1>1, <2>3 DEF Moves, Authenticate, VerifyRefresh, FindSession, StartRevokeAll,
                          SelectAll, Broadcast, CreateSession
      <3>2. \A s \in Sessions : lock[s] # r
        BY <3>1 DEF HoldersRun
      <3> QED
        BY <2>1, <3>2, <1>s
    <2> QED
      BY <2>2, <2>3
  <1>2. ASSUME NEW r \in Requests, Reverify(r) \/ Ends(r) \/ Rotate(r) \/ CommitRevoke(r)
        PROVE  HoldersRun'
    <2>1. \A q \in Requests \ {r} : pc'[q] = pc[q]
      BY <1>2, <1>t DEF Reverify, Ends, DeadlockVictim, Fail, Rotate, CommitRevoke
    <2>2. lock' = Unlocked(r) \/ (UNCHANGED lock /\ pc'[r] = "issue")
      BY <1>2, <1>t DEF Reverify, Ends, DeadlockVictim, Fail, Rotate, CommitRevoke
    <2> QED
      BY <2>1, <2>2, <1>s, <1>t DEF Unlocked
  <1>3. ASSUME NEW r \in Requests, Locks(r) PROVE HoldersRun'
    <2>1. PICK s \in Sessions : lock' \in {lock, [lock EXCEPT ![s] = r]}
      BY <1>3, <1>t DEF Locks, LockRefresh, LockRevoke, LockNext
    <2>2. \A q \in Requests \ {r} : pc'[q] = pc[q]
      BY <1>3, <1>t DEF Locks, LockRefresh, LockRevoke, LockNext
    <2>3. CASE pc'[r] \in {"rotate", "lockAll", "commit"}
      BY <2>1, <2>2, <2>3, <1>t DEF HoldersRun
    <2>4. CASE pc'[r] \notin {"rotate", "lockAll", "commit"}
      <3>1. pc[r] \in {"refresh", "revoke"} /\ UNCHANGED lock
        BY <1>3, <2>4, <1>t DEF Locks, LockRefresh, LockRevoke, LockNext
      <3>2. \A k \in Sessions : lock[k] # r
        BY <3>1 DEF HoldersRun
      <3> QED
        BY <2>2, <3>1, <3>2, <1>s
    <2> QED
      BY <2>3, <2>4
  <1>4. CASE UNCHANGED <<rows, password, lock, pc, locals>>
    BY <1>4 DEF HoldersRun
  <1> QED
    BY <1>1, <1>2, <1>3, <1>4, StepKinds

(* Nothing that has ended or failed keeps a row, and a refresh or a revoke *)
(* that waits for one holds none: only revoke-alls, which lock several,    *)
(* can wait for each other in a circle.                                    *)
THEOREM HoldersAreRunning == Spec => []HoldersRun
  <1>1. Init => HoldersRun
    BY DEF Init, HoldersRun
  <1>2. Base => TypeOK
    BY DEF Base
  <1> QED
    BY <1>1, <1>2, NextHoldersRun, BaseHolds, PTL DEF Spec

------------------------------------------------------------------------------
(* What MembersAreClosed says of a single step. *)

(* r is about to tell k, or k has the message in its channel *)
ToBeTold(r, k) == pc[r] = "broadcast" /\ link[k] \in want[r] /\ k \in group
Told(k) == k \in mail /\ k \in group

(* A socket in the group of a revoked session is told, whatever it is      *)
(* doing, and keeps the message until it closes, unless the broadcasting   *)
(* process dies first. *)
RevocationIsKept ==
    [][\A k \in Sockets :
         /\ \A r \in Requests : ToBeTold(r, k) =>
              pc'[r] = "failed" \/ socket'[k] = "closed" \/ ToBeTold(r, k)' \/ Told(k)'
         /\ Told(k) => socket'[k] = "closed" \/ Told(k)']_vars

LEMMA RevocationStep ==
  ASSUME Base, [Next]_vars, NEW k \in Sockets
  PROVE  /\ \A r \in Requests : ToBeTold(r, k) =>
              pc'[r] = "failed" \/ socket'[k] = "closed" \/ ToBeTold(r, k)' \/ Told(k)'
         /\ Told(k) => socket'[k] = "closed" \/ Told(k)'
  <1> USE DEF Goto, rows, locals, sockets, requests, ToBeTold, Told
  <1>t. /\ pc \in [Requests -> Steps] /\ want \in [Requests -> SUBSET Sessions]
        /\ socket \in [Sockets -> {"new", "cookie", "resolved", "accepting", "open", "closed"}]
        /\ group \in SUBSET Sockets /\ mail \in SUBSET Sockets
    BY DEF Base, TypeOK
  (* a socket leaves its group, or loses a message, by closing *)
  <1>1. ASSUME NEW q \in Sockets, Connect(q) \/ Connecting(q) \/ Disconnect(q)
        PROVE  /\ UNCHANGED <<pc, want, link>>
               /\ \/ socket'[k] = "closed"
                  \/ (k \in group => k \in group') /\ (k \in mail => k \in mail')
    BY <1>1, <1>t DEF Connect, Connecting, Disconnect, ResolveToken, LoadCookie,
       ResolveCookie, JoinGroup, Accept, ForceClose, Close, SetSocket
  <1>2. ASSUME NEW q \in Requests, Broadcast(q)
        PROVE  /\ UNCHANGED <<socket, link, group>>
               /\ k \in mail => k \in mail'
               /\ ToBeTold(q, k) => ToBeTold(q, k)' \/ Told(k)'
               /\ \A r \in Requests \ {q} : pc'[r] = pc[r] /\ want'[r] = want[r]
    BY <1>2, <1>t DEF Broadcast, InGroup
  <1>3. ASSUME NEW q \in Requests, Login(q) \/ Refresh(q) \/ RevokeAll(q) \/ Ends(q)
                                  \/ FindSession(q) \/ LockRevoke(q) \/ CommitRevoke(q)
        PROVE  /\ UNCHANGED sockets
               /\ \A r \in Requests : pc[r] = "broadcast" =>
                    pc'[r] = "failed" \/ (pc'[r] = pc[r] /\ want'[r] = want[r])
    <2>1. UNCHANGED sockets /\ \A r \in Requests \ {q} : pc'[r] = pc[r] /\ want'[r] = want[r]
      BY <1>3, <1>t DEF Login, Authenticate, CreateSession, Refresh, VerifyRefresh, LockRefresh,
         Reverify, Rotate, RevokeAll, StartRevokeAll, SelectAll, LockNext, AllLocked,
         Ends, DeadlockVictim, Fail, FindSession, LockRevoke, CommitRevoke
    <2>2. pc[q] = "broadcast" => pc'[q] = "failed"
      BY <1>3, <1>t DEF Login, Authenticate, CreateSession, Refresh, VerifyRefresh, LockRefresh,
         Reverify, Rotate, RevokeAll, StartRevokeAll, SelectAll, LockNext, AllLocked,
         Ends, DeadlockVictim, Fail, FindSession, LockRevoke, CommitRevoke
    <2> QED
      BY <2>1, <2>2
  <1>4. CASE UNCHANGED vars
    BY <1>4 DEF vars
  <1> QED
    BY <1>1, <1>2, <1>3, <1>4 DEF Next, Revoke, Ends

(* No step loses a revocation that a socket in its group is still to hear. *)
THEOREM RevocationsReachSockets == Spec => RevocationIsKept
  <1> DEFINE Delivered == \A k \in Sockets :
         /\ \A r \in Requests : ToBeTold(r, k) =>
              pc'[r] = "failed" \/ socket'[k] = "closed" \/ ToBeTold(r, k)' \/ Told(k)'
         /\ Told(k) => socket'[k] = "closed" \/ Told(k)'
  <1>1. Base /\ [Next]_vars => [Delivered]_vars
    BY RevocationStep
  <1> QED
    BY <1>1, BaseHolds, PTL DEF Spec, RevocationIsKept

=================================================================================
