---------------------------- MODULE MessagingProofs ----------------------------
(***************************************************************************)
(* The safety properties of Messaging for any number of users, requests,   *)
(* rows and messages.                                                      *)
(***************************************************************************)
EXTENDS Messaging, TLAPS

(* Exactly the request inside its transaction holds the row lock. *)
LockedInTransaction == \A r \in Requests : pc[r] \in InTransaction <=> lock = r

(* The message of an open transaction is younger than all that committed:  *)
(* nobody else creates or commits one while the row is locked.             *)
PendingIsNewest ==
    \A r \in Requests :
        pc[r] \in {"snapshot", "commit"} =>
            msg[r] = clock /\ clock # 0 /\ \A m \in committed : m < clock

(* What a request publishes or marks as read is committed. *)
WorksOnCommitted ==
    \A r \in Requests :
        pc[r] \in {"publish", "load", "save", "receipt"} => msg[r] \in committed

(* A request about to save loaded a row, and passed the guard against it.  *)
GuardPassed ==
    \A r \in Requests :
        pc[r] = "save" => /\ MovesForward(msg[r], loaded[r].pointer)
                          /\ loaded[r].pk # 0

Inv == /\ TypeOK
       /\ LastMessageIsNewest
       /\ OnlyCommittedIsVisible
       /\ LockedInTransaction
       /\ PendingIsNewest
       /\ WorksOnCommitted
       /\ GuardPassed

LEMMA AppendedOrOld ==
  ASSUME NEW S, NEW s \in Seq(S), NEW e \in S
  PROVE  \A i \in 1 .. Len(Append(s, e)) :
            \/ Append(s, e)[i] = e
            \/ i \in 1 .. Len(s) /\ Append(s, e)[i] = s[i]
  OBVIOUS

LEMMA InitInv == Init => Inv
  <1> SUFFICES ASSUME Init PROVE Inv
    OBVIOUS
  <1> USE NoRequestAssumption, MaxRowsAssumption, MaxHistoryAssumption
  <1>1. TypeOK
    <2>1. pointer \in [Users -> Nat] /\ row \in [Users -> 0 .. MaxRows]
      BY DEF Init
    <2>2. wire \in Seq(Events) /\ loaded \in [Requests -> [pk : 0 .. MaxRows, pointer : Nat]]
      BY DEF Init
    <2> QED
      BY <2>1, <2>2 DEF Init, TypeOK
  <1>2. LastMessageIsNewest
    BY DEF Init, LastMessageIsNewest, IsNewest
  <1>3. OnlyCommittedIsVisible
    BY DEF Init, OnlyCommittedIsVisible
  <1>4. LockedInTransaction /\ PendingIsNewest /\ WorksOnCommitted /\ GuardPassed
    BY DEF Init, LockedInTransaction, InTransaction, PendingIsNewest,
           WorksOnCommitted, GuardPassed
  <1> QED
    BY <1>1, <1>2, <1>3, <1>4 DEF Inv

LEMMA NextInv == Inv /\ [Next]_vars => Inv'
  <1> SUFFICES ASSUME Inv, [Next]_vars PROVE Inv'
    OBVIOUS
  <1> USE NoRequestAssumption, MaxRowsAssumption DEF Inv, database, Goto
  <1>1. ASSUME NEW r \in Requests, Authorize(r) PROVE Inv'
    <2> USE <1>1 DEF Authorize, Participants
    <2>1. TypeOK'
      BY DEF TypeOK, SendSteps, ReadSteps, Final
    <2>2. LastMessageIsNewest'
      BY DEF TypeOK, LastMessageIsNewest, IsNewest, PendingIsNewest
    <2>3. OnlyCommittedIsVisible'
      BY DEF TypeOK, OnlyCommittedIsVisible, WorksOnCommitted
    <2>4. LockedInTransaction'
      BY DEF TypeOK, LockedInTransaction, InTransaction, Final
    <2>5. PendingIsNewest'
      BY DEF TypeOK, PendingIsNewest, LockedInTransaction, InTransaction
    <2>6. WorksOnCommitted'
      BY DEF TypeOK, WorksOnCommitted, PendingIsNewest
    <2>7. GuardPassed'
      BY DEF TypeOK, GuardPassed, MovesForward
    <2> QED
      BY <2>1, <2>2, <2>3, <2>4, <2>5, <2>6, <2>7
  <1>2. ASSUME NEW r \in Requests, LockConversation(r) PROVE Inv'
    <2> USE <1>2 DEF LockConversation, RowAvailable
    <2>1. TypeOK'
      BY DEF TypeOK, SendSteps, ReadSteps, Final
    <2>2. LastMessageIsNewest'
      BY DEF TypeOK, LastMessageIsNewest, IsNewest, PendingIsNewest
    <2>3. OnlyCommittedIsVisible'
      BY DEF TypeOK, OnlyCommittedIsVisible, WorksOnCommitted
    <2>4. LockedInTransaction'
      BY DEF TypeOK, LockedInTransaction, InTransaction, Final
    <2>5. PendingIsNewest'
      BY DEF TypeOK, PendingIsNewest, LockedInTransaction, InTransaction
    <2>6. WorksOnCommitted'
      BY DEF TypeOK, WorksOnCommitted, PendingIsNewest
    <2>7. GuardPassed'
      BY DEF TypeOK, GuardPassed, MovesForward
    <2> QED
      BY <2>1, <2>2, <2>3, <2>4, <2>5, <2>6, <2>7
  <1>3. ASSUME NEW r \in Requests, CreateMessage(r) PROVE Inv'
    <2> USE <1>3 DEF CreateMessage
    <2>1. TypeOK'
      <3>1. pc' \in [Requests -> {"idle"} \union SendSteps \union ReadSteps \union Final]
        BY DEF TypeOK, SendSteps, ReadSteps, Final
      <3>2. msg' \in [Requests -> Nat]
        BY DEF TypeOK
      <3>3. wire' \in Seq(Events)
        BY DEF TypeOK, Events
      <3>4. pointer' \in [Users -> Nat]
        BY DEF TypeOK
      <3>5. todo' \in [Requests -> SUBSET Users]
        BY DEF TypeOK
      <3>6. clock' \in Nat /\ committed' \in SUBSET (1 .. clock') /\ last' \in Nat
        BY DEF TypeOK, PendingIsNewest
      <3> QED
        BY <3>1, <3>2, <3>3, <3>4, <3>5, <3>6 DEF TypeOK
    <2>2. LastMessageIsNewest'
      BY DEF TypeOK, LastMessageIsNewest, IsNewest, PendingIsNewest
    <2>3. OnlyCommittedIsVisible'
      BY DEF TypeOK, OnlyCommittedIsVisible, WorksOnCommitted
    <2>4. LockedInTransaction'
      BY DEF TypeOK, LockedInTransaction, InTransaction, Final
    <2>5. PendingIsNewest'
      BY DEF TypeOK, PendingIsNewest, LockedInTransaction, InTransaction
    <2>6. WorksOnCommitted'
      BY DEF TypeOK, WorksOnCommitted, PendingIsNewest
    <2>7. GuardPassed'
      BY DEF TypeOK, GuardPassed, MovesForward
    <2> QED
      BY <2>1, <2>2, <2>3, <2>4, <2>5, <2>6, <2>7
  <1>4. ASSUME NEW r \in Requests, SnapshotRecipients(r) PROVE Inv'
    <2> USE <1>4 DEF SnapshotRecipients, Participants
    <2>1. TypeOK'
      BY DEF TypeOK, SendSteps, ReadSteps, Final
    <2>2. LastMessageIsNewest'
      BY DEF TypeOK, LastMessageIsNewest, IsNewest, PendingIsNewest
    <2>3. OnlyCommittedIsVisible'
      BY DEF TypeOK, OnlyCommittedIsVisible, WorksOnCommitted
    <2>4. LockedInTransaction'
      BY DEF TypeOK, LockedInTransaction, InTransaction, Final
    <2>5. PendingIsNewest'
      BY DEF TypeOK, PendingIsNewest, LockedInTransaction, InTransaction
    <2>6. WorksOnCommitted'
      BY DEF TypeOK, WorksOnCommitted, PendingIsNewest
    <2>7. GuardPassed'
      BY DEF TypeOK, GuardPassed, MovesForward
    <2> QED
      BY <2>1, <2>2, <2>3, <2>4, <2>5, <2>6, <2>7
  <1>5. ASSUME NEW r \in Requests, Commit(r) PROVE Inv'
    <2> USE <1>5 DEF Commit
    <2>1. TypeOK'
      <3>1. pc' \in [Requests -> {"idle"} \union SendSteps \union ReadSteps \union Final]
        BY DEF TypeOK, SendSteps, ReadSteps, Final
      <3>2. msg' \in [Requests -> Nat]
        BY DEF TypeOK
      <3>3. wire' \in Seq(Events)
        BY DEF TypeOK, Events
      <3>4. pointer' \in [Users -> Nat]
        BY DEF TypeOK
      <3>5. todo' \in [Requests -> SUBSET Users]
        BY DEF TypeOK
      <3>6. clock' \in Nat /\ committed' \in SUBSET (1 .. clock') /\ last' \in Nat
        <4>1. msg[r] \in 1 .. clock
          BY DEF TypeOK, PendingIsNewest
        <4>2. clock' = clock /\ committed' = committed \union {msg[r]} /\ last' = msg[r]
          OBVIOUS
        <4>3. clock \in Nat /\ committed \in SUBSET (1 .. clock)
          BY DEF TypeOK
        <4>4. \A m \in committed' : m \in 1 .. clock'
          BY <4>1, <4>2, <4>3
        <4>5. clock' \in Nat /\ last' \in Nat
          BY <4>1, <4>2, <4>3
        <4>6. committed' \in SUBSET (1 .. clock')
          BY ONLY <4>4, Zenon
        <4> QED
          BY ONLY <4>5, <4>6
      <3> QED
        BY <3>1, <3>2, <3>3, <3>4, <3>5, <3>6 DEF TypeOK
    <2>2. LastMessageIsNewest'
      BY DEF TypeOK, LastMessageIsNewest, IsNewest, PendingIsNewest
    <2>3. OnlyCommittedIsVisible'
      BY DEF TypeOK, OnlyCommittedIsVisible, WorksOnCommitted
    <2>4. LockedInTransaction'
      BY DEF TypeOK, LockedInTransaction, InTransaction, Final
    <2>5. PendingIsNewest'
      BY DEF TypeOK, PendingIsNewest, LockedInTransaction, InTransaction
    <2>6. WorksOnCommitted'
      BY DEF TypeOK, WorksOnCommitted, PendingIsNewest
    <2>7. GuardPassed'
      BY DEF TypeOK, GuardPassed, MovesForward
    <2> QED
      BY <2>1, <2>2, <2>3, <2>4, <2>5, <2>6, <2>7
  <1>6. ASSUME NEW r \in Requests, BroadcastNewMessage(r) PROVE Inv'
    <2> USE <1>6 DEF BroadcastNewMessage
    <2>1. TypeOK'
      <3>1. pc' \in [Requests -> {"idle"} \union SendSteps \union ReadSteps \union Final]
        BY DEF TypeOK, SendSteps, ReadSteps, Final
      <3>2. msg' \in [Requests -> Nat]
        BY DEF TypeOK
      <3>3. wire' \in Seq(Events)
        BY DEF TypeOK, Events
      <3>4. pointer' \in [Users -> Nat]
        BY DEF TypeOK
      <3>5. todo' \in [Requests -> SUBSET Users]
        BY DEF TypeOK
      <3>6. clock' \in Nat /\ committed' \in SUBSET (1 .. clock') /\ last' \in Nat
        BY DEF TypeOK, PendingIsNewest
      <3> QED
        BY <3>1, <3>2, <3>3, <3>4, <3>5, <3>6 DEF TypeOK
    <2>2. LastMessageIsNewest'
      BY DEF TypeOK, LastMessageIsNewest, IsNewest, PendingIsNewest
    <2>3. OnlyCommittedIsVisible'
      <3> DEFINE e == [event |-> "new", msg |-> msg[r], user |-> user[r]]
      <3>1. wire' = Append(wire, e) /\ e.msg \in committed
        BY DEF WorksOnCommitted
      <3>2. e \in Events /\ wire \in Seq(Events)
        BY DEF TypeOK, Events
      <3> HIDE DEF e
      <3>3. \A i \in 1 .. Len(wire') :
                \/ wire'[i] = e
                \/ i \in 1 .. Len(wire) /\ wire'[i] = wire[i]
        <4>1. \A i \in 1 .. Len(Append(wire, e)) :
                \/ Append(wire, e)[i] = e
                \/ i \in 1 .. Len(wire) /\ Append(wire, e)[i] = wire[i]
          BY ONLY <3>2, AppendedOrOld
        <4> QED
          BY ONLY <3>1, <4>1
      <3> QED
        BY <3>1, <3>3 DEF OnlyCommittedIsVisible
    <2>4. LockedInTransaction'
      BY DEF TypeOK, LockedInTransaction, InTransaction, Final
    <2>5. PendingIsNewest'
      BY DEF TypeOK, PendingIsNewest, LockedInTransaction, InTransaction
    <2>6. WorksOnCommitted'
      BY DEF TypeOK, WorksOnCommitted, PendingIsNewest
    <2>7. GuardPassed'
      BY DEF TypeOK, GuardPassed, MovesForward
    <2> QED
      BY <2>1, <2>2, <2>3, <2>4, <2>5, <2>6, <2>7
  <1>7. ASSUME NEW r \in Requests, BroadcastConversationUpdate(r) PROVE Inv'
    <2> USE <1>7 DEF BroadcastConversationUpdate
    <2>1. TypeOK'
      <3>1. pc' \in [Requests -> {"idle"} \union SendSteps \union ReadSteps \union Final]
        BY DEF TypeOK, SendSteps, ReadSteps, Final
      <3>2. msg' \in [Requests -> Nat]
        BY DEF TypeOK
      <3>3. wire' \in Seq(Events)
        BY DEF TypeOK, Events
      <3>4. pointer' \in [Users -> Nat]
        BY DEF TypeOK
      <3>5. todo' \in [Requests -> SUBSET Users]
        <4>1. PICK u \in todo[r] : todo' = [todo EXCEPT ![r] = todo[r] \ {u}]
          OBVIOUS
        <4>2. todo[r] \ {u} \in SUBSET Users
          BY DEF TypeOK
        <4> QED
          BY <4>1, <4>2 DEF TypeOK
      <3>6. clock' \in Nat /\ committed' \in SUBSET (1 .. clock') /\ last' \in Nat
        BY DEF TypeOK, PendingIsNewest
      <3> QED
        BY <3>1, <3>2, <3>3, <3>4, <3>5, <3>6 DEF TypeOK
    <2>2. LastMessageIsNewest'
      BY DEF TypeOK, LastMessageIsNewest, IsNewest, PendingIsNewest
    <2>3. OnlyCommittedIsVisible'
      BY DEF TypeOK, OnlyCommittedIsVisible, WorksOnCommitted
    <2>4. LockedInTransaction'
      BY DEF TypeOK, LockedInTransaction, InTransaction, Final
    <2>5. PendingIsNewest'
      BY DEF TypeOK, PendingIsNewest, LockedInTransaction, InTransaction
    <2>6. WorksOnCommitted'
      BY DEF TypeOK, WorksOnCommitted, PendingIsNewest
    <2>7. GuardPassed'
      BY DEF TypeOK, GuardPassed, MovesForward
    <2> QED
      BY <2>1, <2>2, <2>3, <2>4, <2>5, <2>6, <2>7
  <1>8. ASSUME NEW r \in Requests, SeenMessage(r) PROVE Inv'
    <2> USE <1>8 DEF SeenMessage, StartRead
    <2>1. TypeOK'
      <3>1. pc' \in [Requests -> {"idle"} \union SendSteps \union ReadSteps \union Final]
        BY DEF TypeOK, SendSteps, ReadSteps, Final
      <3>2. msg' \in [Requests -> Nat]
        BY DEF TypeOK
      <3>3. wire' \in Seq(Events)
        BY DEF TypeOK, Events
      <3>4. pointer' \in [Users -> Nat]
        BY DEF TypeOK
      <3>5. todo' \in [Requests -> SUBSET Users]
        BY DEF TypeOK
      <3>6. clock' \in Nat /\ committed' \in SUBSET (1 .. clock') /\ last' \in Nat
        BY DEF TypeOK, PendingIsNewest
      <3> QED
        BY <3>1, <3>2, <3>3, <3>4, <3>5, <3>6 DEF TypeOK
    <2>2. LastMessageIsNewest'
      BY DEF TypeOK, LastMessageIsNewest, IsNewest, PendingIsNewest
    <2>3. OnlyCommittedIsVisible'
      BY DEF TypeOK, OnlyCommittedIsVisible, WorksOnCommitted
    <2>4. LockedInTransaction'
      BY DEF TypeOK, LockedInTransaction, InTransaction, Final
    <2>5. PendingIsNewest'
      BY DEF TypeOK, PendingIsNewest, LockedInTransaction, InTransaction
    <2>6. WorksOnCommitted'
      BY DEF TypeOK, WorksOnCommitted, PendingIsNewest
    <2>7. GuardPassed'
      BY DEF TypeOK, GuardPassed, MovesForward
    <2> QED
      BY <2>1, <2>2, <2>3, <2>4, <2>5, <2>6, <2>7
  <1>9. ASSUME NEW r \in Requests, SeenLatest(r) PROVE Inv'
    <2> USE <1>9 DEF SeenLatest, StartRead
    <2>1. TypeOK'
      <3>1. pc' \in [Requests -> {"idle"} \union SendSteps \union ReadSteps \union Final]
        BY DEF TypeOK, SendSteps, ReadSteps, Final
      <3>2. msg' \in [Requests -> Nat]
        BY DEF TypeOK
      <3>3. wire' \in Seq(Events)
        BY DEF TypeOK, Events
      <3>4. pointer' \in [Users -> Nat]
        BY DEF TypeOK
      <3>5. todo' \in [Requests -> SUBSET Users]
        BY DEF TypeOK
      <3>6. clock' \in Nat /\ committed' \in SUBSET (1 .. clock') /\ last' \in Nat
        BY DEF TypeOK, PendingIsNewest
      <3> QED
        BY <3>1, <3>2, <3>3, <3>4, <3>5, <3>6 DEF TypeOK
    <2>2. LastMessageIsNewest'
      BY DEF TypeOK, LastMessageIsNewest, IsNewest, PendingIsNewest
    <2>3. OnlyCommittedIsVisible'
      BY DEF TypeOK, OnlyCommittedIsVisible, WorksOnCommitted
    <2>4. LockedInTransaction'
      BY DEF TypeOK, LockedInTransaction, InTransaction, Final
    <2>5. PendingIsNewest'
      BY DEF TypeOK, PendingIsNewest, LockedInTransaction, InTransaction
    <2>6. WorksOnCommitted'
      BY DEF TypeOK, WorksOnCommitted, PendingIsNewest
    <2>7. GuardPassed'
      BY DEF TypeOK, GuardPassed, MovesForward
    <2> QED
      BY <2>1, <2>2, <2>3, <2>4, <2>5, <2>6, <2>7
  <1>10. ASSUME NEW r \in Requests, LoadParticipant(r) PROVE Inv'
    <2> USE <1>10 DEF LoadParticipant, MovesForward
    <2>1. TypeOK'
      BY DEF TypeOK, SendSteps, ReadSteps, Final
    <2>2. LastMessageIsNewest'
      BY DEF TypeOK, LastMessageIsNewest, IsNewest, PendingIsNewest
    <2>3. OnlyCommittedIsVisible'
      BY DEF TypeOK, OnlyCommittedIsVisible, WorksOnCommitted
    <2>4. LockedInTransaction'
      BY DEF TypeOK, LockedInTransaction, InTransaction, Final
    <2>5. PendingIsNewest'
      BY DEF TypeOK, PendingIsNewest, LockedInTransaction, InTransaction
    <2>6. WorksOnCommitted'
      BY DEF TypeOK, WorksOnCommitted, PendingIsNewest
    <2>7. GuardPassed'
      BY DEF TypeOK, GuardPassed, MovesForward
    <2> QED
      BY <2>1, <2>2, <2>3, <2>4, <2>5, <2>6, <2>7
  <1>11. ASSUME NEW r \in Requests, SavePointer(r) PROVE Inv'
    <2> USE <1>11 DEF SavePointer
    <2>1. TypeOK'
      <3>1. pc' \in [Requests -> {"idle"} \union SendSteps \union ReadSteps \union Final]
        BY DEF TypeOK, SendSteps, ReadSteps, Final
      <3>2. msg' \in [Requests -> Nat]
        BY DEF TypeOK
      <3>3. wire' \in Seq(Events)
        BY DEF TypeOK, Events
      <3>4. pointer' \in [Users -> Nat]
        BY DEF TypeOK
      <3>5. todo' \in [Requests -> SUBSET Users]
        BY DEF TypeOK
      <3>6. clock' \in Nat /\ committed' \in SUBSET (1 .. clock') /\ last' \in Nat
        BY DEF TypeOK, PendingIsNewest
      <3> QED
        BY <3>1, <3>2, <3>3, <3>4, <3>5, <3>6 DEF TypeOK
    <2>2. LastMessageIsNewest'
      BY DEF TypeOK, LastMessageIsNewest, IsNewest, PendingIsNewest
    <2>3. OnlyCommittedIsVisible'
      BY DEF TypeOK, OnlyCommittedIsVisible, WorksOnCommitted
    <2>4. LockedInTransaction'
      BY DEF TypeOK, LockedInTransaction, InTransaction, Final
    <2>5. PendingIsNewest'
      BY DEF TypeOK, PendingIsNewest, LockedInTransaction, InTransaction
    <2>6. WorksOnCommitted'
      BY DEF TypeOK, WorksOnCommitted, PendingIsNewest
    <2>7. GuardPassed'
      BY DEF TypeOK, GuardPassed, MovesForward
    <2> QED
      BY <2>1, <2>2, <2>3, <2>4, <2>5, <2>6, <2>7
  <1>12. ASSUME NEW r \in Requests, BroadcastReadReceipt(r) PROVE Inv'
    <2> USE <1>12 DEF BroadcastReadReceipt
    <2>1. TypeOK'
      <3>1. pc' \in [Requests -> {"idle"} \union SendSteps \union ReadSteps \union Final]
        BY DEF TypeOK, SendSteps, ReadSteps, Final
      <3>2. msg' \in [Requests -> Nat]
        BY DEF TypeOK
      <3>3. wire' \in Seq(Events)
        BY DEF TypeOK, Events
      <3>4. pointer' \in [Users -> Nat]
        BY DEF TypeOK
      <3>5. todo' \in [Requests -> SUBSET Users]
        BY DEF TypeOK
      <3>6. clock' \in Nat /\ committed' \in SUBSET (1 .. clock') /\ last' \in Nat
        BY DEF TypeOK, PendingIsNewest
      <3> QED
        BY <3>1, <3>2, <3>3, <3>4, <3>5, <3>6 DEF TypeOK
    <2>2. LastMessageIsNewest'
      BY DEF TypeOK, LastMessageIsNewest, IsNewest, PendingIsNewest
    <2>3. OnlyCommittedIsVisible'
      <3> DEFINE e == [event |-> "receipt", msg |-> msg[r], user |-> user[r]]
      <3>1. wire' = Append(wire, e) /\ e.msg \in committed
        BY DEF WorksOnCommitted
      <3>2. e \in Events /\ wire \in Seq(Events)
        BY DEF TypeOK, Events
      <3> HIDE DEF e
      <3>3. \A i \in 1 .. Len(wire') :
                \/ wire'[i] = e
                \/ i \in 1 .. Len(wire) /\ wire'[i] = wire[i]
        <4>1. \A i \in 1 .. Len(Append(wire, e)) :
                \/ Append(wire, e)[i] = e
                \/ i \in 1 .. Len(wire) /\ Append(wire, e)[i] = wire[i]
          BY ONLY <3>2, AppendedOrOld
        <4> QED
          BY ONLY <3>1, <4>1
      <3> QED
        BY <3>1, <3>3 DEF OnlyCommittedIsVisible
    <2>4. LockedInTransaction'
      BY DEF TypeOK, LockedInTransaction, InTransaction, Final
    <2>5. PendingIsNewest'
      BY DEF TypeOK, PendingIsNewest, LockedInTransaction, InTransaction
    <2>6. WorksOnCommitted'
      BY DEF TypeOK, WorksOnCommitted, PendingIsNewest
    <2>7. GuardPassed'
      BY DEF TypeOK, GuardPassed, MovesForward
    <2> QED
      BY <2>1, <2>2, <2>3, <2>4, <2>5, <2>6, <2>7
  <1>13. ASSUME NEW r \in Requests, Fail(r) PROVE Inv'
    <2> USE <1>13 DEF Fail, ReleasedBy
    <2>1. TypeOK'
      BY DEF TypeOK, SendSteps, ReadSteps, Final
    <2>2. LastMessageIsNewest'
      BY DEF TypeOK, LastMessageIsNewest, IsNewest, PendingIsNewest
    <2>3. OnlyCommittedIsVisible'
      BY DEF TypeOK, OnlyCommittedIsVisible, WorksOnCommitted
    <2>4. LockedInTransaction'
      BY DEF TypeOK, LockedInTransaction, InTransaction, Final
    <2>5. PendingIsNewest'
      BY DEF TypeOK, PendingIsNewest, LockedInTransaction, InTransaction
    <2>6. WorksOnCommitted'
      BY DEF TypeOK, WorksOnCommitted, PendingIsNewest
    <2>7. GuardPassed'
      BY DEF TypeOK, GuardPassed, MovesForward
    <2> QED
      BY <2>1, <2>2, <2>3, <2>4, <2>5, <2>6, <2>7
  <1>14. ASSUME NEW u \in Users, RowCreated(u) PROVE Inv'
    <2> USE <1>14 DEF RowCreated
    <2>1. TypeOK'
      <3>1. born[u] + 1 \in 0 .. MaxRows
        BY DEF TypeOK
      <3>2. row' \in [Users -> 0 .. MaxRows] /\ born' \in [Users -> 0 .. MaxRows]
        BY <3>1 DEF TypeOK
      <3> QED
        BY <3>2 DEF TypeOK
    <2>2. OnlyCommittedIsVisible'
      BY DEF TypeOK, OnlyCommittedIsVisible
    <2> QED
      BY <2>1, <2>2 DEF LastMessageIsNewest, LockedInTransaction, PendingIsNewest,
                        WorksOnCommitted, GuardPassed
  <1>15. ASSUME NEW u \in Users, RowDeleted(u) PROVE Inv'
    <2> USE <1>15 DEF RowDeleted
    <2>1. TypeOK'
      BY DEF TypeOK
    <2>2. OnlyCommittedIsVisible'
      BY DEF TypeOK, OnlyCommittedIsVisible
    <2> QED
      BY <2>1, <2>2 DEF LastMessageIsNewest, LockedInTransaction, PendingIsNewest,
                        WorksOnCommitted, GuardPassed
  <1>16. CASE UNCHANGED vars
    BY <1>16 DEF vars, TypeOK, LastMessageIsNewest, OnlyCommittedIsVisible,
                 LockedInTransaction, PendingIsNewest, WorksOnCommitted, GuardPassed
  <1> QED
    BY <1>1, <1>2, <1>3, <1>4, <1>5, <1>6, <1>7, <1>8, <1>9, <1>10, <1>11, <1>12, <1>13, <1>14, <1>15, <1>16 DEF Next, Send, Read

------------------------------------------------------------------------------
(* Every reachable state is well typed. *)
THEOREM TypeCorrect == Spec => []TypeOK
  <1>1. Inv => TypeOK
    BY DEF Inv
  <1> QED
    BY <1>1, InitInv, NextInv, PTL DEF Spec

(* The conversation's last_message is always its newest readable message   *)
(* (send_message under the conversation's row lock).                       *)
THEOREM LastMessageCorrect == Spec => []LastMessageIsNewest
  <1>1. Inv => LastMessageIsNewest
    BY DEF Inv
  <1> QED
    BY <1>1, InitInv, NextInv, PTL DEF Spec

(* Read pointers and broadcasts refer to committed messages only           *)
(* (transaction.on_commit in send_message).                                *)
THEOREM VisibilityCorrect == Spec => []OnlyCommittedIsVisible
  <1>1. Inv => OnlyCommittedIsVisible
    BY DEF Inv
  <1> QED
    BY <1>1, InitInv, NextInv, PTL DEF Spec

(* A message that commits is unread for everybody (send_message against a  *)
(* concurrent mark_conversation_as_read).                                  *)
THEOREM NewMessagesAreUnread == Spec => NoMessageBehindPointer
  <1> DEFINE Unread == \A m \in committed' \ committed, u \in Users : m > pointer[u]
  <1>1. ASSUME Inv, [Next]_vars PROVE [Unread]_vars
    <2> SUFFICES ASSUME NEW m \in committed' \ committed, NEW u \in Users
                 PROVE  m > pointer[u]
      OBVIOUS
    <2>1. PICK r \in Requests : Commit(r)
      BY <1>1 DEF Next, Send, Read, Authorize, LockConversation, CreateMessage,
                  SnapshotRecipients, BroadcastNewMessage,
                  BroadcastConversationUpdate, SeenMessage, SeenLatest,
                  StartRead, LoadParticipant, SavePointer, BroadcastReadReceipt,
                  Fail, RowCreated, RowDeleted, database, vars
    <2>2. m = clock /\ clock # 0 /\ clock \in Nat /\ \A k \in committed : k < clock
      BY <1>1, <2>1 DEF Commit, Inv, PendingIsNewest, TypeOK
    <2>3. pointer[u] \in committed \union {0}
      BY <1>1 DEF Inv, OnlyCommittedIsVisible
    <2> QED
      BY <2>2, <2>3
  <1> QED
    BY <1>1, InitInv, NextInv, PTL DEF Spec, NoMessageBehindPointer

(* A read pointer moves backward only by a save whose request had loaded   *)
(* an outdated row: sequential 'seen' events never move it backward.       *)
THEOREM MonotonicUpToRaces == Spec => BackwardOnlyWhenStale
  <1> DEFINE Excused ==
        /\ \A r \in Requests :
             Regresses(r) => loaded[r].pointer # pointer[user[r]]
        /\ \A u \in Users :
             (row'[u] = row[u] /\ pointer'[u] < pointer[u]) =>
                 \E r \in Requests : user[r] = u /\ Regresses(r)
  <1>1. ASSUME Inv, [Next]_vars PROVE [Excused]_vars
    <2>1. ASSUME NEW r \in Requests, Regresses(r)
          PROVE  loaded[r].pointer # pointer[user[r]]
      <3>1. SavePointer(r) /\ pointer' = [pointer EXCEPT ![user[r]] = msg[r]]
        BY <1>1, <2>1 DEF Inv, TypeOK, Regresses, Next, Send, Read, Goto, Authorize,
             LockConversation, CreateMessage, SnapshotRecipients, Commit,
             BroadcastNewMessage, BroadcastConversationUpdate, SeenMessage,
             SeenLatest, StartRead, LoadParticipant, SavePointer,
             BroadcastReadReceipt, Fail, RowCreated, RowDeleted, database, vars
      <3>2. msg[r] < pointer[user[r]]
        BY <1>1, <2>1, <3>1 DEF Regresses, Inv, TypeOK
      <3>3. loaded[r].pointer = 0 \/ msg[r] > loaded[r].pointer
        BY <1>1, <3>1 DEF SavePointer, Inv, GuardPassed, MovesForward
      <3>4. msg[r] \in Nat /\ pointer[user[r]] \in Nat
        BY <1>1 DEF Inv, TypeOK
      <3> QED
        BY <3>2, <3>3, <3>4
    <2>2. ASSUME NEW u \in Users, row'[u] = row[u], pointer'[u] < pointer[u]
          PROVE  \E r \in Requests : user[r] = u /\ Regresses(r)
      <3>1. ~UNCHANGED pointer
        BY <1>1, <2>2 DEF Inv, TypeOK
      <3>2. CASE \E v \in Users : RowCreated(v) \/ RowDeleted(v)
        <4>1. PICK v \in Users : RowCreated(v) \/ RowDeleted(v)
          BY <3>2
        <4>2. row \in [Users -> 0 .. MaxRows] /\ pointer \in [Users -> Nat] /\ born[v] \in 0 .. MaxRows
          BY <1>1 DEF Inv, TypeOK
        <4>3. row'[v] # row[v]
          BY <4>1, <4>2 DEF RowCreated, RowDeleted
        <4>4. u # v
          BY <2>2, <4>3
        <4>5. pointer'[u] = pointer[u]
          BY <4>1, <4>2, <4>4 DEF RowCreated, RowDeleted
        <4> QED
          BY <2>2, <4>2, <4>5
      <3>3. CASE \E r \in Requests : SavePointer(r)
        <4>1. PICK r \in Requests : SavePointer(r)
          BY <3>3
        <4>2. pointer \in [Users -> Nat] /\ pc' = [pc EXCEPT ![r] = "receipt"]
              /\ pointer' = [pointer EXCEPT ![user[r]] = msg[r]]
          BY <1>1, <3>1, <4>1 DEF SavePointer, Goto, Inv, TypeOK
        <4>3. user[r] = u
          BY <2>2, <4>2
        <4>4. pc[r] = "save" /\ pc'[r] = "receipt"
          BY <1>1, <4>1, <4>2 DEF SavePointer, Inv, TypeOK
        <4> QED
          BY <2>2, <4>3, <4>4 DEF Regresses
      <3> QED
        BY <1>1, <3>1, <3>2, <3>3 DEF Next, Send, Read, Authorize, LockConversation,
             CreateMessage, SnapshotRecipients, Commit, BroadcastNewMessage,
             BroadcastConversationUpdate, SeenMessage, SeenLatest, StartRead,
             LoadParticipant, BroadcastReadReceipt, Fail, database, vars
    <2> QED
      BY <2>1, <2>2
  <1> QED
    BY <1>1, InitInv, NextInv, PTL DEF Spec, BackwardOnlyWhenStale

(* The save of a request that was overtaken by the removal of its user, or *)
(* by a removal and a new membership, changes no row but the one loaded.   *)
THEOREM NewRowsKeepTheirPointer == Spec => SaveSparesNewRow
  <1> DEFINE Spared ==
        \A u \in Users :
          (row'[u] = row[u] /\ pointer'[u] # pointer[u]) =>
             \E r \in Requests : /\ user[r] = u /\ pc[r] = "save" /\ pc'[r] = "receipt"
                                /\ row[u] # 0 /\ loaded[r].pk = row[u]
  <1>1. ASSUME Inv, [Next]_vars PROVE [Spared]_vars
    <2> SUFFICES ASSUME NEW u \in Users, row'[u] = row[u], pointer'[u] # pointer[u]
                 PROVE  \E r \in Requests : /\ user[r] = u /\ pc[r] = "save"
                                            /\ pc'[r] = "receipt"
                                            /\ row[u] # 0 /\ loaded[r].pk = row[u]
      OBVIOUS
    <2>t. /\ row \in [Users -> 0 .. MaxRows] /\ pointer \in [Users -> Nat]
          /\ born \in [Users -> 0 .. MaxRows] /\ user \in [Requests -> Users]
          /\ pc \in [Requests -> {"idle"} \union SendSteps \union ReadSteps \union Final]
      BY <1>1 DEF Inv, TypeOK
    <2>1. ASSUME NEW v \in Users, RowCreated(v) \/ RowDeleted(v) PROVE FALSE
      <3>1. row'[v] # row[v]
        BY <2>1, <2>t DEF RowCreated, RowDeleted
      <3>2. u # v
        BY <3>1
      <3>3. pointer'[u] = pointer[u]
        BY <2>1, <2>t, <3>2 DEF RowCreated, RowDeleted
      <3> QED
        BY <3>3
    <2>2. \E r \in Requests : SavePointer(r)
      BY <1>1, <2>1 DEF Next, Send, Read, Authorize, LockConversation, CreateMessage,
           SnapshotRecipients, Commit, BroadcastNewMessage,
           BroadcastConversationUpdate, SeenMessage, SeenLatest, StartRead,
           LoadParticipant, BroadcastReadReceipt, Fail, database, vars
    <2>3. PICK r \in Requests : SavePointer(r)
      BY <2>2
    <2>4. Updates(r) /\ pointer' = [pointer EXCEPT ![user[r]] = msg[r]] /\ Goto(r, "receipt")
      BY <2>3 DEF SavePointer
    <2>5. user[r] = u /\ pc[r] = "save" /\ pc'[r] = "receipt"
      BY <2>3, <2>4, <2>t DEF SavePointer, Goto
    <2>6. loaded[r].pk # 0 /\ loaded[r].pk = row[u]
      BY <1>1, <2>4, <2>5 DEF Updates, Inv, GuardPassed
    <2> QED
      BY <2>5, <2>6
  <1> QED
    BY <1>1, InitInv, NextInv, PTL DEF Spec, SaveSparesNewRow

-----------------------------------------------------------------------------
(* Broadcasts of messages.                                                 *)

(* No message is broadcast twice, by whomever. *)
AnnouncedOnce ==
    \A j, k \in 1 .. Len(wire) :
        wire[j].event = "new" /\ wire[k].event = "new" /\ wire[j].msg = wire[k].msg
            => j = k

(* What is still to be broadcast has not been, and each request owes a     *)
(* message of its own. *)
OwesItsOwn ==
    \A r \in Requests :
        pc[r] = "publish" =>
            /\ \A k \in 1 .. Len(wire) : wire[k].event = "new" => wire[k].msg # msg[r]
            /\ \A q \in Requests : pc[q] = "publish" /\ msg[q] = msg[r] => q = r

LEMMA NextAnnounced ==
  ASSUME Inv, AnnouncedOnce, OwesItsOwn, [Next]_vars
  PROVE  (AnnouncedOnce /\ OwesItsOwn)'
  <1> USE DEF database, Goto
  <1>t. /\ pc \in [Requests -> {"idle"} \union SendSteps \union ReadSteps \union Final]
        /\ msg \in [Requests -> Nat] /\ user \in [Requests -> Users]
        /\ wire \in Seq(Events) /\ Len(wire) \in Nat
    BY DEF Inv, TypeOK
  (* a step that broadcasts nothing and owes nothing more *)
  <1>s. ASSUME UNCHANGED wire,
               \A r \in Requests :
                  pc'[r] = "publish" => pc[r] = "publish" /\ msg'[r] = msg[r]
        PROVE  (AnnouncedOnce /\ OwesItsOwn)'
    BY <1>s DEF AnnouncedOnce, OwesItsOwn
  <1>1. ASSUME NEW r \in Requests,
               \/ Authorize(r) \/ LockConversation(r) \/ CreateMessage(r)
               \/ SnapshotRecipients(r) \/ BroadcastConversationUpdate(r)
               \/ SeenMessage(r) \/ SeenLatest(r) \/ LoadParticipant(r)
               \/ SavePointer(r) \/ Fail(r)
        PROVE  (AnnouncedOnce /\ OwesItsOwn)'
    <2>1. UNCHANGED wire
      BY <1>1 DEF Authorize, LockConversation, CreateMessage, SnapshotRecipients,
           BroadcastConversationUpdate, SeenMessage, SeenLatest, StartRead,
           LoadParticipant, SavePointer, Fail
    <2>2. \A q \in Requests : pc'[q] = "publish" => pc[q] = "publish" /\ msg'[q] = msg[q]
      BY <1>1, <1>t DEF Authorize, LockConversation, CreateMessage, SnapshotRecipients,
           BroadcastConversationUpdate, SeenMessage, SeenLatest, StartRead,
           LoadParticipant, SavePointer, Fail
    <2> QED
      BY <2>1, <2>2, <1>s
  <1>2. ASSUME NEW r \in Requests, Commit(r) PROVE (AnnouncedOnce /\ OwesItsOwn)'
    <2>1. /\ UNCHANGED <<wire, msg>> /\ pc'[r] = "publish"
          /\ \A q \in Requests \ {r} : pc'[q] = pc[q]
      BY <1>2, <1>t DEF Commit
    <2>2. msg[r] \notin committed
      BY <1>2, <1>t DEF Commit, Inv, PendingIsNewest, TypeOK
    <2>3. /\ \A k \in 1 .. Len(wire) : wire[k].msg # msg[r]
          /\ \A q \in Requests : pc[q] = "publish" => msg[q] # msg[r]
      BY <2>2 DEF Inv, OnlyCommittedIsVisible, WorksOnCommitted
    <2> QED
      BY <2>1, <2>3 DEF AnnouncedOnce, OwesItsOwn
  <1>3. ASSUME NEW r \in Requests, BroadcastNewMessage(r) PROVE (AnnouncedOnce /\ OwesItsOwn)'
    <2>1. PICK e : e = [event |-> "new", msg |-> msg[r], user |-> user[r]]
      OBVIOUS
    <2>2. /\ Len(wire') = Len(wire) + 1 /\ wire'[Len(wire) + 1] = e
          /\ \A k \in 1 .. Len(wire) : wire'[k] = wire[k]
      <3>1. e \in Events /\ wire' = Append(wire, e)
        BY <1>3, <1>t, <2>1 DEF BroadcastNewMessage, Events
      <3> QED
        BY <1>t, <3>1
    <2>3. /\ UNCHANGED msg /\ pc[r] = "publish" /\ pc'[r] # "publish"
          /\ \A q \in Requests \ {r} : pc'[q] = pc[q]
      BY <1>3, <1>t DEF BroadcastNewMessage
    <2>4. e.msg = msg[r] /\ e.event = "new"
      BY <2>1
    <2>5. \A k \in 1 .. Len(wire') : k \in 1 .. Len(wire) \/ k = Len(wire) + 1
      BY <1>t, <2>2
    <2>6. AnnouncedOnce'
      BY <2>2, <2>3, <2>4, <2>5 DEF AnnouncedOnce, OwesItsOwn
    <2>7. OwesItsOwn'
      BY <2>2, <2>3, <2>4, <2>5 DEF OwesItsOwn
    <2> QED
      BY <2>6, <2>7
  <1>4. ASSUME NEW r \in Requests, BroadcastReadReceipt(r) PROVE (AnnouncedOnce /\ OwesItsOwn)'
    <2>1. PICK e : e = [event |-> "receipt", msg |-> msg[r], user |-> user[r]]
      OBVIOUS
    <2>2. /\ Len(wire') = Len(wire) + 1 /\ wire'[Len(wire) + 1] = e
          /\ \A k \in 1 .. Len(wire) : wire'[k] = wire[k]
      <3>1. e \in Events /\ wire' = Append(wire, e)
        BY <1>4, <1>t, <2>1 DEF BroadcastReadReceipt, Events
      <3> QED
        BY <1>t, <3>1
    <2>3. /\ UNCHANGED msg /\ pc'[r] # "publish"
          /\ \A q \in Requests \ {r} : pc'[q] = pc[q]
      BY <1>4, <1>t DEF BroadcastReadReceipt
    <2>4. \A k \in 1 .. Len(wire') : wire'[k].event = "new" => k \in 1 .. Len(wire)
      BY <1>t, <2>1, <2>2
    <2> QED
      BY <2>2, <2>3, <2>4 DEF AnnouncedOnce, OwesItsOwn
  <1>5. ASSUME NEW u \in Users, RowCreated(u) \/ RowDeleted(u)
        PROVE  (AnnouncedOnce /\ OwesItsOwn)'
    BY <1>5, <1>s DEF RowCreated, RowDeleted
  <1>6. CASE UNCHANGED vars
    BY <1>6, <1>s DEF vars
  <1> QED
    BY <1>1, <1>2, <1>3, <1>4, <1>5, <1>6 DEF Next, Send, Read

(* However sends interleave, fail and are overtaken, a message is          *)
(* broadcast to the conversation's group at most once (send_message's      *)
(* on_commit callback).                                                    *)
THEOREM MessagesAreAnnouncedOnce == Spec => []AnnouncedOnce
  <1>1. Init => AnnouncedOnce /\ OwesItsOwn
    BY DEF Init, AnnouncedOnce, OwesItsOwn
  <1>2. Inv /\ AnnouncedOnce /\ OwesItsOwn /\ [Next]_vars => (AnnouncedOnce /\ OwesItsOwn)'
    BY NextAnnounced
  <1> QED
    BY <1>1, <1>2, InitInv, NextInv, PTL DEF Spec

-----------------------------------------------------------------------------
(***************************************************************************)
(* Messaging implements MessageLog: each step of a request is a step of    *)
(* the log or leaves it alone.  What is announced is named by the request  *)
(* that owes it, so an outbox changes by one entry at a time.              *)
(***************************************************************************)
(* the entry r has in the outbox while it owes one *)
Entry(r) == [by |-> r, event |-> IF pc[r] = "publish" THEN "new" ELSE "receipt",
             msg |-> msg[r], user |-> user[r]]

(* what a step of r can change about who owes what *)
Unowed(r) == pc[r] \notin {"publish", "receipt"}
Owes(r) == pc[r] \in {"publish", "receipt"}
OthersKeep(r) == \A q \in Requests \ {r} :
    pc'[q] = pc[q] /\ msg'[q] = msg[q] /\ user'[q] = user[q]

(* A request that starts to owe adds its entry, *)
LEMMA OutboxGrows ==
  ASSUME NEW r \in Requests, OthersKeep(r), Unowed(r), Owes(r)'
  PROVE  Outbox' = Outbox \union {Entry(r)'}
  BY DEF Outbox, Owing, Entry, Owes, Unowed, OthersKeep

(* one that stops to owe takes it away, *)
LEMMA OutboxShrinks ==
  ASSUME NEW r \in Requests, OthersKeep(r), Owes(r), Unowed(r)'
  PROVE  Entry(r) \in Outbox /\ Outbox' = Outbox \ {Entry(r)}
  BY DEF Outbox, Owing, Entry, Owes, Unowed, OthersKeep

(* and the steps of one that does neither leave it as it is. *)
LEMMA OutboxStays ==
  ASSUME NEW r \in Requests, OthersKeep(r), Unowed(r), Unowed(r)'
  PROVE  Outbox' = Outbox
  BY DEF Outbox, Owing, Entry, Owes, Unowed, OthersKeep

LEMMA OutboxUntouched ==
  ASSUME UNCHANGED <<pc, msg, user>>
  PROVE  Outbox' = Outbox
  BY DEF Outbox, Owing

LEMMA InitRefines == Init => Log!LogInit
  <1> SUFFICES ASSUME Init PROVE Log!LogInit
    OBVIOUS
  <1>1. Outbox = {}
    BY DEF Init, Outbox, Owing
  <1>2. \A m \in committed : m \in Nat \ {0}
    BY MaxHistoryAssumption DEF Init
  <1>3. pointer \in [Users -> committed \union {0}]
    <2>1. 0 .. clock = committed \union {0}
      BY MaxHistoryAssumption DEF Init
    <2> QED
      BY <2>1 DEF Init
  <1> QED
    BY <1>1, <1>2, <1>3 DEF Init, Log!LogInit

LEMMA StepRefines == Inv /\ [Next]_vars => [Log!LogNext]_(Log!logVars)
  <1> SUFFICES ASSUME Inv, [Next]_vars PROVE [Log!LogNext]_(Log!logVars)
    OBVIOUS
  <1> USE DEF Goto, database
  <1>t. /\ pc \in [Requests -> {"idle"} \union SendSteps \union ReadSteps \union Final]
        /\ msg \in [Requests -> Nat] /\ user \in [Requests -> Users]
        /\ committed \in SUBSET (1 .. clock) /\ clock \in Nat
        /\ pointer \in [Users -> Nat]
    BY DEF Inv, TypeOK
  (* a step of a request that touches nothing the log shows *)
  <1>s. ASSUME NEW r \in Requests, OthersKeep(r), Unowed(r), Unowed(r)',
               UNCHANGED <<committed, pointer, wire>>
        PROVE  UNCHANGED Log!logVars
    BY <1>s, OutboxStays DEF Log!logVars
  <1>1. ASSUME NEW r \in Requests,
               \/ Authorize(r) \/ LockConversation(r) \/ CreateMessage(r)
               \/ SnapshotRecipients(r) \/ BroadcastConversationUpdate(r)
               \/ SeenMessage(r) \/ SeenLatest(r) \/ LoadParticipant(r)
        PROVE  UNCHANGED Log!logVars
    <2>1. OthersKeep(r) /\ Unowed(r) /\ Unowed(r)'
      BY <1>1, <1>t DEF OthersKeep, Unowed, Authorize, LockConversation, CreateMessage,
           SnapshotRecipients, BroadcastConversationUpdate, SeenMessage,
           SeenLatest, StartRead, LoadParticipant
    <2>2. UNCHANGED <<committed, pointer, wire>>
      BY <1>1 DEF Authorize, LockConversation, CreateMessage,
           SnapshotRecipients, BroadcastConversationUpdate, SeenMessage,
           SeenLatest, StartRead, LoadParticipant
    <2> QED
      BY <2>1, <2>2, <1>s
  <1>2. ASSUME NEW r \in Requests, Commit(r) PROVE Log!LogNext
    <2>1. OthersKeep(r) /\ Unowed(r) /\ Owes(r)'
      BY <1>2, <1>t DEF Commit, OthersKeep, Unowed, Owes
    <2>2. Entry(r)' = Log!Owed(r, Log!Event("new", msg[r], user[r]))
      BY <1>2, <1>t DEF Commit, Entry, Log!Owed, Log!Event
    <2>3. \A k \in committed : k < msg[r]
      BY <1>2 DEF Commit, Inv, PendingIsNewest
    <2>4. Log!CommitMessage(r, msg[r], user[r])
      BY <2>1, <2>2, <2>3, <1>2, OutboxGrows DEF Commit, Log!CommitMessage
    <2>5. msg[r] \in committed' \ committed /\ user[r] \in Users
      BY <1>2, <2>3, <1>t DEF Commit
    <2> QED
      BY <2>4, <2>5 DEF Log!LogNext
  <1>3. ASSUME NEW r \in Requests, SavePointer(r) PROVE Log!LogNext \/ UNCHANGED Log!logVars
    <2>1. CASE Updates(r)
      <3>1. OthersKeep(r) /\ Unowed(r) /\ Owes(r)'
        BY <1>3, <2>1, <1>t DEF SavePointer, OthersKeep, Unowed, Owes
      <3>2. Entry(r)' = Log!Owed(r, Log!Event("receipt", msg[r], user[r]))
        BY <1>3, <2>1, <1>t DEF SavePointer, Entry, Log!Owed, Log!Event
      <3>3. msg[r] \in committed /\ user[r] \in Users
        BY <1>3, <1>t DEF SavePointer, Inv, WorksOnCommitted
      <3>4. Log!MarkRead(r, msg[r], user[r])
        BY <3>1, <3>2, <3>3, <1>3, <2>1, OutboxGrows DEF SavePointer, Log!MarkRead
      <3> QED
        BY <3>3, <3>4 DEF Log!LogNext
    <2>2. CASE ~Updates(r)
      <3>1. OthersKeep(r) /\ Unowed(r) /\ Unowed(r)'
        BY <1>3, <2>2, <1>t DEF SavePointer, OthersKeep, Unowed
      <3> QED
        BY <3>1, <2>2, <1>3, <1>s DEF SavePointer
    <2> QED
      BY <2>1, <2>2
  <1>4. ASSUME NEW r \in Requests, BroadcastNewMessage(r) \/ BroadcastReadReceipt(r)
        PROVE  Log!LogNext
    <2>1. OthersKeep(r) /\ Owes(r) /\ Unowed(r)'
      BY <1>4, <1>t DEF BroadcastNewMessage, BroadcastReadReceipt, OthersKeep, Unowed, Owes
    <2>2. wire' = Append(wire, Log!Sent(Entry(r)))
      BY <1>4, <1>t DEF BroadcastNewMessage, BroadcastReadReceipt, Entry, Log!Sent, Log!Event
    <2>3. UNCHANGED <<committed, pointer>>
      BY <1>4 DEF BroadcastNewMessage, BroadcastReadReceipt
    <2>4. Log!Broadcast(Entry(r))
      BY <2>1, <2>2, <2>3, OutboxShrinks DEF Log!Broadcast
    <2> QED
      BY <2>1, <2>4, OutboxShrinks DEF Log!LogNext
  <1>5. ASSUME NEW r \in Requests, Fail(r) PROVE Log!LogNext \/ UNCHANGED Log!logVars
    <2>1. OthersKeep(r) /\ Unowed(r)' /\ UNCHANGED <<committed, pointer, wire>>
      BY <1>5, <1>t DEF Fail, OthersKeep, Unowed
    <2>2. CASE Owes(r)
      <3>1. Log!Lose(Entry(r))
        BY <2>1, <2>2, OutboxShrinks DEF Log!Lose
      <3> QED
        BY <2>1, <2>2, <3>1, OutboxShrinks DEF Log!LogNext
    <2>3. CASE ~Owes(r)
      BY <2>1, <2>3, <1>s DEF Owes, Unowed
    <2> QED
      BY <2>2, <2>3
  <1>6. ASSUME NEW u \in Users, RowCreated(u) \/ RowDeleted(u) PROVE Log!LogNext
    <2>1. UNCHANGED <<pc, msg, user>>
      BY <1>6 DEF RowCreated, RowDeleted
    <2>2. Log!Forget(u)
      BY <1>6, <2>1, OutboxUntouched DEF RowCreated, RowDeleted, Log!Forget
    <2> QED
      BY <2>2 DEF Log!LogNext
  <1>7. ASSUME UNCHANGED vars PROVE UNCHANGED Log!logVars
    BY <1>7, OutboxUntouched DEF vars, Log!logVars
  <1> QED
    BY <1>1, <1>2, <1>3, <1>4, <1>5, <1>6, <1>7 DEF Next, Send, Read

(* send_message and mark_conversation_as_read, however their steps         *)
(* interleave and fail, are seen from outside as the log of MessageLog:    *)
(* the specification the pages of LiveChat are built on.                   *)
THEOREM LogImplemented == Spec => ImplementsLog
  <1> QED
    BY InitInv, NextInv, InitRefines, StepRefines, PTL DEF Spec, ImplementsLog, Log!LogSpec
================================================================================
