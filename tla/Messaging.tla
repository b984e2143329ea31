------------------------------ MODULE Messaging ------------------------------
(***************************************************************************)
(* One conversation of the chat service: send_message and                  *)
(* mark_conversation_as_read as they run in concurrent requests over a     *)
(* READ COMMITTED database.                                                *)
(*                                                                         *)
(* A request is one call of a service in a worker thread.  Each statement  *)
(* that reads or writes shared state is a step, so requests interleave     *)
(* between any two of them, and Fail is the exception or the dead process  *)
(* at any step.  send_message holds the row lock of the conversation from  *)
(* its SELECT FOR UPDATE to its commit; mark_conversation_as_read runs in  *)
(* autocommit and takes no lock.                                           *)
(*                                                                         *)
(* A message is named by its created_at: the number of the tick at which   *)
(* it was created, 0 standing for NULL.  Participant rows are created and  *)
(* deleted by the membership services; here those commits are steps of the *)
(* environment (module Membership has the services themselves).            *)
(***************************************************************************)
EXTENDS Integers, Sequences, FiniteSets

CONSTANTS
    Users,      \* accounts
    Requests,   \* the calls in flight, each of which runs once
    NoRequest,  \* the value of a free lock
    MaxRows,    \* bound: participant rows one user ever has here
    MaxHistory  \* bound: messages committed before the first step

ASSUME NoRequestAssumption == NoRequest \notin Requests
ASSUME MaxRowsAssumption == MaxRows \in Nat \ {0}
ASSUME MaxHistoryAssumption == MaxHistory \in Nat

VARIABLES
    row,        \* row[u]: u's Participant row, 0 if none; a user who comes
                \* back gets a new row, with a new primary key
    born,       \* born[u]: rows u has had so far
    pointer,    \* pointer[u]: last_read_message of the row
    clock,      \* created_at of the youngest message ever created
    committed,  \* the messages other transactions can read
    last,       \* the conversation's last_message
    lock,       \* request that holds the conversation row, or NoRequest
    pc,         \* pc[r]: the step request r takes next
    user,       \* user[r]: the caller
    msg,        \* msg[r]: message created by a send, target of a read
    loaded,     \* loaded[r]: the participant row a read request fetched
    todo,       \* todo[r]: participant_ids still to be told
    wire        \* what was sent to the conversation's channel group, in order

vars == <<row, born, pointer, clock, committed, last, lock, pc, user, msg,
          loaded, todo, wire>>

SendSteps == {"lock", "create", "snapshot", "commit", "publish", "notify"}
ReadSteps == {"load", "save", "receipt"}
Final == {"done", "failed"}
InTransaction == {"create", "snapshot", "commit"}

Participants == {u \in Users : row[u] # 0}

(* order_by('-created_at').first(), or NULL *)
IsNewest(m, S) == \/ S = {} /\ m = 0
                  \/ m \in S /\ \A k \in S : k <= m

Init ==
    /\ row \in [Users -> 0 .. 1]
    /\ born = row
    /\ clock \in 0 .. MaxHistory
    /\ committed = 1 .. clock
    /\ last = clock
    /\ pointer \in [Users -> 0 .. clock]
    /\ \A u \in Users : row[u] = 0 => pointer[u] = 0
    /\ lock = NoRequest
    /\ pc = [r \in Requests |-> "idle"]
    /\ user \in [Requests -> Users]
    /\ msg = [r \in Requests |-> 0]
    /\ loaded = [r \in Requests |-> [pk |-> 0, pointer |-> 0]]
    /\ todo = [r \in Requests |-> {}]
    /\ wire = <<>>

database == <<row, born, pointer, clock, committed, last>>

Goto(r, step) == pc' = [pc EXCEPT ![r] = step]
------------------------------------------------------------------------------
(* send_message *)

(* The membership check, before the transaction and without a lock. A      *)
(* caller without a row, or with an invalid payload, gets an exception and *)
(* changes nothing.                                                        *)
Authorize(r) ==
    /\ pc[r] = "idle"
    /\ user[r] \in Participants
    /\ Goto(r, "lock")
    /\ UNCHANGED <<database, lock, user, msg, loaded, todo, wire>>

(* mutant: a plain SELECT instead of SELECT FOR UPDATE *)
RowAvailable_NoLock == TRUE

(* whether SELECT FOR UPDATE returns at once *)
RowAvailable == lock = NoRequest

LockConversation(r) ==
    /\ pc[r] = "lock"
    /\ RowAvailable
    /\ lock' = r
    /\ Goto(r, "create")
    /\ UNCHANGED <<database, user, msg, loaded, todo, wire>>

(* mutant: created_at from a clock that stands still *)
CreateMessage_ClockStands(r) ==
    /\ pc[r] = "create"
    /\ msg' = [msg EXCEPT ![r] = clock + 1]
    /\ Goto(r, "snapshot")
    /\ UNCHANGED <<database, lock, user, loaded, todo, wire>>

CreateMessage(r) ==
    /\ pc[r] = "create"
    /\ clock' = clock + 1
    /\ msg' = [msg EXCEPT ![r] = clock + 1]
    /\ Goto(r, "snapshot")
    /\ UNCHANGED <<row, born, pointer, committed, last, lock, user, loaded,
                   todo, wire>>

(* mutant: the broadcast is sent at once, not by on_commit *)
SnapshotRecipients_SendsAtOnce(r) ==
    /\ pc[r] = "snapshot"
    /\ todo' = [todo EXCEPT ![r] = Participants \ {user[r]}]
    /\ wire' = Append(wire, [event |-> "new", msg |-> msg[r], user |-> user[r]])
    /\ Goto(r, "commit")
    /\ UNCHANGED <<database, lock, user, msg, loaded>>

(* conversation.save writes a version only this transaction sees; the      *)
(* recipients are the rows committed by now, without the sender's.         *)
SnapshotRecipients(r) ==
    /\ pc[r] = "snapshot"
    /\ todo' = [todo EXCEPT ![r] = Participants \ {user[r]}]
    /\ Goto(r, "commit")
    /\ UNCHANGED <<database, lock, user, msg, loaded, wire>>

Commit(r) ==
    /\ pc[r] = "commit"
    /\ committed' = committed \union {msg[r]}
    /\ last' = msg[r]
    /\ lock' = NoRequest
    /\ Goto(r, "publish")
    /\ UNCHANGED <<row, born, pointer, clock, user, msg, loaded, todo, wire>>

(* mutant: the second callback is never registered *)
BroadcastNewMessage_Only(r) ==
    /\ pc[r] = "publish"
    /\ wire' = Append(wire, [event |-> "new", msg |-> msg[r], user |-> user[r]])
    /\ Goto(r, "done")
    /\ UNCHANGED <<database, lock, user, msg, loaded, todo>>

(* the first on_commit callback *)
BroadcastNewMessage(r) ==
    /\ pc[r] = "publish"
    /\ wire' = Append(wire, [event |-> "new", msg |-> msg[r], user |-> user[r]])
    /\ Goto(r, IF todo[r] = {} THEN "done" ELSE "notify")
    /\ UNCHANGED <<database, lock, user, msg, loaded, todo>>

(* the second: one group_send per recipient *)
BroadcastConversationUpdate(r) ==
    /\ pc[r] = "notify"
    /\ \E u \in todo[r] :
         /\ todo' = [todo EXCEPT ![r] = @ \ {u}]
         /\ Goto(r, IF todo[r] = {u} THEN "done" ELSE "notify")
    /\ UNCHANGED <<database, lock, user, msg, loaded, wire>>
------------------------------------------------------------------------------
(* mark_conversation_as_read *)

StartRead(r, m) ==
    /\ pc[r] = "idle"
    /\ msg' = [msg EXCEPT ![r] = m]
    /\ Goto(r, "load")
    /\ UNCHANGED <<database, lock, user, loaded, todo, wire>>

(* message_id given: a 'seen' event names any message of the conversation *)
SeenMessage(r) == \E m \in committed : StartRead(r, m)

(* mutant: the latest one is cached, and the cache written before the commit *)
SeenLatest_Dirty(r) == clock # 0 /\ StartRead(r, clock)

(* message_id absent: the consumer's connect asks for the latest one *)
SeenLatest(r) == \E m \in committed : IsNewest(m, committed) /\ StartRead(r, m)

(* mutant: no monotonic guard *)
MovesForward_Always(m, current) == TRUE

(* the monotonic guard *)
MovesForward(m, current) == current = 0 \/ m > current

LoadParticipant(r) ==
    /\ pc[r] = "load"
    /\ LET u == user[r] IN
         /\ loaded' = [loaded EXCEPT ![r] = [pk |-> row[u], pointer |-> pointer[u]]]
         /\ Goto(r, IF row[u] # 0 /\ MovesForward(msg[r], pointer[u])
                      THEN "save" ELSE "done")
    /\ UNCHANGED <<database, lock, user, msg, todo, wire>>

(* mutant: the UPDATE is by conversation and user *)
Updates_ByUser(r) == row[user[r]] # 0

(* save(update_fields=...) is an UPDATE by primary key: *)
Updates(r) == row[user[r]] = loaded[r].pk

(* it overwrites the pointer whatever it is by now, and raises if the row  *)
(* is gone.                                                                *)
SavePointer(r) ==
    /\ pc[r] = "save"
    /\ IF Updates(r)
         THEN /\ pointer' = [pointer EXCEPT ![user[r]] = msg[r]]
              /\ Goto(r, "receipt")
         ELSE /\ Goto(r, "failed")
              /\ UNCHANGED pointer
    /\ UNCHANGED <<row, born, clock, committed, last, lock, user, msg, loaded,
                   todo, wire>>

BroadcastReadReceipt(r) ==
    /\ pc[r] = "receipt"
    /\ wire' = Append(wire, [event |-> "receipt", msg |-> msg[r], user |-> user[r]])
    /\ Goto(r, "done")
    /\ UNCHANGED <<database, lock, user, msg, loaded, todo>>
------------------------------------------------------------------------------
(* mutant: a failed transaction keeps its lock *)
ReleasedBy_Nobody(r) == lock

(* An exception or a dead process: transaction.atomic rolls back, which    *)
(* frees the row, and what on_commit had left to do is lost.               *)
ReleasedBy(r) == IF lock = r THEN NoRequest ELSE lock

Fail(r) ==
    /\ pc[r] \notin Final \union {"idle"}
    /\ lock' = ReleasedBy(r)
    /\ Goto(r, "failed")
    /\ UNCHANGED <<database, user, msg, loaded, todo, wire>>

(* the rows Membership's services commit *)
RowCreated(u) ==
    /\ row[u] = 0
    /\ born[u] < MaxRows
    /\ born' = [born EXCEPT ![u] = @ + 1]
    /\ row' = [row EXCEPT ![u] = born[u] + 1]
    /\ pointer' = [pointer EXCEPT ![u] = 0]
    /\ UNCHANGED <<clock, committed, last, lock, pc, user, msg, loaded, todo, wire>>

RowDeleted(u) ==
    /\ row[u] # 0
    /\ row' = [row EXCEPT ![u] = 0]
    /\ pointer' = [pointer EXCEPT ![u] = 0]
    /\ UNCHANGED <<born, clock, committed, last, lock, pc, user, msg, loaded,
                   todo, wire>>

Send(r) == \/ Authorize(r) \/ LockConversation(r) \/ CreateMessage(r)
           \/ SnapshotRecipients(r) \/ Commit(r) \/ BroadcastNewMessage(r)
           \/ BroadcastConversationUpdate(r)

Read(r) == \/ SeenMessage(r) \/ SeenLatest(r) \/ LoadParticipant(r)
           \/ SavePointer(r) \/ BroadcastReadReceipt(r)

Next == \/ \E r \in Requests : Send(r) \/ Read(r) \/ Fail(r)
        \/ \E u \in Users : RowCreated(u) \/ RowDeleted(u)

Spec == Init /\ [][Next]_vars

(* A request that has started keeps running: its thread is scheduled and   *)
(* the database grants the row lock in the order it was asked for. That a  *)
(* request is made at all is not assumed.                                  *)
Proceed(r) == pc[r] # "idle" /\ (Send(r) \/ Read(r))

Fairness == \A r \in Requests : WF_vars(Proceed(r))

FairSpec == Spec /\ Fairness
------------------------------------------------------------------------------
Events == [event : {"new", "receipt"}, msg : Nat, user : Users]

TypeOK ==
    /\ row \in [Users -> 0 .. MaxRows]
    /\ born \in [Users -> 0 .. MaxRows]
    /\ clock \in Nat
    /\ committed \in SUBSET (1 .. clock)
    /\ last \in Nat
    /\ pointer \in [Users -> Nat]
    /\ lock \in Requests \union {NoRequest}
    /\ pc \in [Requests -> {"idle"} \union SendSteps \union ReadSteps \union Final]
    /\ user \in [Requests -> Users]
    /\ msg \in [Requests -> Nat]
    /\ loaded \in [Requests -> [pk : 0 .. MaxRows, pointer : Nat]]
    /\ todo \in [Requests -> SUBSET Users]
    /\ wire \in Seq(Events)

(* However sends interleave and fail, the conversation's last_message is   *)
(* the newest message anyone can read, which is what the conversation list *)
(* shows (send_message, conversation.save).                                *)
LastMessageIsNewest == IsNewest(last, committed)

(* Nothing that was never committed leaks out: a read pointer refers to a  *)
(* committed message, and so does every broadcast, the ones of transactions *)
(* that later failed included (transaction.on_commit in send_message).     *)
OnlyCommittedIsVisible ==
    /\ \A u \in Users : pointer[u] \in committed \union {0}
    /\ \A i \in 1 .. Len(wire) : wire[i].msg \in committed

(* A message never becomes visible behind a read pointer: whatever a       *)
(* participant has marked as read by then, the message that commits is     *)
(* still unread, because created_at is taken under the conversation's row  *)
(* lock (send_message against mark_conversation_as_read).                  *)
NoMessageBehindPointer ==
    [][\A m \in committed' \ committed, u \in Users : m > pointer[u]]_vars

(* r overwrites the pointer of its user's row with an older message *)
Regresses(r) == /\ pc[r] = "save" /\ pc'[r] = "receipt"
                /\ pointer'[user[r]] < pointer[user[r]]

(* The monotonic guard of mark_conversation_as_read works up to the race   *)
(* it leaves open: a pointer moves backward only by the save of a request  *)
(* whose copy of the row was overtaken by another save.                    *)
BackwardOnlyWhenStale ==
    [][/\ \A r \in Requests :
            Regresses(r) => loaded[r].pointer # pointer[user[r]]
       /\ \A u \in Users :
            (row'[u] = row[u] /\ pointer'[u] < pointer[u]) =>
                \E r \in Requests : user[r] = u /\ Regresses(r)]_vars

(* A save that was overtaken by the removal of its user spares the row of  *)
(* a user who was added again, and brings no old one back: the pointer of  *)
(* a row only changes by the save of a request that loaded that very row   *)
(* (mark_conversation_as_read against remove_participant, add_participant). *)
SaveSparesNewRow ==
    [][\A u \in Users :
         (row'[u] = row[u] /\ pointer'[u] # pointer[u]) =>
            \E r \in Requests : /\ user[r] = u /\ pc[r] = "save" /\ pc'[r] = "receipt"
                               /\ row[u] # 0 /\ loaded[r].pk = row[u]]_vars

(* What is still to be broadcast once r has committed, or has saved. *)
Owing == {r \in Requests : pc[r] \in {"publish", "receipt"}}
Outbox == {[by |-> r, event |-> IF pc[r] = "publish" THEN "new" ELSE "receipt",
            msg |-> msg[r], user |-> user[r]] : r \in Owing}

Log == INSTANCE MessageLog WITH Callers <- Requests, outbox <- Outbox

(* The two services, with their locks, snapshots, callbacks and failures,  *)
(* do what the pages rely on (module MessageLog): messages become readable *)
(* in order, and each commit and each save is broadcast at most once.      *)
ImplementsLog == Log!LogSpec

(* "the read pointer only ever moves forward" (comment in                  *)
(* mark_conversation_as_read): as long as a row exists, its pointer grows. *)
PointerOnlyMovesForward ==
    [][\A u \in Users : row'[u] = row[u] => pointer'[u] >= pointer[u]]_vars

(* Whoever gets to commit a message and does not fail tells the            *)
(* conversation's group, and every participant the snapshot found, the     *)
(* sender's own sockets and an otherwise empty conversation included.      *)
CommittedIsBroadcast ==
    \A r \in Requests :
        pc[r] = "commit" ~>
            \/ pc[r] = "failed"
            \/ /\ todo[r] = {}
               /\ \E i \in 1 .. Len(wire) :
                    wire[i].event = "new" /\ wire[i].msg = msg[r]

(* No request waits forever: a request that failed inside the transaction  *)
(* leaves no lock behind.                                                  *)
RequestsTerminate ==
    \A r \in Requests : pc[r] = "lock" ~> pc[r] \in Final
==============================================================================
