------------------------------ MODULE Membership ------------------------------
(***************************************************************************)
(* Who is in which conversation: create_direct_conversation,               *)
(* create_group_conversation, add_participant, remove_participant and      *)
(* leave_conversation as they run in concurrent requests.                  *)
(*                                                                         *)
(* Each service is one READ COMMITTED transaction without row locks: every *)
(* query is a step that sees what has committed by then, and the writes    *)
(* take effect together in the step that commits.  on_commit sends the     *)
(* conversation update to the users it concerns afterwards.  A call with   *)
(* an argument the service rejects changes nothing.                        *)
(***************************************************************************)
EXTENDS Integers, FiniteSets

CONSTANTS
    Users,                  \* accounts
    Requests,               \* the calls in flight, each of which runs once
    MAX_GROUP_PARTICIPANTS,
    MaxConversations,       \* bound: conversations ever created
    MaxRows,                \* bound: rows one user ever has in a conversation
    MaxPromotions           \* bound: role changes made by staff

ASSUME CapAssumption == MAX_GROUP_PARTICIPANTS \in Nat \ {0}
ASSUME BoundsAssumption == /\ MaxConversations \in Nat \ {0}
                           /\ MaxRows \in Nat \ {0}
                           /\ MaxPromotions \in Nat
ASSUME FinitenessAssumption == /\ IsFiniteSet(Users)
                               /\ IsFiniteSet(Requests)
                               /\ Requests # {}

Conversations == 1 .. MaxConversations

VARIABLES
    created,    \* conversations 1 .. created exist
    kind,       \* kind[c]: Conversation.type
    row,        \* row[c][u]: u's Participant row in c, 0 if none; a user who
                \* comes back gets a new row, with a new primary key
    born,       \* born[c][u]: rows u has had in c so far
    admins,     \* admins[c]: users whose row has the role ADMIN
    promotions, \* role changes so far
    pc,         \* pc[r]: the step request r takes next
    conv,       \* conv[r]: conversation_id
    actor,      \* actor[r]: the creator of a direct conversation
    target,     \* target[r]: the user added or removed, or the other user
    pk,         \* pk[r]: the row a removal loaded
    loadedRole, \* loadedRole[r]: its role then
    rivals,     \* rivals[r]: the other admins a removal counted
    todo,       \* todo[r]: participant_ids still to be told
    told        \* the last conversation update sent, <<action, conversation,
                \* user>>, in a set

vars == <<created, kind, row, born, admins, promotions, pc, conv, actor, target,
          pk, loadedRole, rivals, todo, told>>

database == <<created, kind, row, born, admins, promotions>>
arguments == <<conv, actor, target>>
loaded == <<pk, loadedRole, rivals>>

Members(c) == {u \in Users : row[c][u] # 0}

(* a row of each user in U, for a conversation without any so far *)
Rows(U) == [u \in Users |-> IF u \in U THEN 1 ELSE 0]

Init ==
    /\ created = 1
    /\ \E u \in Users, U \in SUBSET Users, k \in {"group", "direct"} :
         /\ u \in U
         /\ k = "group" => Cardinality(U) <= MAX_GROUP_PARTICIPANTS
         /\ k = "direct" => Cardinality(U) = 2
         /\ kind = [c \in Conversations |-> IF c = 1 THEN k ELSE "none"]
         /\ row = [c \in Conversations |-> IF c = 1 THEN Rows(U) ELSE Rows({})]
         /\ admins = [c \in Conversations |->
                        IF c = 1 /\ k = "group" THEN {u} ELSE {}]
    /\ born = row
    /\ promotions = 0
    /\ pc = [r \in Requests |-> "idle"]
    /\ conv = [r \in Requests |-> 1]
    /\ \E u \in Users : actor = [r \in Requests |-> u] /\ target = actor
    /\ pk = [r \in Requests |-> 0]
    /\ loadedRole = [r \in Requests |-> "MEMBER"]
    /\ rivals = [r \in Requests |-> {}]
    /\ todo = [r \in Requests |-> {}]
    /\ told = {}

Goto(r, step) == pc' = [pc EXCEPT ![r] = step]

(* mutant: the payload names the conversation after the one that exists *)
Announce_NextId(r, action, U) ==
    /\ todo' = [todo EXCEPT ![r] = {<<action, created' + 1, u>> : u \in U}]
    /\ Goto(r, IF U = {} THEN "done" ELSE "notify")

(* what on_commit is to send, and to whom *)
Announce(r, action, U) ==
    /\ todo' = [todo EXCEPT ![r] = {<<action, conv'[r], u>> : u \in U}]
    /\ Goto(r, IF U = {} THEN "done" ELSE "notify")

(* what the first query of a call with target u leaves it to work on *)
Call(r, c, u, step) ==
    /\ conv' = [conv EXCEPT ![r] = c]
    /\ target' = [target EXCEPT ![r] = u]
    /\ Goto(r, step)
    /\ UNCHANGED <<database, loaded, todo, told>>

(* the commit of a new conversation c with its rows *)
Create(r, k, U, A) ==
    LET c == created + 1 IN
    /\ created < MaxConversations
    /\ created' = c
    /\ kind' = [kind EXCEPT ![c] = k]
    /\ row' = [row EXCEPT ![c] = Rows(U)]
    /\ born' = [born EXCEPT ![c] = Rows(U)]
    /\ admins' = [admins EXCEPT ![c] = A]
    /\ conv' = [conv EXCEPT ![r] = c]
    /\ UNCHANGED <<promotions, actor, target, loaded, told>>
------------------------------------------------------------------------------
(* create_direct_conversation *)

SharedBy(u, v) ==
    {c \in 1 .. created : kind[c] = "direct" /\ {u, v} \subseteq Members(c)}

(* mutant: get_existing_direct_conversation is not asked *)
CheckExisting_Skipped(r) ==
    /\ pc[r] = "idle"
    /\ \E u, v \in Users :
         /\ u # v
         /\ actor' = [actor EXCEPT ![r] = u]
         /\ Call(r, created, v, "createDirect")

(* The self check and get_existing_direct_conversation: an existing one is *)
(* returned as it is.  conv[r] notes how many conversations the query saw. *)
CheckExisting(r) ==
    /\ pc[r] = "idle"
    /\ \E u, v \in Users :
         /\ u # v
         /\ SharedBy(u, v) = {}
         /\ actor' = [actor EXCEPT ![r] = u]
         /\ Call(r, created, v, "createDirect")

CreateDirect(r) ==
    /\ pc[r] = "createDirect"
    /\ Create(r, "direct", {actor[r], target[r]}, {})
    /\ Announce(r, "conversation_added", {target[r]})

(* create_group_conversation: its checks read no shared state *)
WithinCap(U) == Cardinality(U) <= MAX_GROUP_PARTICIPANTS

CreateGroup(r) ==
    /\ pc[r] = "idle"
    /\ \E u \in Users : \E others \in SUBSET (Users \ {u}) :
         /\ WithinCap(others \union {u})
         /\ Create(r, "group", others \union {u}, {u})
         /\ Announce(r, "conversation_added", others)
------------------------------------------------------------------------------
(* _get_admin_participant_or_raise *)
IsAdmin(c, u) == u \in Members(c) /\ u \in admins[c]

(* add_participant: the group exists, the caller is an admin of it, *)
AddCheckAdmin(r) ==
    /\ pc[r] = "idle"
    /\ \E c \in 1 .. created, u, v \in Users :
         /\ kind[c] = "group"
         /\ IsAdmin(c, u)
         /\ Call(r, c, v, "addExists")
    /\ UNCHANGED actor

(* mutant: the participants are not counted *)
AddCheckMember_NoCount(r) ==
    /\ pc[r] = "addExists"
    /\ target[r] \notin Members(conv[r])
    /\ Goto(r, "add")
    /\ UNCHANGED <<database, arguments, loaded, todo, told>>

(* the user is not in it yet, *)
AddCheckMember(r) ==
    /\ pc[r] = "addExists"
    /\ target[r] \notin Members(conv[r])
    /\ Goto(r, "addCount")
    /\ UNCHANGED <<database, arguments, loaded, todo, told>>

HasRoom(c) == Cardinality(Members(c)) < MAX_GROUP_PARTICIPANTS

(* mutant: the update is sent before the transaction commits *)
AddCheckCap_SendsAtOnce(r) ==
    /\ pc[r] = "addCount"
    /\ HasRoom(conv[r])
    /\ Goto(r, "add")
    /\ told' = {<<"participant_added", conv[r], target[r]>>}
    /\ UNCHANGED <<database, arguments, loaded, todo>>

(* there is room, *)
AddCheckCap(r) ==
    /\ pc[r] = "addCount"
    /\ HasRoom(conv[r])
    /\ Goto(r, "add")
    /\ UNCHANGED <<database, arguments, loaded, todo, told>>

(* and the INSERT does not violate unique_conversation_participant. *)
AddCommit(r) ==
    LET c == conv[r]
        u == target[r]
    IN  /\ pc[r] = "add"
        /\ row[c][u] = 0
        /\ born[c][u] < MaxRows
        /\ born' = [born EXCEPT ![c][u] = @ + 1]
        /\ row' = [row EXCEPT ![c][u] = born[c][u] + 1]
        /\ UNCHANGED <<created, kind, admins, promotions, arguments, loaded, told>>
        /\ Announce(r, "participant_added", {u})
------------------------------------------------------------------------------
(* remove_participant by an admin, leave_conversation by anybody: both     *)
(* load the row, count the other admins if it is an admin's, and delete it *)
(* by primary key.  Only remove_participant tells anybody.                 *)
RemoveCheckAdmin(r) ==
    /\ pc[r] = "idle"
    /\ \E c \in 1 .. created, u, v \in Users :
         IsAdmin(c, u) /\ Call(r, c, v, "removeLoad")
    /\ UNCHANGED actor

Load(r, c, u, next) ==
    /\ row[c][u] # 0
    /\ conv' = [conv EXCEPT ![r] = c]
    /\ target' = [target EXCEPT ![r] = u]
    /\ pk' = [pk EXCEPT ![r] = row[c][u]]
    /\ loadedRole' = [loadedRole EXCEPT ![r] = IF u \in admins[c] THEN "ADMIN" ELSE "MEMBER"]
    /\ Goto(r, IF u \in admins[c] THEN next.admin ELSE next.member)
    /\ UNCHANGED <<database, actor, rivals, todo, told>>

RemoveLoad(r) ==
    /\ pc[r] = "removeLoad"
    /\ Load(r, conv[r], target[r], [admin |-> "removeCount", member |-> "remove"])

LeaveLoad(r) ==
    /\ pc[r] = "idle"
    /\ \E c \in 1 .. created, u \in Users :
         Load(r, c, u, [admin |-> "leaveCount", member |-> "leave"])

(* mutant: the last admin may go *)
LeavesNoAdmin_Never(others) == FALSE

(* remaining_admins == 0 *)
LeavesNoAdmin(others) == others = {}

CountAdmins(r, next) ==
    LET others == (admins[conv[r]] \intersect Members(conv[r])) \ {target[r]}
    IN  /\ ~LeavesNoAdmin(others)
        /\ rivals' = [rivals EXCEPT ![r] = others]
        /\ Goto(r, next)
        /\ UNCHANGED <<database, arguments, pk, loadedRole, todo, told>>

RemoveCountAdmins(r) == pc[r] = "removeCount" /\ CountAdmins(r, "remove")

LeaveCountAdmins(r) == pc[r] = "leaveCount" /\ CountAdmins(r, "leave")

(* mutant: filter(conversation=..., user=...).delete() *)
Matches_ByUser(r) == TRUE

(* participant.delete(): the row it loaded, or nothing if that is gone *)
Matches(r) == row[conv[r]][target[r]] = pk[r]

Delete(r) ==
    LET c == conv[r]
        u == target[r]
    IN  /\ row' = IF Matches(r) THEN [row EXCEPT ![c][u] = 0] ELSE row
        /\ admins' = IF Matches(r) THEN [admins EXCEPT ![c] = @ \ {u}] ELSE admins
        /\ UNCHANGED <<created, kind, born, promotions, arguments, loaded, told>>

RemoveCommit(r) ==
    /\ pc[r] = "remove"
    /\ Delete(r)
    /\ Announce(r, "participant_removed", {target[r]})

LeaveCommit(r) ==
    /\ pc[r] = "leave"
    /\ Delete(r)
    /\ Goto(r, "done")
    /\ UNCHANGED todo
------------------------------------------------------------------------------
(* broadcast_conversation_update: one group_send per user *)
Notify(r) ==
    /\ pc[r] = "notify"
    /\ \E t \in todo[r] :
         /\ told' = {t}
         /\ todo' = [todo EXCEPT ![r] = @ \ {t}]
         /\ Goto(r, IF todo[r] = {t} THEN "done" ELSE "notify")
    /\ UNCHANGED <<database, arguments, loaded>>

(* A rejection, an exception or a dead process: the transaction rolls back *)
(* and what on_commit had left to do is lost.                              *)
Fail(r) ==
    /\ pc[r] \notin {"idle", "done", "failed"}
    /\ Goto(r, "failed")
    /\ todo' = [todo EXCEPT ![r] = {}]
    /\ UNCHANGED <<database, arguments, loaded, told>>

(* No service changes a role; staff can, on the Participant page of        *)
(* Django's admin site.                                                    *)
Promote ==
    /\ promotions < MaxPromotions
    /\ promotions' = promotions + 1
    /\ \E c \in 1 .. created : \E u \in Members(c) :
         /\ kind[c] = "group"
         /\ admins' = [admins EXCEPT ![c] = @ \union {u}]
    /\ UNCHANGED <<created, kind, row, born, pc, arguments, loaded, todo, told>>

Direct(r) == CheckExisting(r) \/ CreateDirect(r)
Add(r) == AddCheckAdmin(r) \/ AddCheckMember(r) \/ AddCheckCap(r) \/ AddCommit(r)
Remove(r) == \/ RemoveCheckAdmin(r) \/ RemoveLoad(r) \/ RemoveCountAdmins(r)
             \/ RemoveCommit(r)
Leave(r) == LeaveLoad(r) \/ LeaveCountAdmins(r) \/ LeaveCommit(r)

Next == \/ \E r \in Requests : \/ Direct(r) \/ CreateGroup(r) \/ Add(r)
                               \/ Remove(r) \/ Leave(r) \/ Notify(r) \/ Fail(r)
        \/ Promote

Spec == Init /\ [][Next]_vars
------------------------------------------------------------------------------
Steps == {"idle", "createDirect", "addExists", "addCount", "add", "removeLoad",
          "removeCount", "remove", "leaveCount", "leave", "notify", "done",
          "failed"}

Updates == {"conversation_added", "participant_added", "participant_removed"}
           \X Conversations \X Users

TypeOK ==
    /\ created \in Conversations
    /\ kind \in [Conversations -> {"none", "group", "direct"}]
    /\ row \in [Conversations -> [Users -> 0 .. MaxRows]]
    /\ born \in [Conversations -> [Users -> 0 .. MaxRows]]
    /\ admins \in [Conversations -> SUBSET Users]
    /\ promotions \in 0 .. MaxPromotions
    /\ pc \in [Requests -> Steps]
    /\ conv \in [Requests -> Conversations]
    /\ actor \in [Requests -> Users]
    /\ target \in [Requests -> Users]
    /\ pk \in [Requests -> 0 .. MaxRows]
    /\ loadedRole \in [Requests -> {"ADMIN", "MEMBER"}]
    /\ rivals \in [Requests -> SUBSET Users]
    /\ todo \in [Requests -> SUBSET Updates]
    /\ told \in SUBSET Updates

Adding(c) == {r \in Requests : pc[r] = "add" /\ conv[r] = c}

(* "Max number of participants a single group conversation can have.       *)
(* Enforced in create_group_conversation and add_participant" (comment of  *)
(* MAX_GROUP_PARTICIPANTS).                                                *)
CapIsKept ==
    \A c \in 1 .. created :
        kind[c] = "group" => Cardinality(Members(c)) <= MAX_GROUP_PARTICIPANTS

(* CapIsKept fails: the cap is checked without a lock, so concurrent       *)
(* add_participant calls pass it together.  What is left of it: however    *)
(* they interleave with removals, a group with the adds that have passed   *)
(* the check exceeds MAX_GROUP_PARTICIPANTS by at most one less than the   *)
(* number of calls in flight.                                              *)
OvershootBounded ==
    \A c \in 1 .. created :
        kind[c] = "group" =>
            Cardinality(Members(c)) + Cardinality(Adding(c))
                <= MAX_GROUP_PARTICIPANTS + Cardinality(Requests) - 1

HasAdmin(c) == \E u \in Users : IsAdmin(c, u)

(* As long as no role is changed, a group always has an admin: neither     *)
(* remove_participant nor leave_conversation takes the last one away.      *)
GroupKeepsAdmin ==
    promotions = 0 => \A c \in 1 .. created : kind[c] = "group" => HasAdmin(c)

(* "Refuses to remove an ADMIN if they are the conversation's only         *)
(* remaining admin" (docstring of remove_participant; leave_conversation   *)
(* has the "Same last-admin guard"): no deletion takes the row of whoever  *)
(* is the only admin of a group.                                           *)
OnlyAdminStays ==
    [][\A c \in 1 .. created, u \in Users :
         (kind[c] = "group" /\ \A v \in Users : IsAdmin(c, v) <=> v = u)
            => row'[c][u] # 0]_vars

(* OnlyAdminStays fails once roles are changed.  What is left of it: a     *)
(* group loses its last admin only by a deletion that counted another      *)
(* admin who is gone by now, or that loaded the row before its promotion   *)
(* (the guards of remove_participant and leave_conversation).              *)
LastAdminLostOnlyByRace ==
    [][\A c \in 1 .. created :
         (HasAdmin(c) /\ ~HasAdmin(c)') =>
            \E r \in Requests :
                /\ pc[r] \in {"remove", "leave"} /\ pc'[r] # pc[r]
                /\ conv[r] = c
                /\ rivals[r] # {} \/ loadedRole[r] = "MEMBER"]_vars

(* When create_direct_conversation is about to create a conversation for a *)
(* pair, any they already share was created after it looked: only a race   *)
(* makes a duplicate, also when participants have left in between.         *)
DuplicateDirectOnlyByRace ==
    \A r \in Requests :
        pc[r] = "createDirect" =>
            \A c \in SharedBy(actor[r], target[r]) : c > conv[r]

(* A removal or a leave that was overtaken spares the row of a user who    *)
(* was removed and added again: only the row it loaded is ever deleted     *)
(* (participant.delete() is by primary key).                               *)
RemovalSparesNewRow ==
    [][\A c \in 1 .. created, u \in Users :
         (row[c][u] # 0 /\ row'[c][u] = 0) =>
            \E r \in Requests :
                /\ pc[r] \in {"remove", "leave"} /\ pc'[r] # pc[r]
                /\ <<conv[r], target[r], pk[r]>> = <<c, u, row[c][u]>>]_vars

(* Nobody is told of a conversation or a membership that was never         *)
(* committed, whatever fails in between (transaction.on_commit).           *)
ToldOfCommitted == \A t \in told : born[t[2]][t[3]] > 0
==============================================================================
