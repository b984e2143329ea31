--------------------------- MODULE MembershipProofs ---------------------------
(***************************************************************************)
(* The safety properties of Membership for any number of users, requests,  *)
(* conversations and rows, and any cap.                                    *)
(*                                                                         *)
(* The invariant is built in layers: types, what a request knows of the    *)
(* rows it works on, and then each property with the facts it needs.       *)
(***************************************************************************)
EXTENDS Membership, FiniteSetTheorems, TLAPS

(* f[c][u] = v in a function of functions *)
LEMMA NestedUpdate ==
  ASSUME NEW C, NEW U, NEW S, NEW f \in [C -> [U -> S]],
         NEW c \in C, NEW u \in U, NEW v \in S
  PROVE  /\ [f EXCEPT ![c][u] = v] \in [C -> [U -> S]]
         /\ \A d \in C, w \in U :
              [f EXCEPT ![c][u] = v][d][w] = IF d = c /\ w = u THEN v ELSE f[d][w]
  OBVIOUS

LEMMA OneIsAConversation == 1 \in Conversations
  BY BoundsAssumption DEF Conversations

LEMMA InitTypes == Init => TypeOK
  <1> SUFFICES ASSUME Init PROVE TypeOK
    OBVIOUS
  <1> USE BoundsAssumption, OneIsAConversation
  <1>1. \A U \in SUBSET Users : Rows(U) \in [Users -> 0 .. MaxRows]
    BY DEF Rows
  <1>2. row \in [Conversations -> [Users -> 0 .. MaxRows]] /\ born = row
    BY <1>1 DEF Init
  <1>3. /\ kind \in [Conversations -> {"none", "group", "direct"}]
        /\ admins \in [Conversations -> SUBSET Users]
    BY DEF Init
  <1>4. /\ pc \in [Requests -> Steps] /\ conv \in [Requests -> Conversations]
        /\ actor \in [Requests -> Users] /\ target \in [Requests -> Users]
        /\ pk \in [Requests -> 0 .. MaxRows]
        /\ loadedRole \in [Requests -> {"ADMIN", "MEMBER"}]
        /\ rivals \in [Requests -> SUBSET Users]
        /\ todo \in [Requests -> SUBSET Updates] /\ told \in SUBSET Updates
    BY DEF Init, Steps
  <1> QED
    BY <1>2, <1>3, <1>4 DEF Init, TypeOK

(* What Announce leaves behind is well typed. *)
LEMMA AnnounceTypes ==
  ASSUME TypeOK, NEW r \in Requests, NEW U \in SUBSET Users,
         NEW action \in {"conversation_added", "participant_added", "participant_removed"},
         conv'[r] \in Conversations, Announce(r, action, U)
  PROVE  pc' \in [Requests -> Steps] /\ todo' \in [Requests -> SUBSET Updates]
  <1>1. {<<action, conv'[r], u>> : u \in U} \in SUBSET Updates
    BY DEF Updates
  <1>2. todo' \in [Requests -> SUBSET Updates]
    BY <1>1 DEF TypeOK, Announce
  <1>3. pc' \in [Requests -> Steps]
    BY DEF TypeOK, Announce, Goto, Steps
  <1> QED
    BY <1>2, <1>3

(* So is a new conversation. *)
LEMMA CreateTypes ==
  ASSUME TypeOK, NEW r \in Requests, NEW k \in {"group", "direct"},
         NEW U \in SUBSET Users, NEW A \in SUBSET Users, Create(r, k, U, A)
  PROVE  /\ created' \in Conversations /\ conv'[r] = created'
         /\ kind' \in [Conversations -> {"none", "group", "direct"}]
         /\ row' \in [Conversations -> [Users -> 0 .. MaxRows]]
         /\ born' \in [Conversations -> [Users -> 0 .. MaxRows]]
         /\ admins' \in [Conversations -> SUBSET Users]
         /\ conv' \in [Requests -> Conversations]
  <1>1. created + 1 \in Conversations
    BY BoundsAssumption DEF TypeOK, Create, Conversations
  <1>2. Rows(U) \in [Users -> 0 .. MaxRows]
    BY BoundsAssumption DEF Rows
  <1> QED
    BY <1>1, <1>2 DEF TypeOK, Create

(* Load and CountAdmins, which remove_participant and leave_conversation share *)
LEMMA LoadTypes ==
  ASSUME TypeOK, NEW r \in Requests, NEW c \in Conversations, NEW u \in Users,
         NEW next \in [{"admin", "member"} -> Steps], Load(r, c, u, next)
  PROVE  TypeOK'
  <1>1. row[c][u] \in 0 .. MaxRows
    BY DEF TypeOK
  <1>2. pc' \in [Requests -> Steps]
    BY DEF TypeOK, Load, Goto
  <1>3. /\ conv' \in [Requests -> Conversations] /\ target' \in [Requests -> Users]
        /\ pk' \in [Requests -> 0 .. MaxRows]
        /\ loadedRole' \in [Requests -> {"ADMIN", "MEMBER"}]
    BY <1>1 DEF TypeOK, Load
  <1> QED
    BY <1>2, <1>3 DEF TypeOK, Load, database

LEMMA CountTypes ==
  ASSUME TypeOK, NEW r \in Requests, NEW next \in Steps, CountAdmins(r, next)
  PROVE  TypeOK'
  <1>1. rivals' \in [Requests -> SUBSET Users] /\ pc' \in [Requests -> Steps]
    BY DEF TypeOK, CountAdmins, Goto, Members
  <1> QED
    BY <1>1 DEF TypeOK, CountAdmins, database, arguments

LEMMA DeleteTypes ==
  ASSUME TypeOK, NEW r \in Requests, Delete(r)
  PROVE  /\ row' \in [Conversations -> [Users -> 0 .. MaxRows]]
         /\ admins' \in [Conversations -> SUBSET Users]
  <1>1. conv[r] \in Conversations /\ target[r] \in Users /\ 0 \in 0 .. MaxRows
    BY BoundsAssumption DEF TypeOK
  <1>2. [row EXCEPT ![conv[r]][target[r]] = 0] \in [Conversations -> [Users -> 0 .. MaxRows]]
    <2>1. row \in [Conversations -> [Users -> 0 .. MaxRows]]
      BY DEF TypeOK
    <2> QED
      BY ONLY <1>1, <2>1, NestedUpdate
  <1>3. [admins EXCEPT ![conv[r]] = @ \ {target[r]}] \in [Conversations -> SUBSET Users]
    BY <1>1 DEF TypeOK
  <1> QED
    BY <1>2, <1>3 DEF TypeOK, Delete

LEMMA NextTypes == TypeOK /\ [Next]_vars => TypeOK'
  <1> SUFFICES ASSUME TypeOK, [Next]_vars PROVE TypeOK'
    OBVIOUS
  <1>c. 1 .. created \subseteq Conversations
    BY BoundsAssumption DEF TypeOK, Conversations
  <1>1. ASSUME NEW r \in Requests, CheckExisting(r) PROVE TypeOK'
    BY <1>1, <1>c DEF CheckExisting, Call, Goto, Steps, TypeOK, database, loaded
  <1>2. ASSUME NEW r \in Requests, CreateDirect(r) PROVE TypeOK'
    <2>1. /\ {actor[r], target[r]} \in SUBSET Users /\ {target[r]} \in SUBSET Users
          /\ {} \in SUBSET Users
      BY DEF TypeOK
    <2>2. Create(r, "direct", {actor[r], target[r]}, {})
          /\ Announce(r, "conversation_added", {target[r]})
      BY <1>2 DEF CreateDirect
    <2>3. /\ created' \in Conversations /\ conv'[r] = created'
          /\ kind' \in [Conversations -> {"none", "group", "direct"}]
          /\ row' \in [Conversations -> [Users -> 0 .. MaxRows]]
          /\ born' \in [Conversations -> [Users -> 0 .. MaxRows]]
          /\ admins' \in [Conversations -> SUBSET Users]
          /\ conv' \in [Requests -> Conversations]
      BY <2>1, <2>2, CreateTypes
    <2>4. pc' \in [Requests -> Steps] /\ todo' \in [Requests -> SUBSET Updates]
      BY <2>1, <2>2, <2>3, AnnounceTypes
    <2> QED
      BY <2>2, <2>3, <2>4 DEF TypeOK, Create, loaded
  <1>3. ASSUME NEW r \in Requests, CreateGroup(r) PROVE TypeOK'
    <2>1. PICK u \in Users, others \in SUBSET Users :
            /\ Create(r, "group", others \union {u}, {u})
            /\ Announce(r, "conversation_added", others)
      BY <1>3 DEF CreateGroup
    <2>2. /\ created' \in Conversations /\ conv'[r] = created'
          /\ kind' \in [Conversations -> {"none", "group", "direct"}]
          /\ row' \in [Conversations -> [Users -> 0 .. MaxRows]]
          /\ born' \in [Conversations -> [Users -> 0 .. MaxRows]]
          /\ admins' \in [Conversations -> SUBSET Users]
          /\ conv' \in [Requests -> Conversations]
      BY <2>1, CreateTypes
    <2>3. pc' \in [Requests -> Steps] /\ todo' \in [Requests -> SUBSET Updates]
      BY <2>1, <2>2, AnnounceTypes
    <2> QED
      BY <2>1, <2>2, <2>3 DEF TypeOK, Create, loaded
  <1>4. ASSUME NEW r \in Requests, AddCheckAdmin(r) \/ RemoveCheckAdmin(r) PROVE TypeOK'
    <2>1. PICK c \in 1 .. created, v \in Users, step \in {"addExists", "removeLoad"} :
            Call(r, c, v, step) /\ UNCHANGED actor
      BY <1>4 DEF AddCheckAdmin, RemoveCheckAdmin
    <2>2. pc' \in [Requests -> Steps]
      BY <2>1 DEF Call, Goto, Steps, TypeOK
    <2>3. conv' \in [Requests -> Conversations] /\ target' \in [Requests -> Users]
      BY <2>1, <1>c DEF Call, TypeOK
    <2> QED
      BY <2>1, <2>2, <2>3 DEF Call, TypeOK, database, loaded
  <1>5. ASSUME NEW r \in Requests, AddCheckMember(r) \/ AddCheckCap(r) PROVE TypeOK'
    BY <1>5 DEF AddCheckMember, AddCheckCap, Goto, Steps, TypeOK, database, arguments, loaded
  <1>6. ASSUME NEW r \in Requests, AddCommit(r) PROVE TypeOK'
    <2>1. conv[r] \in Conversations /\ target[r] \in Users /\ conv'[r] \in Conversations
      BY <1>6 DEF TypeOK, AddCommit, arguments
    <2>2. born[conv[r]][target[r]] + 1 \in 0 .. MaxRows
      BY <1>6, <2>1, BoundsAssumption DEF TypeOK, AddCommit
    <2>3. /\ row' \in [Conversations -> [Users -> 0 .. MaxRows]]
          /\ born' \in [Conversations -> [Users -> 0 .. MaxRows]]
      <3>1. /\ row \in [Conversations -> [Users -> 0 .. MaxRows]]
            /\ born \in [Conversations -> [Users -> 0 .. MaxRows]]
        BY DEF TypeOK
      <3>2. /\ row' = [row EXCEPT ![conv[r]][target[r]] = born[conv[r]][target[r]] + 1]
            /\ born' = [born EXCEPT ![conv[r]][target[r]] = born[conv[r]][target[r]] + 1]
        BY <1>6 DEF AddCommit
      <3> QED
        BY ONLY <2>1, <2>2, <3>1, <3>2, NestedUpdate
    <2>4. pc' \in [Requests -> Steps] /\ todo' \in [Requests -> SUBSET Updates]
      BY <1>6, <2>1, AnnounceTypes DEF AddCommit
    <2> QED
      BY <1>6, <2>3, <2>4 DEF TypeOK, AddCommit, arguments, loaded
  <1>7. ASSUME NEW r \in Requests, RemoveLoad(r) PROVE TypeOK'
    <2>1. [admin |-> "removeCount", member |-> "remove"] \in [{"admin", "member"} -> Steps]
      BY DEF Steps
    <2> QED
      BY <1>7, <2>1, LoadTypes DEF RemoveLoad, TypeOK
  <1>8. ASSUME NEW r \in Requests, LeaveLoad(r) PROVE TypeOK'
    <2>1. [admin |-> "leaveCount", member |-> "leave"] \in [{"admin", "member"} -> Steps]
      BY DEF Steps
    <2> QED
      BY <1>8, <1>c, <2>1, LoadTypes DEF LeaveLoad
  <1>9. ASSUME NEW r \in Requests, RemoveCountAdmins(r) \/ LeaveCountAdmins(r) PROVE TypeOK'
    <2>1. "remove" \in Steps /\ "leave" \in Steps
      BY DEF Steps
    <2> QED
      BY <1>9, <2>1, CountTypes DEF RemoveCountAdmins, LeaveCountAdmins
  <1>10. ASSUME NEW r \in Requests, RemoveCommit(r) PROVE TypeOK'
    <2>1. {target[r]} \in SUBSET Users /\ conv'[r] \in Conversations
      BY <1>10 DEF TypeOK, RemoveCommit, Delete, arguments
    <2>2. Delete(r) /\ Announce(r, "participant_removed", {target[r]})
      BY <1>10 DEF RemoveCommit
    <2>3. pc' \in [Requests -> Steps] /\ todo' \in [Requests -> SUBSET Updates]
      BY <2>1, <2>2, AnnounceTypes
    <2> QED
      BY <2>2, <2>3, DeleteTypes DEF TypeOK, Delete, arguments, loaded
  <1>11. ASSUME NEW r \in Requests, LeaveCommit(r) PROVE TypeOK'
    <2>1. pc' \in [Requests -> Steps]
      BY <1>11 DEF TypeOK, LeaveCommit, Goto, Steps
    <2> QED
      BY <1>11, <2>1, DeleteTypes DEF TypeOK, LeaveCommit, Delete, arguments, loaded
  <1>12. ASSUME NEW r \in Requests, Notify(r) PROVE TypeOK'
    <2>1. PICK t \in todo[r] : /\ told' = {t}
                               /\ todo' = [todo EXCEPT ![r] = @ \ {t}]
                               /\ Goto(r, IF todo[r] = {t} THEN "done" ELSE "notify")
      BY <1>12 DEF Notify
    <2>2. told' \in SUBSET Updates /\ todo' \in [Requests -> SUBSET Updates]
      BY <2>1 DEF TypeOK
    <2>3. pc' \in [Requests -> Steps]
      BY <2>1 DEF TypeOK, Goto, Steps
    <2> QED
      BY <1>12, <2>2, <2>3 DEF TypeOK, Notify, database, arguments, loaded
  <1>13. ASSUME NEW r \in Requests, Fail(r) PROVE TypeOK'
    <2>1. pc' \in [Requests -> Steps] /\ todo' \in [Requests -> SUBSET Updates]
      BY <1>13 DEF TypeOK, Fail, Goto, Steps
    <2> QED
      BY <1>13, <2>1 DEF TypeOK, Fail, database, arguments, loaded
  <1>14. ASSUME Promote PROVE TypeOK'
    <2>1. promotions' \in 0 .. MaxPromotions
      BY <1>14, BoundsAssumption DEF TypeOK, Promote
    <2>2. admins' \in [Conversations -> SUBSET Users]
      <3>1. PICK c \in 1 .. created, u \in Users : admins' = [admins EXCEPT ![c] = @ \union {u}]
        BY <1>14 DEF Promote, Members
      <3> QED
        BY <3>1, <1>c DEF TypeOK
    <2> QED
      BY <1>14, <2>1, <2>2 DEF TypeOK, Promote, arguments, loaded
  <1>15. ASSUME UNCHANGED vars PROVE TypeOK'
    BY <1>15 DEF TypeOK, vars
  <1> QED
    BY <1>1, <1>2, <1>3, <1>4, <1>5, <1>6, <1>7, <1>8, <1>9, <1>10, <1>11, <1>12,
       <1>13, <1>14, <1>15 DEF Next, Direct, Add, Remove, Leave
------------------------------------------------------------------------------
(* What a request works on is what it saw, or is newer. *)

(* Nothing is there of a conversation that is yet to be created. *)
NothingUncreated ==
    \A c \in Conversations :
        c > created => /\ kind[c] = "none" /\ admins[c] = {}
                       /\ \A u \in Users : row[c][u] = 0 /\ born[c][u] = 0

(* Primary keys are given out in order. *)
BornFirst == \A c \in Conversations, u \in Users : row[c][u] <= born[c][u]

(* A request works on a conversation that exists, *)
KnowsConversation == \A r \in Requests : conv[r] <= created

(* an add on a group, *)
AddsToGroup ==
    \A r \in Requests :
        pc[r] \in {"addExists", "addCount", "add"} => kind[conv[r]] = "group"

(* a removal on a row that was there. *)
Removing == {"removeCount", "leaveCount", "remove", "leave"}

LoadedWasBorn ==
    \A r \in Requests :
        pc[r] \in Removing =>
            pk[r] # 0 /\ pk[r] <= born[conv[r]][target[r]]

Shape == /\ NothingUncreated
         /\ BornFirst
         /\ KnowsConversation
         /\ AddsToGroup
         /\ LoadedWasBorn

(* Whom to tell of what is decided on committed rows. *)
TodoIsCommitted ==
    \A r \in Requests : \A t \in todo[r] : born[t[2]][t[3]] > 0

LEMMA InitShape == Init => Shape /\ TodoIsCommitted /\ ToldOfCommitted
  <1> SUFFICES ASSUME Init PROVE Shape /\ TodoIsCommitted /\ ToldOfCommitted
    OBVIOUS
  <1>1. TypeOK
    BY InitTypes
  <1>2. NothingUncreated
    BY <1>1 DEF Init, NothingUncreated, Rows, TypeOK, Conversations
  <1>3. BornFirst
    BY <1>1 DEF Init, BornFirst, TypeOK
  <1>4. KnowsConversation /\ AddsToGroup /\ LoadedWasBorn
    BY DEF Init, KnowsConversation, AddsToGroup, LoadedWasBorn, Removing
  <1>5. TodoIsCommitted /\ ToldOfCommitted
    BY DEF Init, TodoIsCommitted, ToldOfCommitted
  <1> QED
    BY <1>2, <1>3, <1>4, <1>5 DEF Shape

(* The steps that leave the rows alone and only move one request. *)
Reads(r) == \/ CheckExisting(r) \/ AddCheckAdmin(r) \/ AddCheckMember(r)
            \/ AddCheckCap(r) \/ RemoveCheckAdmin(r) \/ RemoveLoad(r)
            \/ LeaveLoad(r) \/ RemoveCountAdmins(r) \/ LeaveCountAdmins(r)
            \/ Notify(r) \/ Fail(r)

LEMMA ReadsKeepDatabase ==
  ASSUME NEW r \in Requests, Reads(r)
  PROVE  UNCHANGED database
  BY DEF Reads, CheckExisting, AddCheckAdmin, AddCheckMember, AddCheckCap,
         RemoveCheckAdmin, RemoveLoad, LeaveLoad, RemoveCountAdmins,
         LeaveCountAdmins, Notify, Fail, Call, Load, CountAdmins, database

(* The ones of others do not touch a request. *)
OthersStay(r) ==
    \A q \in Requests \ {r} :
        /\ pc'[q] = pc[q] /\ conv'[q] = conv[q] /\ actor'[q] = actor[q]
        /\ target'[q] = target[q] /\ pk'[q] = pk[q] /\ rivals'[q] = rivals[q]
        /\ loadedRole'[q] = loadedRole[q] /\ todo'[q] = todo[q]

LEMMA OthersKeep ==
  ASSUME TypeOK, NEW r \in Requests,
         \/ Direct(r) \/ CreateGroup(r) \/ Add(r) \/ Remove(r) \/ Leave(r)
         \/ Notify(r) \/ Fail(r)
  PROVE  OthersStay(r)
  <1> USE DEF OthersStay, Goto, arguments, loaded
  <1>t. /\ pc \in [Requests -> Steps] /\ conv \in [Requests -> Conversations]
        /\ actor \in [Requests -> Users] /\ target \in [Requests -> Users]
        /\ pk \in [Requests -> 0 .. MaxRows]
        /\ loadedRole \in [Requests -> {"ADMIN", "MEMBER"}]
        /\ rivals \in [Requests -> SUBSET Users]
        /\ todo \in [Requests -> SUBSET Updates]
    BY DEF TypeOK
  <1>1. CASE CheckExisting(r)
    BY <1>1, <1>t DEF CheckExisting, Call
  <1>2. CASE CreateDirect(r)
    BY <1>2, <1>t DEF CreateDirect, Create, Announce
  <1>3. CASE CreateGroup(r)
    <2>1. PICK u \in Users, others \in SUBSET Users :
            /\ Create(r, "group", others \union {u}, {u})
            /\ Announce(r, "conversation_added", others)
      BY <1>3 DEF CreateGroup
    <2> QED
      BY <2>1, <1>t DEF Create, Announce
  <1>4. CASE AddCheckAdmin(r) \/ RemoveCheckAdmin(r)
    BY <1>4, <1>t DEF AddCheckAdmin, RemoveCheckAdmin, Call
  <1>5. CASE AddCheckMember(r) \/ AddCheckCap(r) \/ Fail(r)
    BY <1>5, <1>t DEF AddCheckMember, AddCheckCap, Fail
  <1>6. CASE AddCommit(r)
    BY <1>6, <1>t DEF AddCommit, Announce
  <1>7. CASE RemoveLoad(r) \/ LeaveLoad(r)
    BY <1>7, <1>t DEF RemoveLoad, LeaveLoad, Load
  <1>8. CASE RemoveCountAdmins(r) \/ LeaveCountAdmins(r)
    BY <1>8, <1>t DEF RemoveCountAdmins, LeaveCountAdmins, CountAdmins
  <1>9. CASE RemoveCommit(r) \/ LeaveCommit(r)
    BY <1>9, <1>t DEF RemoveCommit, LeaveCommit, Delete, Announce
  <1>10. CASE Notify(r)
    BY <1>10, <1>t DEF Notify
  <1> QED
    BY <1>1, <1>2, <1>3, <1>4, <1>5, <1>6, <1>7, <1>8, <1>9, <1>10
       DEF Direct, Add, Remove, Leave

(* the commit of a new conversation, and that of a deletion *)
Creates(r, k, U, A) ==
    /\ Create(r, k, U, A)
    /\ pc'[r] \in {"notify", "done"}
    /\ k = "group" => WithinCap(U) /\ \E u \in U : A = {u}
    /\ k = "direct" => A = {}

Deletes(r) == /\ Delete(r)
              /\ pc[r] \in {"remove", "leave"}
              /\ pc'[r] \in {"notify", "done"}

LEMMA StepKinds ==
  ASSUME TypeOK, Next
  PROVE  \/ Promote
         \/ \E r \in Requests :
              /\ OthersStay(r)
              /\ \/ Reads(r) /\ UNCHANGED database
                 \/ \E k \in {"group", "direct"}, U \in SUBSET Users, A \in SUBSET Users :
                      Creates(r, k, U, A)
                 \/ AddCommit(r)
                 \/ Deletes(r)
  <1>1. CASE Promote
    BY <1>1
  <1>2. ASSUME NEW r \in Requests,
               \/ Direct(r) \/ CreateGroup(r) \/ Add(r) \/ Remove(r) \/ Leave(r)
               \/ Notify(r) \/ Fail(r)
        PROVE  /\ OthersStay(r)
               /\ \/ Reads(r) /\ UNCHANGED database
                  \/ \E k \in {"group", "direct"}, U \in SUBSET Users, A \in SUBSET Users :
                       Creates(r, k, U, A)
                  \/ AddCommit(r)
                  \/ Deletes(r)
    <2>1. OthersStay(r)
      BY <1>2, OthersKeep
    <2>2. CASE Reads(r)
      BY <2>1, <2>2, ReadsKeepDatabase
    <2>3. CASE CreateDirect(r)
      <3>1. {actor[r], target[r]} \in SUBSET Users /\ {} \in SUBSET Users
        BY DEF TypeOK
      <3>2. Creates(r, "direct", {actor[r], target[r]}, {})
        BY <2>3 DEF TypeOK, CreateDirect, Creates, Announce, Goto
      <3> QED
        BY <2>1, <3>1, <3>2
    <2>4. CASE CreateGroup(r)
      <3>1. PICK u \in Users, others \in SUBSET Users :
              /\ WithinCap(others \union {u})
              /\ Create(r, "group", others \union {u}, {u})
              /\ Announce(r, "conversation_added", others)
        BY <2>4 DEF CreateGroup
      <3>2. others \union {u} \in SUBSET Users /\ {u} \in SUBSET Users
        OBVIOUS
      <3>3. Creates(r, "group", others \union {u}, {u})
        BY <3>1 DEF TypeOK, Creates, Announce, Goto
      <3> QED
        BY <2>1, <3>2, <3>3
    <2>5. CASE AddCommit(r)
      BY <2>1, <2>5
    <2>6. CASE RemoveCommit(r) \/ LeaveCommit(r)
      BY <2>1, <2>6 DEF Deletes, RemoveCommit, LeaveCommit, Announce, Goto, TypeOK
    <2> QED
      BY <1>2, <2>2, <2>3, <2>4, <2>5, <2>6 DEF Reads, Direct, Add, Remove, Leave
  <1> QED
    BY <1>1, <1>2 DEF Next

(* What the three kinds of commits do to the rows. *)
LEMMA CreateEffect ==
  ASSUME TypeOK, Shape, NEW r \in Requests, NEW k, NEW U \in SUBSET Users, NEW A,
         Create(r, k, U, A)
  PROVE  /\ created + 1 \in Conversations /\ created \in Nat
         /\ created' = created + 1 /\ conv'[r] = created + 1
         /\ kind'[created + 1] = k /\ admins'[created + 1] = A
         /\ \A u \in Users : /\ row'[created + 1][u] = IF u \in U THEN 1 ELSE 0
                             /\ born'[created + 1][u] = row'[created + 1][u]
                             /\ born[created + 1][u] = 0
         /\ \A c \in Conversations : c # created + 1 =>
              /\ kind'[c] = kind[c] /\ admins'[c] = admins[c]
              /\ row'[c] = row[c] /\ born'[c] = born[c]
  <1>1. created + 1 \in Conversations /\ created \in Nat
    BY BoundsAssumption DEF TypeOK, Create, Conversations
  <1>2. created' = created + 1 /\ conv'[r] = created + 1
    BY DEF TypeOK, Create
  <1>3. /\ kind'[created + 1] = k /\ admins'[created + 1] = A
        /\ row'[created + 1] = Rows(U) /\ born'[created + 1] = Rows(U)
    BY <1>1 DEF TypeOK, Create
  <1>4. \A u \in Users : Rows(U)[u] = IF u \in U THEN 1 ELSE 0
    BY DEF Rows
  <1>5. \A u \in Users : born[created + 1][u] = 0
    BY <1>1 DEF Shape, NothingUncreated
  <1>6. \A c \in Conversations : c # created + 1 =>
          /\ kind'[c] = kind[c] /\ admins'[c] = admins[c]
          /\ row'[c] = row[c] /\ born'[c] = born[c]
    BY <1>1 DEF TypeOK, Create
  <1> QED
    BY <1>1, <1>2, <1>3, <1>4, <1>5, <1>6

LEMMA AddEffect ==
  ASSUME TypeOK, NEW r \in Requests, AddCommit(r)
  PROVE  \A c \in Conversations, u \in Users :
           IF c = conv[r] /\ u = target[r]
             THEN /\ row[c][u] = 0 /\ row'[c][u] = born[c][u] + 1
                  /\ born'[c][u] = born[c][u] + 1
             ELSE row'[c][u] = row[c][u] /\ born'[c][u] = born[c][u]
  <1> DEFINE d == conv[r]
             v == target[r]
  <1>1. d \in Conversations /\ v \in Users /\ row[d][v] = 0
    BY DEF TypeOK, AddCommit
  <1>2. /\ row \in [Conversations -> [Users -> 0 .. MaxRows]]
        /\ born \in [Conversations -> [Users -> 0 .. MaxRows]]
        /\ born[d][v] + 1 \in 0 .. MaxRows
    BY <1>1, BoundsAssumption DEF TypeOK, AddCommit
  <1>3. /\ row' = [row EXCEPT ![d][v] = born[d][v] + 1]
        /\ born' = [born EXCEPT ![d][v] = born[d][v] + 1]
    BY DEF AddCommit
  <1>4. d = conv[r] /\ v = target[r]
    OBVIOUS
  <1> HIDE DEF d, v
  <1>5. \A c \in Conversations, u \in Users :
          /\ row'[c][u] = IF c = d /\ u = v THEN born[d][v] + 1 ELSE row[c][u]
          /\ born'[c][u] = IF c = d /\ u = v THEN born[d][v] + 1 ELSE born[c][u]
    BY ONLY <1>1, <1>2, <1>3, NestedUpdate
  <1> QED
    BY ONLY <1>1, <1>4, <1>5

LEMMA DeleteEffect ==
  ASSUME TypeOK, NEW r \in Requests, Delete(r)
  PROVE  \A c \in Conversations, u \in Users :
           IF c = conv[r] /\ u = target[r] /\ row[c][u] = pk[r]
             THEN row'[c][u] = 0 /\ admins'[c] = admins[c] \ {u}
             ELSE row'[c][u] = row[c][u] /\ (u \in admins'[c] <=> u \in admins[c])
  <1> DEFINE d == conv[r]
             v == target[r]
  <1>1. /\ d \in Conversations /\ v \in Users
        /\ row \in [Conversations -> [Users -> 0 .. MaxRows]]
        /\ admins \in [Conversations -> SUBSET Users]
        /\ 0 \in 0 .. MaxRows
    BY BoundsAssumption DEF TypeOK
  <1>2. CASE row[d][v] = pk[r]
    <2>1. row' = [row EXCEPT ![d][v] = 0] /\ admins' = [admins EXCEPT ![d] = @ \ {v}]
      BY <1>2 DEF Delete, Matches
    <2>2. d = conv[r] /\ v = target[r]
      OBVIOUS
    <2> HIDE DEF d, v
    <2>3. \A c \in Conversations, u \in Users :
            row'[c][u] = IF c = d /\ u = v THEN 0 ELSE row[c][u]
      BY ONLY <1>1, <2>1, NestedUpdate
    <2>4. \A c \in Conversations :
            admins'[c] = IF c = d THEN admins[c] \ {v} ELSE admins[c]
      BY ONLY <1>1, <2>1
    <2> QED
      BY ONLY <1>2, <2>2, <2>3, <2>4
  <1>3. CASE row[d][v] # pk[r]
    BY <1>1, <1>3 DEF Delete, Matches
  <1> QED
    BY <1>2, <1>3

(* A new conversation keeps the shape, and its rows may be announced. *)
LEMMA CreateShape ==
  ASSUME TypeOK, Shape, NEW r \in Requests, NEW k \in {"group", "direct"},
         NEW U \in SUBSET Users, NEW A \in SUBSET Users, Create(r, k, U, A),
         OthersStay(r), pc'[r] \in {"notify", "done"}
  PROVE  Shape' /\ \A c \in Conversations, u \in Users : born'[c][u] >= born[c][u]
  <1> DEFINE d == created + 1
  <1>1. d \in Conversations /\ created \in Nat /\ created' = d
    BY CreateEffect
  <1>2. \A c \in Conversations : c # d =>
          /\ kind'[c] = kind[c] /\ admins'[c] = admins[c]
          /\ row'[c] = row[c] /\ born'[c] = born[c]
    BY CreateEffect
  <1>3. \A u \in Users : /\ born[d][u] = 0 /\ row'[d][u] \in 0 .. 1
                         /\ born'[d][u] = row'[d][u]
    <2>1. \A u \in Users : /\ row'[d][u] = IF u \in U THEN 1 ELSE 0
                           /\ born'[d][u] = row'[d][u] /\ born[d][u] = 0
      BY CreateEffect
    <2> QED
      BY <2>1
  <1>4. NothingUncreated'
    BY <1>1, <1>2 DEF Shape, NothingUncreated, Conversations
  <1>5. BornFirst'
    BY <1>2, <1>3 DEF Shape, BornFirst
  <1>6. /\ conv'[r] = d /\ d > created
        /\ \A q \in Requests \ {r} : conv'[q] = conv[q] /\ conv[q] <= created
                                     /\ conv[q] \in Conversations
    BY <1>1 DEF TypeOK, Create, OthersStay, Shape, KnowsConversation
  <1>7. KnowsConversation'
    BY <1>1, <1>6 DEF KnowsConversation, Conversations
  <1>8. AddsToGroup'
    BY <1>1, <1>2, <1>6 DEF AddsToGroup, OthersStay, Shape
  <1>9. LoadedWasBorn'
    BY <1>1, <1>2, <1>6 DEF LoadedWasBorn, Removing, OthersStay, Shape
  <1>10. \A c \in Conversations, u \in Users : born'[c][u] >= born[c][u]
    <2>1. \A c \in Conversations, u \in Users : born[c][u] \in Nat
      BY DEF TypeOK
    <2> QED
      BY <1>2, <1>3, <2>1
  <1> QED
    BY <1>4, <1>5, <1>7, <1>8, <1>9, <1>10 DEF Shape

LEMMA NextShape == TypeOK /\ Shape /\ [Next]_vars => Shape'
  <1> SUFFICES ASSUME TypeOK, Shape, [Next]_vars PROVE Shape'
    OBVIOUS
  <1> USE DEF Shape
  <1>t. TypeOK' /\ created \in Nat
    <2>1. created \in Nat
      BY BoundsAssumption DEF TypeOK, Conversations
    <2> QED
      BY <2>1, NextTypes
  <1>n. \A c \in Conversations, u \in Users :
          /\ row[c][u] \in Nat /\ row'[c][u] \in Nat
          /\ born[c][u] \in Nat /\ born'[c][u] \in Nat
    BY <1>t DEF TypeOK
  <1>1. ASSUME NEW r \in Requests, OthersStay(r), Reads(r), UNCHANGED database
        PROVE  Shape'
    <2>1. UNCHANGED database /\ OthersStay(r)
      BY <1>1
    <2>2. NothingUncreated' /\ BornFirst'
      BY <2>1 DEF NothingUncreated, BornFirst, database
    <2>3. conv'[r] <= created
      BY <1>1, <1>t DEF Reads, CheckExisting, AddCheckAdmin, AddCheckMember, AddCheckCap,
           RemoveCheckAdmin, RemoveLoad, LeaveLoad, RemoveCountAdmins,
           LeaveCountAdmins, Notify, Fail, Call, Load, CountAdmins,
           KnowsConversation, TypeOK, arguments
    <2>4. pc'[r] \in {"addExists", "addCount", "add"} => kind[conv'[r]] = "group"
      BY <1>1, <1>t DEF Reads, CheckExisting, AddCheckAdmin, AddCheckMember, AddCheckCap,
           RemoveCheckAdmin, RemoveLoad, LeaveLoad, RemoveCountAdmins,
           LeaveCountAdmins, Notify, Fail, Call, Load, CountAdmins, Goto,
           AddsToGroup, TypeOK, arguments
    <2>5. pc'[r] \in Removing => pk'[r] # 0 /\ pk'[r] <= born[conv'[r]][target'[r]]
      <3>1. CASE RemoveLoad(r)
        <4>1. conv[r] \in Conversations /\ target[r] \in Users
          BY DEF TypeOK
        <4> QED
          BY <3>1, <4>1, <1>n DEF RemoveLoad, Load, BornFirst, TypeOK
      <3>2. CASE LeaveLoad(r)
        <4>1. PICK c \in 1 .. created, u \in Users :
                Load(r, c, u, [admin |-> "leaveCount", member |-> "leave"])
          BY <3>2 DEF LeaveLoad
        <4>2. c \in Conversations
          BY BoundsAssumption DEF TypeOK, Conversations
        <4> QED
          BY <4>1, <4>2, <1>n DEF Load, BornFirst, TypeOK
      <3>3. CASE RemoveCountAdmins(r) \/ LeaveCountAdmins(r)
        BY <3>3 DEF RemoveCountAdmins, LeaveCountAdmins, CountAdmins, LoadedWasBorn,
             Removing, TypeOK, arguments
      <3>4. CASE ~(\/ RemoveLoad(r) \/ LeaveLoad(r) \/ RemoveCountAdmins(r)
                   \/ LeaveCountAdmins(r))
        BY <1>1, <3>4 DEF Reads, CheckExisting, AddCheckAdmin, AddCheckMember,
             AddCheckCap, RemoveCheckAdmin, Notify, Fail, Call, Goto, Removing, TypeOK
      <3> QED
        BY <3>1, <3>2, <3>3, <3>4
    <2>6. KnowsConversation' /\ AddsToGroup' /\ LoadedWasBorn'
      BY <2>1, <2>3, <2>4, <2>5 DEF database, OthersStay, KnowsConversation, AddsToGroup,
           LoadedWasBorn
    <2> QED
      BY <2>2, <2>6
  <1>3. ASSUME NEW r \in Requests, OthersStay(r), NEW k \in {"group", "direct"},
               NEW U \in SUBSET Users, NEW A \in SUBSET Users, Creates(r, k, U, A)
        PROVE  Shape'
    BY <1>3, CreateShape DEF Creates
  <1>4. ASSUME NEW r \in Requests, OthersStay(r), AddCommit(r) PROVE Shape'
    <2> DEFINE c == conv[r]
               u == target[r]
    <2>1. c \in Conversations /\ u \in Users /\ c <= created
      BY DEF TypeOK, KnowsConversation
    <2>2. /\ UNCHANGED <<created, kind, admins, conv, target, pk>>
          /\ pc'[r] \in {"notify", "done"}
      BY <1>4 DEF AddCommit, Announce, Goto, arguments, loaded, TypeOK
    <2>3. \A d \in Conversations, v \in Users :
            /\ row'[d][v] = IF d = c /\ v = u THEN born[c][u] + 1 ELSE row[d][v]
            /\ born'[d][v] = IF d = c /\ v = u THEN born[c][u] + 1 ELSE born[d][v]
      BY <1>4, AddEffect
    <2>4. \A d \in Conversations, v \in Users : born[d][v] \in Nat /\ born'[d][v] >= born[d][v]
      BY <2>1, <2>3, <1>n
    <2>5. NothingUncreated' /\ BornFirst' /\ KnowsConversation'
      <3>1. NothingUncreated'
        BY <1>t, <2>1, <2>2, <2>3 DEF NothingUncreated, Conversations
      <3>2. BornFirst'
        BY <1>n, <2>1, <2>3 DEF BornFirst
      <3>3. KnowsConversation'
        BY <2>2 DEF KnowsConversation
      <3> QED
        BY <3>1, <3>2, <3>3
    <2>6. AddsToGroup'
      BY <1>4, <2>1, <2>2 DEF AddsToGroup, OthersStay
    <2>7. LoadedWasBorn'
      <3>1. ASSUME NEW q \in Requests, pc'[q] \in Removing
            PROVE  pk'[q] # 0 /\ pk'[q] <= born'[conv'[q]][target'[q]]
        <4>1. q # r /\ pc[q] \in Removing
          BY <1>4, <2>1, <2>2, <3>1 DEF OthersStay, Removing
        <4>2. /\ pk[q] # 0 /\ pk[q] <= born[conv[q]][target[q]]
              /\ conv[q] \in Conversations /\ target[q] \in Users /\ pk[q] \in Nat
          BY <4>1 DEF LoadedWasBorn, TypeOK
        <4>3. /\ born[conv[q]][target[q]] \in Nat
              /\ born'[conv[q]][target[q]] \in Nat
              /\ born'[conv[q]][target[q]] >= born[conv[q]][target[q]]
          BY ONLY <2>4, <4>2, <1>n
        <4>4. pk'[q] = pk[q] /\ conv'[q] = conv[q] /\ target'[q] = target[q]
          BY <2>2
        <4> QED
          BY ONLY <4>2, <4>3, <4>4
      <3> QED
        BY <3>1 DEF LoadedWasBorn
    <2> QED
      BY <2>5, <2>6, <2>7
  <1>5. ASSUME NEW r \in Requests, OthersStay(r), Deletes(r) PROVE Shape'
    <2>1. OthersStay(r) /\ Delete(r) /\ pc'[r] \in {"notify", "done"}
      BY <1>5 DEF Deletes
    <2>2. UNCHANGED <<created, kind, born, conv, target, pk>>
      BY <2>1 DEF Delete, arguments, loaded
    <2>3. conv[r] \in Conversations /\ target[r] \in Users /\ conv[r] <= created
      BY DEF TypeOK, KnowsConversation
    <2>4. \A d \in Conversations :
            /\ admins'[d] \subseteq admins[d]
            /\ \A v \in Users : row'[d][v] \in {0, row[d][v]}
      <3>1. /\ \A d \in Conversations : admins[d] \subseteq Users /\ admins'[d] \subseteq Users
            /\ Users # {}
        BY <1>t, <2>3 DEF TypeOK
      <3> QED
        BY <2>1, <3>1, DeleteEffect
    <2>5. NothingUncreated'
      BY <2>2, <2>4 DEF NothingUncreated
    <2>6. BornFirst'
      BY <2>2, <2>4, <1>n DEF BornFirst
    <2>7. KnowsConversation' /\ AddsToGroup' /\ LoadedWasBorn'
      BY <2>1, <2>2 DEF KnowsConversation, AddsToGroup, LoadedWasBorn, Removing, OthersStay
    <2> QED
      BY <2>5, <2>6, <2>7
  <1>6. ASSUME Promote PROVE Shape'
    <2>1. UNCHANGED <<created, kind, row, born, pc, conv, target, pk>>
      BY <1>6 DEF Promote, arguments, loaded
    <2>2. \A d \in Conversations : d > created => admins'[d] = admins[d]
      BY <1>6, <1>t DEF Promote, TypeOK
    <2> QED
      BY <2>1, <2>2 DEF NothingUncreated, BornFirst, KnowsConversation, AddsToGroup, LoadedWasBorn
  <1>7. CASE UNCHANGED vars
    BY <1>7 DEF vars, database, arguments, loaded, NothingUncreated, BornFirst,
         KnowsConversation, AddsToGroup, LoadedWasBorn
  <1> QED
    BY <1>1, <1>3, <1>4, <1>5, <1>6, <1>7, StepKinds

LEMMA ShapeCorrect == Spec => [](TypeOK /\ Shape)
  <1> QED
    BY InitTypes, NextTypes, InitShape, NextShape, PTL DEF Spec

(* The type invariant of Membership. *)
THEOREM TypeCorrect == Spec => []TypeOK
  <1> QED
    BY InitTypes, NextTypes, PTL DEF Spec
------------------------------------------------------------------------------
(* A row is only deleted by a removal, or a leave, that loaded it: a user  *)
(* who was removed and added again is spared by the one that was overtaken *)
(* (remove_participant, leave_conversation).                               *)
THEOREM NewRowsAreSpared == Spec => RemovalSparesNewRow
  <1> DEFINE Spares ==
        \A c \in 1 .. created, u \in Users :
          (row[c][u] # 0 /\ row'[c][u] = 0) =>
            \E r \in Requests :
                /\ pc[r] \in {"remove", "leave"} /\ pc'[r] # pc[r]
                /\ <<conv[r], target[r], pk[r]>> = <<c, u, row[c][u]>>
  <1>1. ASSUME TypeOK, Shape, [Next]_vars PROVE [Spares]_vars
    <2> SUFFICES ASSUME Next, NEW c \in 1 .. created, NEW u \in Users,
                        row[c][u] # 0, row'[c][u] = 0
                 PROVE  \E r \in Requests :
                          /\ pc[r] \in {"remove", "leave"} /\ pc'[r] # pc[r]
                          /\ <<conv[r], target[r], pk[r]>> = <<c, u, row[c][u]>>
      BY <1>1
    <2>1. c \in Conversations /\ c # created + 1 /\ born[c][u] \in Nat
      BY <1>1, BoundsAssumption DEF TypeOK, Conversations
    <2>2. ~Promote
      BY DEF Promote
    <2>3. PICK r \in Requests :
            \/ Reads(r) /\ UNCHANGED database
            \/ \E k \in {"group", "direct"}, U \in SUBSET Users, A \in SUBSET Users :
                 Creates(r, k, U, A)
            \/ AddCommit(r)
            \/ Deletes(r)
      BY <1>1, <2>2, StepKinds
    <2>4. Deletes(r)
      <3>1. ~(UNCHANGED database)
        BY DEF database
      <3>2. ~(\E k \in {"group", "direct"}, U \in SUBSET Users, A \in SUBSET Users :
                Creates(r, k, U, A))
        BY <1>1, <2>1, CreateEffect DEF Creates
      <3>3. ~AddCommit(r)
        BY <1>1, <2>1, AddEffect
      <3> QED
        BY <2>3, <3>1, <3>2, <3>3
    <2>5. c = conv[r] /\ u = target[r] /\ row[c][u] = pk[r]
      BY <1>1, <2>1, <2>4, DeleteEffect DEF Deletes
    <2> QED
      BY <2>4, <2>5 DEF Deletes
  <1> QED
    BY <1>1, ShapeCorrect, PTL DEF Spec, RemovalSparesNewRow

(* A direct conversation is only duplicated by a race: what a pair shares  *)
(* when create_direct_conversation creates one was created since it looked. *)
THEOREM DuplicatesNeedARace == Spec => []DuplicateDirectOnlyByRace
  <1>1. Init => DuplicateDirectOnlyByRace
    BY DEF Init, DuplicateDirectOnlyByRace
  <1>2. TypeOK /\ Shape /\ DuplicateDirectOnlyByRace /\ [Next]_vars
          => DuplicateDirectOnlyByRace'
    <2> SUFFICES ASSUME TypeOK, Shape, DuplicateDirectOnlyByRace, Next,
                        NEW q \in Requests, pc'[q] = "createDirect",
                        NEW c \in SharedBy(actor[q], target[q])'
                 PROVE  c > conv'[q]
      BY DEF DuplicateDirectOnlyByRace, vars, SharedBy, Members
    <2>t. /\ TypeOK' /\ created \in Nat /\ conv[q] \in Nat /\ conv[q] <= created
          /\ created' \in Nat
      <3>1. TypeOK'
        BY NextTypes
      <3>2. Conversations \subseteq Nat
        BY DEF Conversations
      <3>3. created \in Conversations /\ conv[q] \in Conversations
        BY DEF TypeOK
      <3>4. created' \in Conversations
        BY <3>1 DEF TypeOK
      <3>5. conv[q] <= created
        BY DEF Shape, KnowsConversation
      <3> QED
        BY ONLY <3>1, <3>2, <3>3, <3>4, <3>5
    <2>c. /\ c \in 1 .. created' /\ c \in Conversations /\ kind'[c] = "direct"
          /\ actor'[q] \in Users /\ target'[q] \in Users
          /\ row'[c][actor'[q]] # 0 /\ row'[c][target'[q]] # 0
      <3>1. c \in 1 .. created' /\ kind'[c] = "direct"
        BY DEF SharedBy
      <3>2. created' \in Conversations /\ actor'[q] \in Users /\ target'[q] \in Users
        BY <2>t DEF TypeOK
      <3>3. c \in Conversations
        BY <3>1, <3>2, BoundsAssumption DEF Conversations
      <3>4. row'[c][actor'[q]] # 0 /\ row'[c][target'[q]] # 0
        BY DEF SharedBy, Members
      <3> QED
        BY <3>1, <3>2, <3>3, <3>4
    (* a request that looked earlier, and a conversation that was there *)
    <2>1. ASSUME pc[q] = "createDirect", UNCHANGED <<conv[q], actor[q], target[q]>>,
                 c <= created, kind[c] = "direct",
                 row[c][actor[q]] # 0, row[c][target[q]] # 0
          PROVE  c > conv'[q]
      BY <2>1, <2>c, <2>t DEF DuplicateDirectOnlyByRace, SharedBy, Members
    <2>2. CASE Promote
      BY <2>1, <2>2, <2>c DEF Promote, arguments
    <2>3. ASSUME NEW r \in Requests, OthersStay(r), Reads(r), UNCHANGED database
          PROVE  c > conv'[q]
      <3>1. CASE q # r
        BY <2>1, <2>3, <2>c, <3>1 DEF OthersStay, database
      <3>2. CASE q = r
        <4>1. CheckExisting(r)
          BY <2>3, <3>2 DEF Reads, CheckExisting, AddCheckAdmin, AddCheckMember,
               AddCheckCap, RemoveCheckAdmin, RemoveLoad, LeaveLoad,
               RemoveCountAdmins, LeaveCountAdmins, Notify, Fail, Call, Load,
               CountAdmins, Goto, TypeOK
        <4>2. SharedBy(actor'[q], target'[q]) = {}
          BY <4>1, <3>2 DEF CheckExisting, Call, TypeOK
        <4> QED
          BY <2>3, <2>c, <4>2 DEF SharedBy, Members, database
      <3> QED
        BY <3>1, <3>2
    <2>4. ASSUME NEW r \in Requests, OthersStay(r), NEW k \in {"group", "direct"},
                 NEW U \in SUBSET Users, NEW A \in SUBSET Users, Creates(r, k, U, A)
          PROVE  c > conv'[q]
      <3>1. q # r
        BY <2>4 DEF Creates
      <3>2. CASE c = created + 1
        BY <2>4, <2>t, <3>1, <3>2 DEF OthersStay
      <3>3. CASE c # created + 1
        <4>1. kind'[c] = kind[c] /\ row'[c] = row[c] /\ created' = created + 1
          BY <2>4, <2>c, <3>3, CreateEffect DEF Creates
        <4> QED
          BY <2>1, <2>4, <2>c, <2>t, <3>1, <3>3, <4>1 DEF OthersStay
      <3> QED
        BY <3>2, <3>3
    <2>5. ASSUME NEW r \in Requests, OthersStay(r), AddCommit(r)
          PROVE  c > conv'[q]
      <3>1. q # r /\ UNCHANGED <<created, kind>>
        BY <2>5 DEF AddCommit, Announce, Goto, TypeOK
      <3>2. c # conv[r]
        BY <2>5, <2>c, <3>1 DEF AddCommit, Shape, AddsToGroup
      <3>3. \A u \in Users : row'[c][u] = row[c][u]
        BY <2>5, <2>c, <3>2, AddEffect
      <3> QED
        BY <2>1, <2>5, <2>c, <3>1, <3>3 DEF OthersStay
    <2>6. ASSUME NEW r \in Requests, OthersStay(r), Deletes(r)
          PROVE  c > conv'[q]
      <3>1. q # r /\ UNCHANGED <<created, kind>>
        BY <2>6 DEF Deletes, Delete
      <3>2. \A u \in Users : row'[c][u] # 0 => row[c][u] # 0
        BY <2>6, <2>c, DeleteEffect DEF Deletes
      <3> QED
        BY <2>1, <2>6, <2>c, <3>1, <3>2 DEF OthersStay
    <2> QED
      BY <2>2, <2>3, <2>4, <2>5, <2>6, StepKinds
  <1> QED
    BY <1>1, <1>2, ShapeCorrect, PTL DEF Spec
------------------------------------------------------------------------------
(* Nobody is told of a conversation or a membership that was never         *)
(* committed (transaction.on_commit).                                      *)
LEMMA BornGrows ==
  ASSUME TypeOK, Shape, Next
  PROVE  \A c \in Conversations, u \in Users :
           born[c][u] \in Nat /\ born'[c][u] \in Nat /\ born'[c][u] >= born[c][u]
  <1>t. \A c \in Conversations, u \in Users : born[c][u] \in Nat /\ born'[c][u] \in Nat
    BY NextTypes DEF TypeOK
  <1>1. CASE UNCHANGED born
    BY <1>1, <1>t
  <1>2. CASE \E r \in Requests : OthersStay(r) /\
               \E k \in {"group", "direct"}, U \in SUBSET Users, A \in SUBSET Users :
                 Creates(r, k, U, A)
    <2>1. PICK r \in Requests, k \in {"group", "direct"}, U \in SUBSET Users,
               A \in SUBSET Users : OthersStay(r) /\ Creates(r, k, U, A)
      BY <1>2
    <2>2. Create(r, k, U, A) /\ pc'[r] \in {"notify", "done"}
      BY <2>1 DEF Creates
    <2> QED
      BY <1>t, <2>1, <2>2, CreateShape
  <1>3. CASE \E r \in Requests : AddCommit(r)
    <2>1. PICK r \in Requests : AddCommit(r)
      BY <1>3
    <2>2. \A c \in Conversations, u \in Users :
            born'[c][u] = born[c][u] + 1 \/ born'[c][u] = born[c][u]
      BY <2>1, AddEffect
    <2> QED
      BY ONLY <1>t, <2>2
  <1> QED
    BY <1>1, <1>2, <1>3, StepKinds DEF Promote, Deletes, Delete, database

THEOREM OnlyCommitsAreTold == Spec => []ToldOfCommitted
  <1> DEFINE Inv == TodoIsCommitted /\ ToldOfCommitted
  <1>1. Init => Inv
    BY InitShape
  <1>2. TypeOK /\ Shape /\ Inv /\ [Next]_vars => Inv'
    <2> SUFFICES ASSUME TypeOK, Shape, Inv, [Next]_vars PROVE Inv'
      OBVIOUS
    <2>1. CASE UNCHANGED vars
      BY <2>1 DEF vars, loaded, TodoIsCommitted, ToldOfCommitted
    <2>2. CASE Next
      <3>n. \A c \in Conversations, u \in Users : born[c][u] > 0 => born'[c][u] > 0
        BY <2>2, BornGrows
      <3>t. /\ \A q \in Requests : \A t \in todo[q] :
                 t[2] \in Conversations /\ t[3] \in Users
            /\ \A t \in told : t[2] \in Conversations /\ t[3] \in Users
        BY DEF TypeOK, Updates
      (* what was promised or sent before stays committed, *)
      <3>1. /\ \A q \in Requests : \A t \in todo[q] : born'[t[2]][t[3]] > 0
            /\ \A t \in told : born'[t[2]][t[3]] > 0
        BY <3>n, <3>t DEF TodoIsCommitted, ToldOfCommitted
      <3>2. SUFFICES \/ UNCHANGED <<todo, told>>
                     \/ \E r \in Requests :
                          /\ \A q \in Requests \ {r} : todo'[q] = todo[q]
                          /\ \A t \in todo'[r] : t \in todo[r] \/ born'[t[2]][t[3]] > 0
                          /\ told' \subseteq told \union todo[r]
        BY <3>1 DEF TodoIsCommitted, ToldOfCommitted
      <3>3. CASE Promote
        BY <3>3 DEF Promote
      <3>4. ASSUME NEW r \in Requests,
                   \/ Direct(r) \/ CreateGroup(r) \/ Add(r) \/ Remove(r) \/ Leave(r)
                   \/ Notify(r) \/ Fail(r)
            PROVE  /\ \A q \in Requests \ {r} : todo'[q] = todo[q]
                   /\ \A t \in todo'[r] : t \in todo[r] \/ born'[t[2]][t[3]] > 0
                   /\ told' \subseteq told \union todo[r]
        <4>1. \A q \in Requests \ {r} : todo'[q] = todo[q]
          BY <3>4, OthersKeep DEF OthersStay
        <4>2. CASE \/ CheckExisting(r) \/ AddCheckAdmin(r) \/ AddCheckMember(r)
                   \/ AddCheckCap(r) \/ RemoveCheckAdmin(r) \/ RemoveLoad(r)
                   \/ LeaveLoad(r) \/ RemoveCountAdmins(r) \/ LeaveCountAdmins(r)
                   \/ LeaveCommit(r)
          BY <4>1, <4>2 DEF CheckExisting, AddCheckAdmin, AddCheckMember, AddCheckCap,
               RemoveCheckAdmin, RemoveLoad, LeaveLoad, RemoveCountAdmins,
               LeaveCountAdmins, LeaveCommit, Call, Load, CountAdmins, Delete
        (* and an announcement names rows that are committed with it *)
        <4>3. ASSUME NEW action, NEW U \in SUBSET Users, Announce(r, action, U),
                     UNCHANGED told,
                     \A u \in U : born'[conv'[r]][u] > 0
              PROVE  /\ \A t \in todo'[r] : t \in todo[r] \/ born'[t[2]][t[3]] > 0
                     /\ told' \subseteq told \union todo[r]
          BY <4>3 DEF Announce, TypeOK
        <4>4. CASE CreateDirect(r)
          <5>1. /\ Create(r, "direct", {actor[r], target[r]}, {})
                /\ Announce(r, "conversation_added", {target[r]})
                /\ {actor[r], target[r]} \in SUBSET Users /\ target[r] \in Users
            BY <4>4 DEF CreateDirect, TypeOK
          <5>2. conv'[r] = created + 1 /\ born'[created + 1][target[r]] = 1
            <6>1. \A U \in SUBSET Users : Create(r, "direct", U, {}) =>
                    /\ conv'[r] = created + 1
                    /\ \A u \in U : born'[created + 1][u] = 1
              <7> TAKE U \in SUBSET Users
              <7> HAVE Create(r, "direct", U, {})
              <7>1. /\ conv'[r] = created + 1
                    /\ \A u \in Users :
                         /\ row'[created + 1][u] = IF u \in U THEN 1 ELSE 0
                         /\ born'[created + 1][u] = row'[created + 1][u]
                BY CreateEffect
              <7> QED
                BY <7>1
            <6> QED
              BY <5>1, <6>1
          <5>3. UNCHANGED told
            BY <5>1 DEF Create
          <5>4. \A u \in {target[r]} : born'[conv'[r]][u] > 0
            BY <5>2
          <5>5. {target[r]} \in SUBSET Users
            BY <5>1
          <5> QED
            BY <4>1, <4>3, <5>1, <5>3, <5>4, <5>5
        <4>5. CASE CreateGroup(r)
          <5>1. PICK u \in Users, others \in SUBSET Users :
                  /\ Create(r, "group", others \union {u}, {u})
                  /\ Announce(r, "conversation_added", others)
            BY <4>5 DEF CreateGroup
          <5>2. others \union {u} \in SUBSET Users
            BY <5>1
          <5>3. /\ conv'[r] = created + 1
                /\ \A v \in others : born'[created + 1][v] = 1
            BY <5>1, <5>2, CreateEffect
          <5>4. \A v \in others : born'[conv'[r]][v] > 0
            BY <5>3
          <5> QED
            BY <4>1, <4>3, <5>1, <5>4 DEF Create
        <4>6. CASE AddCommit(r)
          <5>1. /\ Announce(r, "participant_added", {target[r]})
                /\ UNCHANGED <<conv, told>>
                /\ conv[r] \in Conversations /\ target[r] \in Users
            BY <4>6 DEF AddCommit, arguments, TypeOK
          <5>2. born'[conv[r]][target[r]] = born[conv[r]][target[r]] + 1
            BY <4>6, <5>1, AddEffect
          <5>3. born[conv[r]][target[r]] \in Nat
            BY <5>1 DEF TypeOK
          <5> QED
            BY <4>1, <4>3, <5>1, <5>2, <5>3
        <4>7. CASE RemoveCommit(r)
          <5>1. /\ Announce(r, "participant_removed", {target[r]})
                /\ UNCHANGED <<conv, told, born>> /\ pc[r] \in Removing
                /\ conv[r] \in Conversations /\ target[r] \in Users
            BY <4>7 DEF RemoveCommit, Delete, arguments, Removing, TypeOK
          <5>2. /\ pk[r] # 0 /\ pk[r] <= born[conv[r]][target[r]]
                /\ pk[r] \in Nat /\ born[conv[r]][target[r]] \in Nat
            BY <5>1 DEF Shape, LoadedWasBorn, TypeOK
          <5> QED
            BY <4>1, <4>3, <5>1, <5>2
        <4>8. CASE Notify(r) \/ Fail(r)
          BY <4>1, <4>8 DEF Notify, Fail, TypeOK
        <4> QED
          BY <3>4, <4>1, <4>2, <4>4, <4>5, <4>6, <4>7, <4>8
             DEF Direct, Add, Remove, Leave
      <3> QED
        BY <2>2, <3>3, <3>4 DEF Next
    <2> QED
      BY <2>1, <2>2
  <1> QED
    BY <1>1, <1>2, ShapeCorrect, PTL DEF Spec
------------------------------------------------------------------------------
(* A request that is about to delete counted other admins, or loaded a row *)
(* that was not an admin's (the guards of remove_participant and           *)
(* leave_conversation).                                                    *)
CountedOrMember ==
    \A r \in Requests :
        pc[r] \in {"remove", "leave"} => rivals[r] # {} \/ loadedRole[r] = "MEMBER"

(* A group loses its last admin only to a deletion that counted another    *)
(* admin who is gone by now, or loaded the row before its promotion.       *)
THEOREM LastAdminNeedsARace == Spec => LastAdminLostOnlyByRace
  <1>1. Init => CountedOrMember
    BY DEF Init, CountedOrMember
  <1>2. TypeOK /\ Shape /\ CountedOrMember /\ [Next]_vars => CountedOrMember'
    <2> SUFFICES ASSUME TypeOK, CountedOrMember, Next PROVE CountedOrMember'
      BY DEF vars, loaded, CountedOrMember
    <2>1. CASE Promote
      BY <2>1 DEF Promote, loaded, CountedOrMember
    <2>2. ASSUME NEW r \in Requests, OthersStay(r),
                 pc'[r] \in {"remove", "leave"} =>
                   rivals'[r] # {} \/ loadedRole'[r] = "MEMBER"
          PROVE  CountedOrMember'
      BY <2>2 DEF OthersStay, CountedOrMember
    <2>3. ASSUME NEW r \in Requests, OthersStay(r), Reads(r) PROVE CountedOrMember'
      <3>1. CASE RemoveLoad(r) \/ LeaveLoad(r)
        BY <2>2, <2>3, <3>1 DEF RemoveLoad, LeaveLoad, Load, Goto, TypeOK
      <3>2. CASE RemoveCountAdmins(r) \/ LeaveCountAdmins(r)
        BY <2>2, <2>3, <3>2 DEF RemoveCountAdmins, LeaveCountAdmins, CountAdmins,
             LeavesNoAdmin, TypeOK
      <3>3. CASE \/ CheckExisting(r) \/ AddCheckAdmin(r) \/ AddCheckMember(r)
                 \/ AddCheckCap(r) \/ RemoveCheckAdmin(r) \/ Notify(r) \/ Fail(r)
        BY <2>2, <2>3, <3>3 DEF CheckExisting, AddCheckAdmin, AddCheckMember,
             AddCheckCap, RemoveCheckAdmin, Notify, Fail, Call, Goto, TypeOK
      <3> QED
        BY <2>3, <3>1, <3>2, <3>3 DEF Reads
    <2> QED
      BY <2>1, <2>2, <2>3, StepKinds DEF Creates, Deletes, AddCommit, Announce, Goto, TypeOK
  <1> DEFINE Raced ==
        \A c \in 1 .. created :
          (HasAdmin(c) /\ ~HasAdmin(c)') =>
            \E r \in Requests :
                /\ pc[r] \in {"remove", "leave"} /\ pc'[r] # pc[r]
                /\ conv[r] = c
                /\ rivals[r] # {} \/ loadedRole[r] = "MEMBER"
  <1>3. TypeOK /\ Shape /\ CountedOrMember /\ [Next]_vars => [Raced]_vars
    <2> SUFFICES ASSUME TypeOK, Shape, CountedOrMember, Next, NEW c \in 1 .. created,
                        HasAdmin(c), ~HasAdmin(c)'
                 PROVE  \E r \in Requests :
                          /\ pc[r] \in {"remove", "leave"} /\ pc'[r] # pc[r]
                          /\ conv[r] = c
                          /\ rivals[r] # {} \/ loadedRole[r] = "MEMBER"
      OBVIOUS
    <2>c. c \in Conversations /\ c # created + 1
      BY BoundsAssumption DEF TypeOK, Conversations
    <2>1. PICK u \in Users : u \in admins[c] /\ row[c][u] # 0
      BY DEF HasAdmin, IsAdmin, Members
    <2>2. u \notin admins'[c] \/ row'[c][u] = 0
      BY DEF HasAdmin, IsAdmin, Members
    <2>3. ~(UNCHANGED <<row, admins>>)
      BY <2>1, <2>2
    <2>4. ~Promote
      <3> SUFFICES ASSUME Promote PROVE FALSE
        OBVIOUS
      <3>1. UNCHANGED row /\ admins[c] \subseteq admins'[c]
        BY <2>c DEF Promote, TypeOK
      <3> QED
        BY <2>1, <2>2, <3>1
    <2>5. PICK r \in Requests :
            \/ Reads(r) /\ UNCHANGED database
            \/ \E k \in {"group", "direct"}, U \in SUBSET Users, A \in SUBSET Users :
                 Creates(r, k, U, A)
            \/ AddCommit(r)
            \/ Deletes(r)
      BY <2>4, StepKinds
    <2>6. ~(UNCHANGED database)
      BY <2>3 DEF database
    <2>7. ~(\E k \in {"group", "direct"}, U \in SUBSET Users, A \in SUBSET Users :
              Creates(r, k, U, A))
      BY <2>1, <2>2, <2>c, CreateEffect DEF Creates
    <2>8. ~AddCommit(r)
      <3> SUFFICES ASSUME AddCommit(r) PROVE FALSE
        OBVIOUS
      <3>1. admins' = admins
        BY DEF AddCommit
      <3>2. row'[c][u] = row[c][u]
        BY <2>1, <2>c, AddEffect
      <3> QED
        BY <2>1, <2>2, <3>1, <3>2
    <2>9. Deletes(r)
      BY <2>5, <2>6, <2>7, <2>8
    <2>10. c = conv[r]
      BY <2>1, <2>2, <2>9, <2>c, DeleteEffect DEF Deletes
    <2> QED
      BY <2>9, <2>10 DEF Deletes, CountedOrMember
  <1> QED
    BY <1>1, <1>2, <1>3, ShapeCorrect, PTL DEF Spec, LastAdminLostOnlyByRace
------------------------------------------------------------------------------
(* The members of a group and the adds that have passed the check exceed   *)
(* MAX_GROUP_PARTICIPANTS by less than the calls in flight                 *)
(* (add_participant counts without a lock).                                *)
WithinOvershoot(c) ==
    Cardinality(Members(c)) + Cardinality(Adding(c))
        <= MAX_GROUP_PARTICIPANTS + Cardinality(Requests) - 1

LEMMA FiniteCounts ==
  /\ Cardinality(Requests) \in Nat /\ Cardinality(Requests) >= 1
  /\ \A c : /\ IsFiniteSet(Members(c)) /\ Cardinality(Members(c)) \in Nat
            /\ IsFiniteSet(Adding(c)) /\ Cardinality(Adding(c)) \in Nat
            /\ Cardinality(Adding(c)) <= Cardinality(Requests)
  /\ \A c : /\ IsFiniteSet(Members(c)') /\ Cardinality(Members(c)') \in Nat
            /\ IsFiniteSet(Adding(c)') /\ Cardinality(Adding(c)') \in Nat
            /\ Cardinality(Adding(c)') <= Cardinality(Requests)
  <1>1. Cardinality(Requests) \in Nat /\ Cardinality(Requests) # 0
    BY FinitenessAssumption, FS_CardinalityType, FS_EmptySet
  <1>2. \A S \in SUBSET Users : IsFiniteSet(S) /\ Cardinality(S) \in Nat
    BY FinitenessAssumption, FS_Subset, FS_CardinalityType
  <1>3. \A S \in SUBSET Requests :
          IsFiniteSet(S) /\ Cardinality(S) \in Nat /\ Cardinality(S) <= Cardinality(Requests)
    BY FinitenessAssumption, FS_Subset, FS_CardinalityType
  <1>4. \A c : /\ Members(c) \in SUBSET Users /\ Members(c)' \in SUBSET Users
               /\ Adding(c) \in SUBSET Requests /\ Adding(c)' \in SUBSET Requests
    BY DEF Members, Adding
  <1> QED
    BY <1>1, <1>2, <1>3, <1>4

THEOREM CapOvershootIsBounded == Spec => []OvershootBounded
  <1>1. Init => OvershootBounded
    <2> SUFFICES ASSUME Init, NEW c \in 1 .. created, kind[c] = "group"
                 PROVE  WithinOvershoot(c)
      BY DEF OvershootBounded, WithinOvershoot
    <2>1. c = 1 /\ 1 \in Conversations
      BY OneIsAConversation DEF Init
    <2>2. Cardinality(Members(c)) <= MAX_GROUP_PARTICIPANTS
      <3>1. PICK U \in SUBSET Users :
              /\ Cardinality(U) <= MAX_GROUP_PARTICIPANTS
              /\ row = [d \in Conversations |-> IF d = 1 THEN Rows(U) ELSE Rows({})]
        BY <2>1 DEF Init
      <3>2. Members(c) = U
        BY <2>1, <3>1 DEF Members, Rows
      <3> QED
        BY <3>1, <3>2
    <2>3. Adding(c) = {}
      BY DEF Init, Adding
    <2>4. Cardinality(Adding(c)) = 0
      BY <2>3, FS_EmptySet
    <2> QED
      BY <2>2, <2>4, FiniteCounts, CapAssumption DEF WithinOvershoot
  <1>2. TypeOK /\ Shape /\ OvershootBounded /\ [Next]_vars => OvershootBounded'
    <2> SUFFICES ASSUME TypeOK, Shape, OvershootBounded, [Next]_vars,
                        NEW c \in 1 .. created', kind'[c] = "group"
                 PROVE  WithinOvershoot(c)'
      BY DEF OvershootBounded, WithinOvershoot
    <2>t. /\ created \in Nat /\ created' \in Nat /\ c \in Nat
          /\ c \in Conversations
          /\ \A q \in Requests : conv[q] \in Nat /\ conv[q] <= created
      <3>1. Conversations \subseteq Nat /\ created' \in Conversations
        BY NextTypes DEF TypeOK, Conversations
      <3>2. created \in Conversations /\ \A q \in Requests : conv[q] \in Conversations
        BY DEF TypeOK
      <3>3. c \in Conversations
        BY <3>1, BoundsAssumption DEF Conversations
      <3>4. \A q \in Requests : conv[q] <= created
        BY DEF Shape, KnowsConversation
      <3> QED
        BY <3>1, <3>2, <3>3, <3>4
    (* neither a member nor an add that was not there before *)
    <2>1. ASSUME c <= created, kind[c] = "group", Members(c)' \subseteq Members(c),
                 Adding(c)' \subseteq Adding(c)
          PROVE  WithinOvershoot(c)'
      <3>1. WithinOvershoot(c)
        BY <2>1, <2>t DEF OvershootBounded, WithinOvershoot
      <3>2. /\ Cardinality(Members(c)') <= Cardinality(Members(c))
            /\ Cardinality(Adding(c)') <= Cardinality(Adding(c))
        BY <2>1, FiniteCounts, FS_Subset
      <3> QED
        BY <3>1, <3>2, FiniteCounts, CapAssumption DEF WithinOvershoot
    <2>2. CASE UNCHANGED vars
      BY <2>1, <2>2, <2>t DEF vars, Members, Adding
    <2>3. CASE Promote
      BY <2>1, <2>3, <2>t DEF Promote, arguments, Members, Adding
    <2>4. ASSUME NEW r \in Requests, OthersStay(r), Reads(r), UNCHANGED database
          PROVE  WithinOvershoot(c)'
      <3>1. c <= created /\ kind[c] = "group" /\ Members(c)' = Members(c)
        BY <2>4, <2>t DEF database, Members
      <3>2. CASE pc'[r] # "add" \/ conv'[r] # c
        BY <2>1, <2>4, <3>1, <3>2 DEF OthersStay, Adding
      <3>3. CASE AddCheckCap(r) /\ conv'[r] = c
        <4>1. Cardinality(Members(c)') < MAX_GROUP_PARTICIPANTS
          BY <3>1, <3>3 DEF AddCheckCap, HasRoom, arguments
        <4> QED
          BY <4>1, FiniteCounts, CapAssumption DEF WithinOvershoot
      <3>4. pc'[r] = "add" => AddCheckCap(r)
        <4>1. CASE RemoveLoad(r) \/ LeaveLoad(r)
          BY <4>1 DEF RemoveLoad, LeaveLoad, Load, Goto, TypeOK
        <4>2. CASE RemoveCountAdmins(r) \/ LeaveCountAdmins(r)
          BY <4>2 DEF RemoveCountAdmins, LeaveCountAdmins, CountAdmins, Goto, TypeOK
        <4>3. CASE \/ CheckExisting(r) \/ AddCheckAdmin(r) \/ AddCheckMember(r)
                   \/ RemoveCheckAdmin(r) \/ Notify(r) \/ Fail(r)
          BY <4>3 DEF CheckExisting, AddCheckAdmin, AddCheckMember, RemoveCheckAdmin,
               Notify, Fail, Call, Goto, TypeOK
        <4> QED
          BY <2>4, <4>1, <4>2, <4>3 DEF Reads
      <3> QED
        BY <3>2, <3>3, <3>4
    <2>5. ASSUME NEW r \in Requests, OthersStay(r), NEW k \in {"group", "direct"},
                 NEW U \in SUBSET Users, NEW A \in SUBSET Users, Creates(r, k, U, A)
          PROVE  WithinOvershoot(c)'
      <3>1. /\ kind'[created + 1] = k /\ conv'[r] = created + 1 /\ created' = created + 1
            /\ pc'[r] # "add"
            /\ \A u \in Users : row'[created + 1][u] = IF u \in U THEN 1 ELSE 0
        <4>1. Create(r, k, U, A) /\ pc'[r] # "add"
          BY <2>5 DEF Creates
        <4>2. /\ kind'[created + 1] = k /\ conv'[r] = created + 1
              /\ created' = created + 1
          BY <4>1, CreateEffect
        <4>3. \A u \in Users : /\ row'[created + 1][u] = IF u \in U THEN 1 ELSE 0
                               /\ born'[created + 1][u] = row'[created + 1][u]
                               /\ born[created + 1][u] = 0
          BY <4>1, CreateEffect
        <4> QED
          BY <4>1, <4>2, <4>3
      <3>2. CASE c = created + 1
        <4>1. Members(c)' = U
          BY <3>1, <3>2 DEF Members
        <4>2. Adding(c)' = {}
          BY <2>5, <2>t, <3>1, <3>2 DEF Adding, OthersStay
        <4>3. Cardinality(Members(c)') <= MAX_GROUP_PARTICIPANTS
          BY <2>5, <3>1, <3>2, <4>1 DEF Creates, WithinCap
        <4>4. Cardinality(Adding(c)') = 0
          BY <4>2, FS_EmptySet
        <4> QED
          BY <4>3, <4>4, FiniteCounts, CapAssumption DEF WithinOvershoot
      <3>3. CASE c # created + 1
        <4>1. c <= created /\ kind'[c] = kind[c] /\ row'[c] = row[c]
          BY <2>5, <2>t, <3>1, <3>3, CreateEffect DEF Creates
        <4> QED
          BY <2>1, <2>5, <3>1, <4>1 DEF Members, Adding, OthersStay
      <3> QED
        BY <3>2, <3>3
    <2>6. ASSUME NEW r \in Requests, OthersStay(r), AddCommit(r)
          PROVE  WithinOvershoot(c)'
      <3>1. /\ UNCHANGED <<created, kind, conv>> /\ pc[r] = "add" /\ pc'[r] # "add"
            /\ target[r] \in Users
        BY <2>6 DEF AddCommit, Announce, Goto, arguments, TypeOK
      <3>2. CASE c # conv[r]
        <4>1. \A u \in Users : row'[c][u] = row[c][u]
          BY <2>6, <2>t, <3>2, AddEffect
        <4> QED
          BY <2>1, <2>6, <2>t, <3>1, <4>1 DEF Members, Adding, OthersStay
      <3>3. CASE c = conv[r]
        <4>1. Adding(c)' = Adding(c) \ {r} /\ r \in Adding(c)
          BY <2>6, <3>1, <3>3 DEF Adding, OthersStay
        <4>2. Members(c)' \subseteq Members(c) \cup {target[r]}
          <5>1. \A u \in Users : u # target[r] => row'[c][u] = row[c][u]
            BY <2>6, <2>t, AddEffect
          <5> QED
            BY <5>1 DEF Members
        <4>3. Cardinality(Adding(c)') = Cardinality(Adding(c)) - 1
          BY <4>1, FiniteCounts, FS_RemoveElement
        <4>4. Cardinality(Members(c)') <= Cardinality(Members(c)) + 1
          <5> DEFINE M == Members(c) \cup {target[r]}
          <5>1. /\ IsFiniteSet(M) /\ Cardinality(M) \in Nat
                /\ Cardinality(M) <= Cardinality(Members(c)) + 1
            BY FiniteCounts, FS_AddElement
          <5>2. Members(c)' \in SUBSET M
            BY <4>2
          <5> HIDE DEF M
          <5>3. Cardinality(Members(c)') <= Cardinality(M)
            BY <5>1, <5>2, FS_Subset
          <5> QED
            BY <5>1, <5>3, FiniteCounts
        <4>5. WithinOvershoot(c)
          BY <2>t, <3>1 DEF OvershootBounded, WithinOvershoot
        <4> QED
          BY <4>3, <4>4, <4>5, FiniteCounts, CapAssumption DEF WithinOvershoot
      <3> QED
        BY <3>2, <3>3
    <2>7. ASSUME NEW r \in Requests, OthersStay(r), Deletes(r)
          PROVE  WithinOvershoot(c)'
      <3>1. UNCHANGED <<created, kind, conv>> /\ pc'[r] # "add"
        BY <2>7 DEF Deletes, Delete, arguments
      <3>2. \A u \in Users : row'[c][u] # 0 => row[c][u] # 0
        BY <2>7, <2>t, DeleteEffect DEF Deletes
      <3> QED
        BY <2>1, <2>7, <2>t, <3>1, <3>2 DEF Members, Adding, OthersStay
    <2> QED
      BY <2>2, <2>3, <2>4, <2>5, <2>6, <2>7, StepKinds
  <1> QED
    BY <1>1, <1>2, ShapeCorrect, PTL DEF Spec
------------------------------------------------------------------------------
(* While nobody is promoted, the creator of a group is its one admin, a    *)
(* removal that counts admins is about him, and one that deletes is not.   *)
OneAdmin ==
    /\ \A c \in 1 .. created :
         kind[c] = "group" => \E a \in Users : admins[c] = {a} /\ row[c][a] # 0
    /\ \A c \in Conversations : kind[c] # "group" => admins[c] = {}

RemovalsSpareAdmin ==
    \A r \in Requests :
      /\ pc[r] \in {"removeCount", "leaveCount"} => target[r] \in admins[conv[r]]
      /\ pc[r] \in {"remove", "leave"} => target[r] \notin admins[conv[r]]

(* As long as no role is changed a group has an admin (the count of        *)
(* remaining admins in remove_participant and leave_conversation).         *)
THEOREM GroupsKeepAnAdmin == Spec => []GroupKeepsAdmin
  <1> DEFINE Inv == promotions = 0 => OneAdmin /\ RemovalsSpareAdmin
  <1>1. Init => Inv
    <2> SUFFICES ASSUME Init PROVE OneAdmin /\ RemovalsSpareAdmin
      OBVIOUS
    <2>1. RemovalsSpareAdmin
      BY DEF Init, RemovalsSpareAdmin
    <2>2. PICK u \in Users, U \in SUBSET Users, k \in {"group", "direct"} :
            /\ u \in U
            /\ k = "group" => Cardinality(U) <= MAX_GROUP_PARTICIPANTS
            /\ k = "direct" => Cardinality(U) = 2
            /\ kind = [c \in Conversations |-> IF c = 1 THEN k ELSE "none"]
            /\ row = [c \in Conversations |-> IF c = 1 THEN Rows(U) ELSE Rows({})]
            /\ admins = [c \in Conversations |->
                           IF c = 1 /\ k = "group" THEN {u} ELSE {}]
      BY DEF Init
    <2>3. created = 1 /\ Rows(U)[u] = 1
      BY <2>2 DEF Init, Rows
    <2>4. OneAdmin
      BY <2>2, <2>3, OneIsAConversation DEF OneAdmin
    <2> QED
      BY <2>1, <2>4
  <1>2. TypeOK /\ Shape /\ Inv /\ [Next]_vars => Inv'
    <2> SUFFICES ASSUME TypeOK, Shape, Inv, [Next]_vars, promotions' = 0
                 PROVE  OneAdmin' /\ RemovalsSpareAdmin'
      OBVIOUS
    <2>1. CASE UNCHANGED vars
      BY <2>1 DEF vars, database, arguments, OneAdmin, RemovalsSpareAdmin
    <2>2. CASE Next
      <3>p. ~Promote
        BY BoundsAssumption DEF Promote, TypeOK
      <3>1. PICK r \in Requests :
              /\ OthersStay(r)
              /\ \/ Reads(r) /\ UNCHANGED database
                 \/ \E k \in {"group", "direct"}, U \in SUBSET Users, A \in SUBSET Users :
                      Creates(r, k, U, A)
                 \/ AddCommit(r)
                 \/ Deletes(r)
        BY <2>2, <3>p, StepKinds
      <3>2. promotions = 0
        BY <3>1 DEF database, Creates, Create, AddCommit, Deletes, Delete
      <3>3. OneAdmin /\ RemovalsSpareAdmin
        BY <3>2
      <3>t. /\ created \in Nat /\ 1 .. created \subseteq Conversations
            /\ \A q \in Requests : /\ conv[q] \in 1 .. created
                                   /\ conv[q] \in Conversations /\ target[q] \in Users
        <4>1. created \in Conversations /\ Conversations \subseteq Nat
          BY DEF TypeOK, Conversations
        <4>2. \A q \in Requests : /\ conv[q] \in Conversations /\ target[q] \in Users
                                  /\ conv[q] <= created
          BY DEF TypeOK, Shape, KnowsConversation
        <4>3. 1 .. created \subseteq Conversations
          BY <4>1, BoundsAssumption DEF Conversations
        <4> QED
          BY <4>1, <4>2, <4>3 DEF Conversations
      <3>4. CASE Reads(r) /\ UNCHANGED database
        <4>1. OneAdmin'
          BY <3>3, <3>4 DEF OneAdmin, database
        <4>2. /\ pc'[r] \in {"removeCount", "leaveCount"} => target'[r] \in admins[conv'[r]]
              /\ pc'[r] \in {"remove", "leave"} => target'[r] \notin admins[conv'[r]]
          <5>1. CASE RemoveLoad(r) \/ LeaveLoad(r)
            BY <5>1 DEF RemoveLoad, LeaveLoad, Load, Goto, TypeOK
          <5>2. ~(RemoveCountAdmins(r) \/ LeaveCountAdmins(r))
            <6> SUFFICES ASSUME RemoveCountAdmins(r) \/ LeaveCountAdmins(r) PROVE FALSE
              OBVIOUS
            <6>1. target[r] \in admins[conv[r]]
              BY <3>3 DEF RemoveCountAdmins, LeaveCountAdmins, RemovalsSpareAdmin
            <6>2. kind[conv[r]] = "group"
              BY <3>3, <3>t, <6>1 DEF OneAdmin
            <6>3. \E a \in Users : admins[conv[r]] = {a}
              BY <3>3, <3>t, <6>2 DEF OneAdmin
            <6>4. (admins[conv[r]] \intersect Members(conv[r])) \ {target[r]} = {}
              BY <6>1, <6>3
            <6> QED
              BY <6>4 DEF RemoveCountAdmins, LeaveCountAdmins, CountAdmins, LeavesNoAdmin
          <5>3. CASE \/ CheckExisting(r) \/ AddCheckAdmin(r) \/ AddCheckMember(r)
                     \/ AddCheckCap(r) \/ RemoveCheckAdmin(r) \/ Notify(r) \/ Fail(r)
            BY <5>3 DEF CheckExisting, AddCheckAdmin, AddCheckMember, AddCheckCap,
                 RemoveCheckAdmin, Notify, Fail, Call, Goto, TypeOK
          <5> QED
            BY <3>4, <5>1, <5>2, <5>3 DEF Reads
        <4> QED
          BY <3>1, <3>3, <3>4, <4>1, <4>2 DEF database, OthersStay, RemovalsSpareAdmin
      (* nobody's admins change *)
      <3>5. ASSUME \A c \in 1 .. created : admins'[c] = admins[c],
                   UNCHANGED <<conv, target>>, pc'[r] \in {"notify", "done"}
            PROVE  RemovalsSpareAdmin'
        BY <3>1, <3>3, <3>5, <3>t DEF OthersStay, RemovalsSpareAdmin
      <3>6. CASE \E k \in {"group", "direct"}, U \in SUBSET Users, A \in SUBSET Users :
                   Creates(r, k, U, A)
        <4>1. PICK k \in {"group", "direct"}, U \in SUBSET Users, A \in SUBSET Users :
                     Creates(r, k, U, A)
          BY <3>6
        <4>2. Create(r, k, U, A)
          BY <4>1 DEF Creates
        <4>3. /\ created' = created + 1 /\ kind'[created + 1] = k
              /\ admins'[created + 1] = A
          <5>1. created' = created + 1 /\ kind'[created + 1] = k
            BY <4>2, CreateEffect
          <5>2. admins'[created + 1] = A
            <6>1. created + 1 \in Conversations
              BY <4>2, CreateEffect
            <6> QED
              BY <4>2, <6>1 DEF Create, TypeOK
          <5> QED
            BY <5>1, <5>2
        <4>4. \A c \in Conversations : c # created + 1 =>
                /\ kind'[c] = kind[c] /\ admins'[c] = admins[c]
                /\ row'[c] = row[c] /\ born'[c] = born[c]
          BY <4>2, CreateEffect
        <4>5. \A u \in Users : /\ row'[created + 1][u] = IF u \in U THEN 1 ELSE 0
                               /\ born'[created + 1][u] = row'[created + 1][u]
                               /\ born[created + 1][u] = 0
          BY <4>2, CreateEffect
        <4>6. k = "group" => \E a \in Users : A = {a} /\ row'[created + 1][a] # 0
          BY <4>1, <4>5 DEF Creates
        <4>7. k = "direct" => A = {}
          BY <4>1 DEF Creates
        <4>8. OneAdmin'
          <5>1. \A c \in 1 .. created' : c = created + 1 \/ c \in 1 .. created
            BY <4>3, <3>t
          <5>2. \A c \in 1 .. created : c \in Conversations /\ c # created + 1
            BY <3>t
          <5> QED
            BY <3>3, <4>3, <4>4, <4>6, <4>7, <5>1, <5>2 DEF OneAdmin
        <4>9. RemovalsSpareAdmin'
          <5>1. \A q \in Requests \ {r} : admins'[conv[q]] = admins[conv[q]]
            BY <3>t, <4>4
          <5>2. pc'[r] \in {"notify", "done"}
            BY <4>1 DEF Creates
          <5> QED
            BY <3>1, <3>3, <5>1, <5>2 DEF OthersStay, RemovalsSpareAdmin
        <4> QED
          BY <4>8, <4>9
      <3>7. CASE AddCommit(r)
        <4>1. /\ UNCHANGED <<created, kind, admins, conv, target>>
              /\ pc'[r] \in {"notify", "done"}
          BY <3>7 DEF AddCommit, Announce, Goto, arguments, TypeOK
        <4>2. \A c \in Conversations, u \in Users : row[c][u] # 0 => row'[c][u] # 0
          BY <3>7, AddEffect
        <4> QED
          BY <3>3, <3>5, <3>t, <4>1, <4>2 DEF OneAdmin
      <3>8. CASE Deletes(r)
        <4>1. /\ UNCHANGED <<created, kind, conv, target>> /\ Delete(r)
              /\ pc[r] \in {"remove", "leave"} /\ pc'[r] \in {"notify", "done"}
          BY <3>8 DEF Deletes, Delete, arguments
        <4>2. target[r] \notin admins[conv[r]]
          BY <3>3, <4>1 DEF RemovalsSpareAdmin
        <4>3. /\ \A c \in Conversations : admins[c] \subseteq Users /\ admins'[c] \subseteq Users
              /\ Users # {}
          BY <3>t, NextTypes DEF TypeOK
        <4>4. \A c \in Conversations, u \in Users :
                /\ u \in admins'[c] <=> u \in admins[c]
                /\ u \in admins[c] => row'[c][u] = row[c][u]
          BY <4>1, <4>2, DeleteEffect
        <4>5. \A c \in Conversations : admins'[c] = admins[c]
          BY <4>3, <4>4
        <4> QED
          BY <3>3, <3>5, <3>t, <4>1, <4>4, <4>5 DEF OneAdmin
      <3> QED
        BY <3>1, <3>4, <3>6, <3>7, <3>8
    <2> QED
      BY <2>1, <2>2
  <1>3. Inv => GroupKeepsAdmin
    BY DEF GroupKeepsAdmin, OneAdmin, HasAdmin, IsAdmin, Members
  <1> QED
    BY <1>1, <1>2, <1>3, ShapeCorrect, PTL DEF Spec
===============================================================================
