----------------------------- MODULE LiveChatProofs -----------------------------
(***************************************************************************)
(* The safety properties of the pages for any number of users, pages,      *)
(* messages, reconnections, removals and markings elsewhere, and the proof *)
(* that what happens to the services is what MessageLog allows.            *)
(***************************************************************************)
EXTENDS LiveChat, SequenceTheorems, WellFoundedInduction, TLAPS

Sockets == {"none", "connecting", "allowed", "joined", "open", "closed"}
InGroup(p) == socket[p] \in {"joined", "open"}

(* Messages are committed one after the other. *)
Counted == \E n \in 0 .. MaxMessages : committed = 1 .. n

(* A message is announced once: by the outbox, and then by the wire. *)
AnnouncedOnce ==
    /\ \A o \in outbox :
         o.event = "new" => o = Owed(o.msg, Event("new", o.msg, author[o.msg]))
    /\ \A o \in outbox : \A k \in DOMAIN wire :
         o.event = "new" /\ wire[k].event = "new" => o.msg # wire[k].msg
    /\ \A j, k \in DOMAIN wire :
         wire[j].event = "new" /\ wire[k].event = "new" /\ wire[j].msg = wire[k].msg
           => j = k

(* Whoever a receipt is about has been that far. *)
ReceiptsAreTrue ==
    /\ \A o \in outbox : o.event = "receipt" => reached[o.user] >= o.msg
    /\ \A k \in DOMAIN wire :
         wire[k].event = "receipt" => reached[wire[k].user] >= wire[k].msg

(* Somebody else has been as far as the watermark says. *)
WatermarkIsTrue ==
    \A p \in Pages :
        mark[p] > 0 => \E v \in Others(Viewer[p]) : reached[v] >= mark[p]

(* A page has rows, of which the rendered ones number 1, 2, ..., and a     *)
(* socket once it has been rendered, *)
RenderedFirst ==
    \A p \in Pages :
        /\ mark[p] # -1 => socket[p] = "none"
        /\ socket[p] = "none" => rows[p] = <<>> /\ listed[p] = 0
        /\ \A i \in DOMAIN rows[p] : i <= listed[p] => rows[p][i].msg = i

(* the event that announces m has been broadcast, and if p is in the       *)
(* group, p has it behind itself *)
Passed(p, m) ==
    \E k \in DOMAIN wire : /\ wire[k].event = "new" /\ wire[k].msg = m
                           /\ InGroup(p) => k <= cursor[p]

(* and its other rows are those of events it has passed, each its own. *)
AppendedOnce ==
    \A p \in Pages :
        /\ \A i \in DOMAIN rows[p] : listed[p] < i => Passed(p, rows[p][i].msg)
        /\ \A i, j \in DOMAIN rows[p] :
             listed[p] < i /\ i < j => rows[p][i].msg # rows[p][j].msg

(* A consumer marks messages as read while its socket is open only. *)
WorksWhileOpen == \A p \in Pages : socket[p] # "open" => task[p] = Idle

Inv == /\ TypeOK
       /\ Counted
       /\ AnnouncedOnce
       /\ ReceiptsAreTrue
       /\ WatermarkIsTrue
       /\ RenderedFirst
       /\ AppendedOnce
       /\ WorksWhileOpen
       /\ SeenIsEarned

-----------------------------------------------------------------------------
(* Maxima and minima of bounded sets of numbers. *)

LEMMA MinOf ==
  ASSUME NEW S \in SUBSET Nat, S # {}
  PROVE  Min(S) \in S /\ \A y \in S : Min(S) <= y
  <1>1. PICK x \in S : \A y \in S : ~ (<<y, x>> \in OpToRel(<, Nat))
    BY WFMin, NatLessThanWellFounded, Zenon
  <1>2. \A a, b \in Nat : a < b => <<a, b>> \in OpToRel(<, Nat)
    BY DEF OpToRel
  <1>3. \A y \in S : ~ (y < x)
    BY <1>1, <1>2, Zenon
  <1>4. \A y \in S : x <= y
    BY <1>3
  <1> QED
    BY <1>4 DEF Min

LEMMA MaxOf ==
  ASSUME NEW N \in Nat, NEW S \in SUBSET (0 .. N), S # {}
  PROVE  Max(S) \in S /\ \A y \in S : Max(S) >= y
  <1> DEFINE T == {N - x : x \in S}
  <1>1. T \in SUBSET Nat /\ T # {}
    <2>1. \A x \in S : x \in 0 .. N
      OBVIOUS
    <2>2. \A x \in S : N - x \in Nat
      BY <2>1
    <2> QED
      BY <2>2
  <1>2. Min(T) \in T /\ \A y \in T : Min(T) <= y
    BY <1>1, MinOf
  <1>3. PICK x \in S : Min(T) = N - x
    BY <1>2
  <1>4. \A y \in S : x >= y
    <2> TAKE y \in S
    <2>1. N - x <= N - y
      BY <1>2, <1>3
    <2>2. x \in Int /\ y \in Int
      OBVIOUS
    <2> QED
      BY <2>1, <2>2
  <1> QED
    BY <1>4 DEF Max

LEMMA NewestIs ==
  ASSUME NEW n \in Nat, committed = 1 .. n
  PROVE  Newest = n
  <1>1. n \in committed \union {0} /\ \A y \in committed \union {0} : n >= y
    OBVIOUS
  <1>2. committed \union {0} \in SUBSET (0 .. n)
    OBVIOUS
  <1>3. Newest \in committed \union {0} /\ \A y \in committed \union {0} : Newest >= y
    BY <1>2, MaxOf DEF Newest
  <1> QED
    BY <1>1, <1>2, <1>3

(* The watermark is 0 or somebody else's pointer. *)
LEMMA FurthestReadIs ==
  ASSUME TypeOK, NEW u \in Users
  PROVE  /\ FurthestRead(u) \in Messages \union {0}
         /\ FurthestRead(u) # 0 => \E v \in Others(u) : pointer[v] = FurthestRead(u)
  <1> DEFINE S == {pointer[v] : v \in Others(u)} \union {0}
  <1>1. MaxMessages \in Nat
    BY BoundsAssumption
  <1>2. S \in SUBSET (0 .. MaxMessages)
    BY <1>1 DEF TypeOK, Others, Messages
  <1>3. FurthestRead(u) \in S
    BY <1>1, <1>2, MaxOf DEF FurthestRead
  <1> QED
    BY <1>1, <1>2, <1>3 DEF Messages

-----------------------------------------------------------------------------
(* Types. *)

Types == {"new", "receipt"}
Entries == [by : Callers, event : Types, msg : committed, user : Users]
Events == [event : Types, msg : committed, user : Users]

(* the parts of TypeOK about the services, the pages and both *)
LogTypes ==
    /\ committed \in SUBSET Messages
    /\ pointer \in [Users -> Messages \union {0}]
    /\ reached \in [Users -> Messages \union {0}]
    /\ \A u \in Users : pointer[u] <= reached[u]
    /\ \A o \in outbox : o \in Entries
    /\ wire \in Seq(Events)

Tasks == [step : {"none", "load", "save", "receipt"},
          msg : Messages \union {LATEST}, pk : Nat]

PageTypes ==
    /\ author \in [Messages -> Users]
    /\ row \in [Users -> Nat]
    /\ removals \in 0 .. MaxRemovals
    /\ mark \in [Pages -> Messages \union {-1, 0}]
    /\ rows \in [Pages -> Rows]
    /\ listed \in [Pages -> Nat]
    /\ \A p \in Pages : listed[p] <= Len(rows[p])
    /\ visible \in SUBSET Pages
    /\ socket \in [Pages -> Sockets]
    /\ inbox \in [Pages -> Seq(Messages \union {LATEST})]
    /\ task \in [Pages -> Tasks]
    /\ drops \in 0 .. MaxDrops
    /\ visits \in 0 .. MaxVisits
    /\ hides \in 0 .. MaxHides

CursorTypes ==
    /\ cursor \in [Pages -> Nat]
    /\ \A p \in Pages : cursor[p] <= Len(wire)

LEMMA TypeParts == TypeOK <=> LogTypes /\ PageTypes /\ CursorTypes
  BY DEF TypeOK, LogTypes, PageTypes, CursorTypes, Entries, Events, Types, Sockets,
         Tasks

(* What a step does to the services: a message is sent, an event is        *)
(* broadcast, a pointer is put somewhere, or is forgotten, or nothing.     *)
Sends ==
    /\ Newest + 1 \in Messages
    /\ CommitMessage(Newest + 1, Newest + 1, author[Newest + 1])
    /\ UNCHANGED reached
Broadcasts == (\E o \in outbox : Broadcast(o)) /\ UNCHANGED reached
Marked == \E u \in Users : \E by \in {u} \union Pages : \E m \in committed : Reads(by, m, u)
Forgets == (\E u \in Users : Forget(u)) /\ UNCHANGED reached
LeavesLog == UNCHANGED <<logVars, reached>>

(* The messages a user can read are those up to the newest. *)
LEMMA NewestType ==
  ASSUME Counted
  PROVE  /\ Newest \in 0 .. MaxMessages
         /\ committed = 1 .. Newest
  <1>1. PICK n \in 0 .. MaxMessages : committed = 1 .. n
    BY DEF Counted
  <1>2. Newest = n
    BY <1>1, NewestIs
  <1> QED
    BY <1>1, <1>2

LEMMA LogSteps ==
  ASSUME TypeOK, Next
  PROVE  author' = author /\ (Sends \/ Broadcasts \/ Marked \/ Forgets \/ LeavesLog)
  <1> USE DEF members, LeavesLog
  <1>1. CASE Send
    BY <1>1 DEF Send, Sends
  <1>2. CASE BroadcastMessage
    BY <1>2 DEF BroadcastMessage, Broadcasts
  <1>3. ASSUME NEW u \in Users, ReadElsewhere(u) PROVE author' = author /\ Marked
    BY <1>3 DEF ReadElsewhere, Marked
  <1>4. ASSUME NEW u \in Users, RemoveRow(u) \/ AddRow(u) PROVE author' = author /\ Forgets
    BY <1>4 DEF RemoveRow, AddRow, Forgets
  <1>5. ASSUME NEW p \in Pages, SaveRow(p) PROVE author' = author /\ Marked
    <2>1. Reads(p, task[p].msg, Viewer[p]) /\ author' = author /\ task[p].msg \in committed
      BY <1>5 DEF SaveRow, AtStep, Reads, MarkRead
    <2> QED
      BY <2>1, ViewerAssumption DEF Marked
  <1>6. ASSUME NEW p \in Pages, Receipt(p) PROVE author' = author /\ Broadcasts
    BY <1>6 DEF Receipt, AtStep, Broadcasts
  <1>7. ASSUME NEW p \in Pages,
               \/ ReadWatermark(p) \/ RenderList(p) \/ Connecting(p) \/ LoadRow(p)
               \/ SaveRaises(p) \/ HandleSeen(p) \/ Relay(p) \/ Hide(p) \/ Show(p) \/ Drop(p)
        PROVE  author' = author /\ LeavesLog
    BY <1>7 DEF ReadWatermark, RenderList, Connecting, CheckMember, JoinGroup, Accept,
                Reconnect, LoadRow, SaveRaises, AtStep, HandleSeen, Relay, NewMessage,
                ReadReceipt, Relays, Hide, Show, Drop
  <1> QED
    BY <1>1, <1>2, <1>3, <1>4, <1>5, <1>6, <1>7 DEF Next, Marking

LEMMA OnWire ==
  ASSUME TypeOK
  PROVE  /\ wire \in Seq(Events) /\ Len(wire) \in Nat /\ DOMAIN wire = 1 .. Len(wire)
         /\ \A k \in DOMAIN wire :
              /\ wire[k].event \in Types /\ wire[k].msg \in committed
              /\ wire[k].msg \in Messages /\ wire[k].user \in Users
  <1>1. wire \in Seq(Events) /\ committed \in SUBSET Messages
    BY TypeParts DEF LogTypes
  <1>2. Len(wire) \in Nat /\ DOMAIN wire = 1 .. Len(wire)
    BY <1>1, LenProperties
  <1>3. \A k \in DOMAIN wire : wire[k] \in Events
    BY <1>1, <1>2, ElementOfSeq
  <1> QED
    BY <1>1, <1>2, <1>3 DEF Events

(* Nothing on the wire is taken back. *)
LEMMA WireGrows ==
  ASSUME TypeOK, Next
  PROVE  /\ Len(wire') >= Len(wire)
         /\ \A k \in 1 .. Len(wire) : wire'[k] = wire[k]
  <1>1. wire \in Seq(Events)
    BY TypeParts DEF LogTypes
  <1>2. ASSUME NEW o \in outbox, Broadcast(o)
        PROVE  /\ Len(wire') = Len(wire) + 1
               /\ \A k \in 1 .. Len(wire) : wire'[k] = wire[k]
    <2>1. Sent(o) \in Events
      BY TypeParts DEF LogTypes, Entries, Events, Sent, Event
    <2> QED
      BY <1>1, <1>2, <2>1, AppendProperties DEF Broadcast
  <1>3. CASE wire' = wire
    BY <1>1, <1>3, LenProperties
  <1>4. Len(wire) \in Nat
    BY <1>1, LenProperties
  <1> QED
    BY <1>2, <1>3, <1>4, LogSteps DEF Sends, CommitMessage, Broadcasts, Marked, Reads, MarkRead,
       Forgets, Forget, LeavesLog, logVars

(* What a pointer has reached, it has reached for good. *)
LEMMA ReachedGrows ==
  ASSUME TypeOK, Next
  PROVE  \A u \in Users : reached'[u] >= reached[u]
  <1>1. reached \in [Users -> Messages \union {0}] /\ committed \in SUBSET Messages
    BY DEF TypeOK
  <1>2. MaxMessages \in Nat
    BY BoundsAssumption
  <1>3. ASSUME NEW u \in Users, NEW by, NEW m \in committed, Reads(by, m, u)
        PROVE  \A v \in Users : reached'[v] >= reached[v]
    BY <1>1, <1>2, <1>3 DEF Reads, Messages
  <1>4. CASE reached' = reached
    BY <1>1, <1>2, <1>4 DEF Messages
  <1> QED
    BY <1>3, <1>4, LogSteps DEF Sends, Broadcasts, Marked, Forgets, LeavesLog

LEMMA LogTypesKept ==
  ASSUME TypeOK, Next
  PROVE  LogTypes'
  <1> USE DEF Entries, Events, Types
  <1>b. MaxMessages \in Nat
    BY BoundsAssumption
  <1>1. /\ committed \in SUBSET Messages /\ pointer \in [Users -> Messages \union {0}]
        /\ reached \in [Users -> Messages \union {0}] /\ \A u \in Users : pointer[u] <= reached[u]
        /\ \A o \in outbox : o \in Entries
        /\ wire \in Seq(Events) /\ author \in [Messages -> Users]
    BY DEF TypeOK
  <1>2. ASSUME committed \subseteq committed' PROVE wire \in Seq(Events')
    <2>1. Events \subseteq Events'
      BY <1>2
    <2> QED
      BY <1>1, <2>1, SeqMonotonic
  <1>3. CASE Sends
    <2>1. PICK m \in Messages : m = Newest + 1 /\ CommitMessage(m, m, author[m])
      BY <1>3 DEF Sends
    <2>2. Owed(m, Event("new", m, author[m])) \in Entries'
      BY <1>1, <2>1, CallersAssumption DEF CommitMessage, Owed, Event
    <2>3. wire' \in Seq(Events')
      BY <1>2, <2>1 DEF CommitMessage
    <2> QED
      BY <1>1, <1>3, <2>1, <2>2, <2>3 DEF Sends, CommitMessage, LogTypes
  <1>4. CASE Broadcasts
    <2>1. PICK o \in outbox : Broadcast(o)
      BY <1>4 DEF Broadcasts
    <2>2. Sent(o) \in Events
      BY <1>1 DEF Sent, Event
    <2>3. wire' \in Seq(Events)
      BY <1>1, <2>1, <2>2, AppendProperties DEF Broadcast
    <2> QED
      BY <1>1, <1>4, <2>1, <2>3 DEF Broadcasts, Broadcast, LogTypes
  <1>5. ASSUME NEW u \in Users, NEW by \in {u} \union Pages, NEW m \in committed,
               Reads(by, m, u)
        PROVE  LogTypes'
    <2>1. Owed(by, Event("receipt", m, u)) \in Entries
      BY <1>1, CallersAssumption DEF Owed, Event
    <2>2. /\ pointer' = [pointer EXCEPT ![u] = m]
          /\ reached' = [reached EXCEPT ![u] = IF m > reached[u] THEN m ELSE reached[u]]
      BY <1>5 DEF Reads, MarkRead
    <2>3. /\ pointer' \in [Users -> Messages \union {0}]
          /\ reached' \in [Users -> Messages \union {0}]
      BY <1>1, <2>2
    <2>4. \A v \in Users : pointer'[v] <= reached'[v]
      <3>1. m \in Nat /\ reached[u] \in Nat
        BY <1>b, <1>1 DEF Messages
      <3>2. pointer'[u] <= reached'[u]
        BY <1>1, <2>2, <3>1
      <3>3. \A v \in Users \ {u} : pointer'[v] <= reached'[v]
        BY <1>1, <2>2
      <3> QED
        BY <3>2, <3>3
    <2> QED
      BY <1>1, <1>5, <2>1, <2>3, <2>4 DEF Reads, MarkRead, LogTypes
  <1>6. CASE Forgets
    <2>1. PICK u \in Users : Forget(u) /\ UNCHANGED reached
      BY <1>6 DEF Forgets
    <2>2. pointer' = [pointer EXCEPT ![u] = 0]
      BY <2>1 DEF Forget
    <2>3. \A v \in Users : pointer'[v] <= reached'[v]
      BY <1>b, <1>1, <2>1, <2>2 DEF Messages
    <2> QED
      BY <1>1, <2>1, <2>2, <2>3 DEF Forget, LogTypes
  <1>7. CASE LeavesLog
    BY <1>1, <1>7 DEF LeavesLog, logVars, LogTypes
  <1> QED
    BY <1>3, <1>4, <1>5, <1>6, <1>7, LogSteps DEF Marked

Row == [msg : Messages, seen : BOOLEAN]
Seens == Messages \union {LATEST}

LEMMA SequenceOf ==
  ASSUME NEW S, NEW n \in Nat, NEW r, r = [i \in 1 .. n |-> r[i]],
         \A i \in 1 .. n : r[i] \in S
  PROVE  r \in Seq(S) /\ Len(r) = n /\ DOMAIN r = 1 .. n
  <1>1. r \in [1 .. n -> S]
    OBVIOUS
  <1> QED
    BY <1>1

LEMMA RenderTypes ==
  ASSUME TypeOK, Counted, NEW p \in Pages, RenderList(p)
  PROVE  rows' \in [Pages -> Rows] /\ \A q \in Pages : listed'[q] <= Len(rows'[q])
  <1>1. Newest \in 0 .. MaxMessages /\ MaxMessages \in Nat
    BY NewestType, BoundsAssumption
  <1>2. PICK b \in [1 .. Newest -> BOOLEAN] :
           rows' = [rows EXCEPT ![p] = [m \in 1 .. Newest |-> [msg |-> m, seen |-> b[m]]]]
    <2> DEFINE b == [m \in 1 .. Newest |-> (Own(p, m) /\ m <= mark[p])]
    <2>1. b \in [1 .. Newest -> BOOLEAN]
      OBVIOUS
    <2>2. rows' = [rows EXCEPT ![p] = [m \in 1 .. Newest |-> [msg |-> m, seen |-> b[m]]]]
      BY DEF RenderList
    <2> QED
      BY <2>1, <2>2
  <1>3. PICK r : r = [m \in 1 .. Newest |-> [msg |-> m, seen |-> b[m]]]
    OBVIOUS
  <1>4. r \in Seq(Row) /\ Len(r) = Newest
    <2>1. \A m \in 1 .. Newest : [msg |-> m, seen |-> b[m]] \in Row
      BY <1>1 DEF Row, Messages
    <2> QED
      BY <1>1, <1>3, <2>1
  <1>5. rows' = [rows EXCEPT ![p] = r] /\ rows \in [Pages -> Seq(Row)]
    BY <1>2, <1>3 DEF TypeOK, Rows, Row
  <1>7. rows' \in [Pages -> Rows]
    BY <1>4, <1>5 DEF Rows, Row
  <1>8. ASSUME NEW q \in Pages PROVE listed'[q] <= Len(rows'[q])
    <2>1. CASE q = p
      <3>1. listed'[q] = Newest
        BY <2>1 DEF RenderList, TypeOK
      <3> QED
        BY <1>1, <1>4, <1>5, <2>1, <3>1
    <2>2. CASE q # p
      BY <1>5, <2>2 DEF RenderList, TypeOK
    <2> QED
      BY <2>1, <2>2
  <1> QED
    BY <1>7, <1>8

LEMMA EventTypes ==
  ASSUME TypeOK, NEW p \in Pages, cursor[p] < Len(wire)
  PROVE  /\ cursor[p] + 1 \in 1 .. Len(wire)
         /\ Next1(p) = wire[cursor[p] + 1]
         /\ Next1(p) \in Events
         /\ Next1(p).msg \in committed /\ Next1(p).msg \in Messages
         /\ Next1(p).user \in Users
  <1>1. wire \in Seq(Events) /\ committed \in SUBSET Messages /\ cursor[p] \in 0 .. Len(wire)
    BY DEF TypeOK, Events, Types
  <1>2. cursor[p] + 1 \in 1 .. Len(wire)
    BY <1>1
  <1>3. wire[cursor[p] + 1] \in Events
    BY <1>1, <1>2, ElementOfSeq
  <1> QED
    BY <1>1, <1>2, <1>3 DEF Next1, Events

LEMMA InboxTypes ==
  ASSUME inbox \in [Pages -> Seq(Seens)],
         NEW p \in Pages, NEW m \in Seens, Emit(p, m) \/ UNCHANGED inbox
  PROVE  inbox' \in [Pages -> Seq(Seens)]
  <1>1. Append(inbox[p], m) \in Seq(Seens)
    OBVIOUS
  <1> QED
    BY <1>1 DEF Emit

(* A step of the page p appends an unread row, *)
Appends(p, m) == rows' = [rows EXCEPT ![p] = Append(@, [msg |-> m, seen |-> FALSE])]

LEMMA AppendedRow ==
  ASSUME rows \in [Pages -> Rows], NEW p \in Pages, NEW m \in Messages, Appends(p, m)
  PROVE  /\ rows' \in [Pages -> Rows]
         /\ Len(rows'[p]) = Len(rows[p]) + 1
         /\ \A i \in 1 .. Len(rows[p]) : rows'[p][i] = rows[p][i]
         /\ rows'[p][Len(rows[p]) + 1] = [msg |-> m, seen |-> FALSE]
         /\ \A q \in Pages \ {p} : rows'[q] = rows[q]
  <1>1. PICK e : e = [msg |-> m, seen |-> FALSE]
    OBVIOUS
  <1>2. e \in Row /\ rows[p] \in Seq(Row) /\ rows \in [Pages -> Seq(Row)]
    BY <1>1 DEF Rows, Row
  <1>3. /\ Append(rows[p], e) \in Seq(Row)
        /\ Len(Append(rows[p], e)) = Len(rows[p]) + 1
        /\ \A i \in 1 .. Len(rows[p]) : Append(rows[p], e)[i] = rows[p][i]
        /\ Append(rows[p], e)[Len(rows[p]) + 1] = e
    BY <1>2, AppendProperties
  <1>4. rows' = [rows EXCEPT ![p] = Append(rows[p], e)]
    BY <1>1 DEF Appends
  <1> QED
    BY <1>1, <1>2, <1>3, <1>4 DEF Rows, Row

(* or ticks rows, up to the first of its user's that the receipt names. *)
Target(p, m) == {i \in DOMAIN rows[p] : Own(p, rows[p][i].msg) /\ rows[p][i].msg = m}

LEMMA TickedRows ==
  ASSUME rows \in [Pages -> Rows], NEW p \in Pages, NEW m \in Messages
  PROVE  /\ MarkMessagesAsSeen(p, m) \in Rows
         /\ Len(MarkMessagesAsSeen(p, m)) = Len(rows[p])
         /\ \A i \in DOMAIN rows[p] :
              /\ MarkMessagesAsSeen(p, m)[i].msg = rows[p][i].msg
              /\ MarkMessagesAsSeen(p, m)[i].seen =>
                   \/ rows[p][i].seen
                   \/ Target(p, m) # {} /\ i <= Min(Target(p, m))
              /\ rows[p][i].seen => MarkMessagesAsSeen(p, m)[i].seen
              /\ Own(p, rows[p][i].msg) /\ Target(p, m) # {} /\ i <= Min(Target(p, m))
                   => MarkMessagesAsSeen(p, m)[i].seen
  <1> DEFINE own == {i \in DOMAIN rows[p] : Own(p, rows[p][i].msg)}
             new(i) == \/ rows[p][i].seen
                       \/ i \in own /\ Target(p, m) # {} /\ i <= Min(Target(p, m))
  <1>r. PICK r : r = MarkMessagesAsSeen(p, m)
    OBVIOUS
  <1>1. rows[p] \in Seq(Row) /\ Len(rows[p]) \in Nat /\ DOMAIN rows[p] = 1 .. Len(rows[p])
    BY LenProperties DEF Rows, Row
  <1>2. r = [i \in 1 .. Len(rows[p]) |-> [rows[p][i] EXCEPT !.seen = new(i)]]
    <2>1. Target(p, m) = {i \in own : rows[p][i].msg = m}
      BY DEF Target
    <2> QED
      BY <1>r, <1>1, <2>1 DEF MarkMessagesAsSeen
  <1>3. ASSUME NEW i \in 1 .. Len(rows[p])
        PROVE  /\ r[i] \in Row /\ r[i].msg = rows[p][i].msg
               /\ r[i].seen = new(i)
    <2>1. rows[p][i] \in Row
      BY <1>1, <1>3, ElementOfSeq
    <2>2. PICK b : b = new(i)
      OBVIOUS
    <2>3. b \in BOOLEAN
      BY <2>1, <2>2 DEF Row
    <2>4. r[i] = [rows[p][i] EXCEPT !.seen = b]
      BY <1>2, <1>3, <2>2
    <2>5. r[i] \in Row /\ r[i].msg = rows[p][i].msg /\ r[i].seen = b
      BY <2>1, <2>3, <2>4 DEF Row
    <2> QED
      BY <2>2, <2>5
  <1>4. r \in Seq(Row) /\ Len(r) = Len(rows[p]) /\ DOMAIN r = 1 .. Len(rows[p])
    <2>1. r = [i \in 1 .. Len(rows[p]) |-> r[i]]
      BY <1>2
    <2> QED
      BY <1>1, <1>3, <2>1, SequenceOf
  <1> QED
    BY <1>r, <1>1, <1>3, <1>4 DEF Rows, Row

(* what a receipt ticks for sure *)
LEMMA TickedForSure ==
  ASSUME rows \in [Pages -> Rows], NEW p \in Pages, NEW m \in Messages,
         NEW i \in DOMAIN rows[p],
         \/ rows[p][i].seen
         \/ Own(p, rows[p][i].msg) /\ Target(p, m) # {} /\ i <= Min(Target(p, m))
  PROVE  MarkMessagesAsSeen(p, m)[i].seen
  BY TickedRows

(* what a marking begins with *)
LEMMA MarksIs ==
  ASSUME Counted, NEW m \in Seens
  PROVE  /\ Marks(m) \in Tasks
         /\ m # LATEST => Marks(m).step = "load" /\ Marks(m).msg = m
  <1>1. Newest \in Seens
    BY NewestType, BoundsAssumption DEF Seens, Messages, LATEST
  <1> QED
    BY <1>1 DEF Marks, Idle, Tasks, Seens

(* a connection ends *)
Ends(p) == Drop(p) \/ SaveRaises(p)

LEMMA PageTypesKept ==
  ASSUME TypeOK, Counted, Next
  PROVE  PageTypes'
  <1> USE DEF page, connection, members, bounds
  <1>t. PageTypes /\ rows \in [Pages -> Rows] /\ inbox \in [Pages -> Seq(Seens)]
    BY TypeParts DEF PageTypes, Seens
  <1>b. /\ MaxMessages \in Nat /\ MaxDrops \in Nat /\ MaxVisits \in Nat
        /\ MaxRemovals \in Nat /\ MaxHides \in Nat
        /\ Newest \in 0 .. MaxMessages /\ LATEST \in Seens
    BY BoundsAssumption, NewestType DEF Seens
  <1>1. CASE Send \/ BroadcastMessage
    BY <1>t, <1>1 DEF Send, BroadcastMessage, PageTypes
  <1>2. ASSUME NEW u \in Users, ReadElsewhere(u) PROVE PageTypes'
    BY <1>t, <1>b, <1>2 DEF ReadElsewhere, PageTypes
  <1>r. ASSUME NEW u \in Users, RemoveRow(u) \/ AddRow(u) PROVE PageTypes'
    <2>1. row \in [Users -> Nat] /\ removals \in 0 .. MaxRemovals
      BY <1>t DEF PageTypes
    <2>2. PICK k \in Nat : row' = [row EXCEPT ![u] = k]
      BY <1>b, <1>r, <2>1 DEF RemoveRow, AddRow
    <2>3. row' \in [Users -> Nat]
      BY <2>1, <2>2
    <2>4. removals' \in 0 .. MaxRemovals
      BY <1>b, <1>r, <2>1 DEF RemoveRow, AddRow
    <2> QED
      BY <1>t, <1>r, <2>3, <2>4 DEF RemoveRow, AddRow, PageTypes
  <1>3. ASSUME NEW p \in Pages, ReadWatermark(p) PROVE PageTypes'
    <2>1. FurthestRead(Viewer[p]) \in Messages \union {0}
      BY FurthestReadIs, ViewerAssumption
    <2>2. mark' \in [Pages -> Messages \union {-1, 0}]
      BY <1>t, <1>3, <2>1 DEF ReadWatermark, PageTypes
    <2> QED
      BY <1>t, <1>3, <2>2 DEF ReadWatermark, PageTypes
  <1>4. ASSUME NEW p \in Pages, RenderList(p) PROVE PageTypes'
    <2>1. rows' \in [Pages -> Rows] /\ \A q \in Pages : listed'[q] <= Len(rows'[q])
      BY <1>4, RenderTypes
    <2>2. listed' \in [Pages -> Nat] /\ mark' \in [Pages -> Messages \union {-1, 0}]
      BY <1>t, <1>b, <1>4 DEF RenderList, PageTypes
    <2>3. socket' \in [Pages -> Sockets]
      BY <1>t, <1>4 DEF RenderList, PageTypes, Sockets
    <2> QED
      BY <1>t, <1>4, <2>1, <2>2, <2>3 DEF RenderList, PageTypes
  <1>5. ASSUME NEW p \in Pages, Connecting(p) PROVE PageTypes'
    <2>1. socket' \in [Pages -> Sockets]
      BY <1>t, <1>5 DEF Connecting, CheckMember, JoinGroup, Accept, Reconnect, PageTypes, Sockets
    <2>2. task' \in [Pages -> Tasks]
      BY <1>t, <1>b, <1>5, MarksIs DEF Connecting, CheckMember, JoinGroup, Accept, Reconnect,
         PageTypes
    <2> QED
      BY <1>t, <1>5, <2>1, <2>2 DEF Connecting, CheckMember, JoinGroup, Accept, Reconnect, PageTypes
  <1>6. ASSUME NEW p \in Pages, LoadRow(p) \/ SaveRow(p) \/ Receipt(p) PROVE PageTypes'
    <2>1. task' \in [Pages -> Tasks]
      <3>1. task \in [Pages -> Tasks] /\ Idle \in Tasks /\ row[Viewer[p]] \in Nat
        BY <1>t, ViewerAssumption DEF PageTypes, Tasks, Idle
      <3>2. PICK t \in Tasks : task' = [task EXCEPT ![p] = t]
        <4>1. [task[p] EXCEPT !.step = "save", !.pk = row[Viewer[p]]] \in Tasks
          BY <3>1 DEF Tasks
        <4>2. [task[p] EXCEPT !.step = "receipt"] \in Tasks
          BY <3>1 DEF Tasks
        <4> QED
          BY <1>6, <3>1, <4>1, <4>2 DEF LoadRow, SaveRow, Receipt
      <3> QED
        BY <3>1, <3>2
    <2> QED
      BY <1>t, <1>6, <2>1 DEF LoadRow, SaveRow, Receipt, AtStep, PageTypes
  <1>7. ASSUME NEW p \in Pages, HandleSeen(p) PROVE PageTypes'
    <2>1. inbox[p] \in Seq(Seens) /\ inbox[p] # <<>>
      BY <1>t, <1>7 DEF HandleSeen
    <2>2. Head(inbox[p]) \in Seens /\ Tail(inbox[p]) \in Seq(Seens)
      BY <2>1, HeadTailProperties
    <2>3. task' \in [Pages -> Tasks]
      BY <1>t, <1>7, <2>2, MarksIs DEF HandleSeen, PageTypes
    <2>4. inbox' \in [Pages -> Seq(Seens)]
      BY <1>t, <1>7, <2>2 DEF HandleSeen
    <2> QED
      BY <1>t, <1>7, <2>3, <2>4 DEF HandleSeen, PageTypes, Seens
  <1>8. ASSUME NEW p \in Pages, NewMessage(p) PROVE PageTypes'
    <2>1. Next1(p).msg \in Messages
      BY <1>8, EventTypes DEF NewMessage, Relays
    <2>2. Appends(p, Next1(p).msg)
      BY <1>8 DEF NewMessage, Appends
    <2>3. rows' \in [Pages -> Rows] /\ \A q \in Pages : listed'[q] <= Len(rows'[q])
      <3>1. rows' \in [Pages -> Rows] /\ Len(rows'[p]) = Len(rows[p]) + 1
            /\ \A q \in Pages \ {p} : rows'[q] = rows[q]
        BY <1>t, <2>1, <2>2, AppendedRow
      <3>2. UNCHANGED listed /\ listed \in [Pages -> Nat] /\ Len(rows[p]) \in Nat
            /\ \A q \in Pages : listed[q] <= Len(rows[q])
        BY <1>t, <1>8, LenProperties DEF NewMessage, Relays, PageTypes, Rows
      <3> QED
        BY <3>1, <3>2
    <2>4. inbox' \in [Pages -> Seq(Seens)]
      BY <1>t, <1>8, <2>1, InboxTypes DEF NewMessage, Seens
    <2> QED
      BY <1>t, <1>8, <2>3, <2>4 DEF NewMessage, Relays, PageTypes, Seens
  <1>9. ASSUME NEW p \in Pages, ReadReceipt(p) PROVE PageTypes'
    <2>1. Next1(p).msg \in Messages
      BY <1>9, EventTypes DEF ReadReceipt, Relays
    <2>2. PICK r : r = MarkMessagesAsSeen(p, Next1(p).msg)
      OBVIOUS
    <2>3. r \in Rows /\ Len(r) = Len(rows[p])
      BY <1>t, <2>1, <2>2, TickedRows
    <2>4. rows' = rows \/ rows' = [rows EXCEPT ![p] = r]
      BY <1>9, <2>2 DEF ReadReceipt
    <2>5. rows' \in [Pages -> Rows] /\ \A q \in Pages : Len(rows'[q]) = Len(rows[q])
      BY <1>t, <2>3, <2>4
    <2> QED
      BY <1>t, <1>9, <2>5 DEF ReadReceipt, Relays, PageTypes
  <1>10. ASSUME NEW p \in Pages, Hide(p) \/ Show(p) PROVE PageTypes'
    <2>1. inbox' \in [Pages -> Seq(Seens)]
      BY <1>t, <1>b, <1>10, InboxTypes DEF Hide, Show
    <2>2. hides' \in 0 .. MaxHides
      BY <1>t, <1>b, <1>10 DEF Hide, Show, PageTypes
    <2> QED
      BY <1>t, <1>10, <2>1, <2>2 DEF Hide, Show, PageTypes, Seens
  <1>11. ASSUME NEW p \in Pages, Ends(p) PROVE PageTypes'
    <2>0. Closes(p) /\ UNCHANGED <<author, row, removals, mark, rows, listed, visible, visits, hides>>
      BY <1>11 DEF Ends, Drop, SaveRaises, AtStep
    <2>1. inbox' \in [Pages -> Seq(Seens)]
      BY <1>t, <2>0, EmptySeq DEF Closes
    <2>2. task' \in [Pages -> Tasks]
      BY <1>t, <2>0 DEF Closes, PageTypes, Tasks, Idle
    <2>3. socket' \in [Pages -> Sockets]
      BY <1>t, <2>0 DEF Closes, PageTypes, Sockets
    <2>4. drops' \in 0 .. MaxDrops
      BY <1>t, <1>b, <1>11 DEF Ends, Drop, SaveRaises, AtStep, PageTypes
    <2> QED
      BY <1>t, <2>0, <2>1, <2>2, <2>3, <2>4 DEF PageTypes, Seens
  <1> QED
    BY <1>1, <1>2, <1>r, <1>3, <1>4, <1>5, <1>6, <1>7, <1>8, <1>9, <1>10, <1>11
       DEF Next, Relay, Marking, Ends

LEMMA CursorTypesKept ==
  ASSUME TypeOK, Next
  PROVE  CursorTypes'
  <1> USE DEF CursorTypes, connection
  <1>1. /\ CursorTypes /\ Len(wire) \in Nat /\ Len(wire') >= Len(wire) /\ Len(wire') \in Nat
    BY TypeParts, WireGrows, LogTypesKept, LenProperties DEF LogTypes
  <1>2. CASE cursor' = cursor
    BY <1>1, <1>2
  <1>3. ASSUME NEW p \in Pages, JoinGroup(p) \/ Ends(p) PROVE CursorTypes'
    <2>1. PICK c \in {0, Len(wire)} : cursor' = [cursor EXCEPT ![p] = c]
      BY <1>3 DEF JoinGroup, Ends, Drop, SaveRaises, Closes
    <2> QED
      BY <1>1, <2>1
  <1>4. ASSUME NEW p \in Pages, Relay(p) PROVE CursorTypes'
    BY <1>1, <1>4 DEF Relay, NewMessage, ReadReceipt, Relays
  <1> QED
    BY <1>2, <1>3, <1>4 DEF Next, Send, BroadcastMessage, ReadElsewhere, RemoveRow, AddRow,
       ReadWatermark, RenderList, Connecting, CheckMember, Accept, Reconnect, Marking, LoadRow,
       SaveRow, Receipt, HandleSeen, Hide, Show, Ends

-----------------------------------------------------------------------------
(* The messages and their events. *)

LEMMA CountedKept ==
  ASSUME TypeOK, Counted, Next
  PROVE  Counted'
  <1>1. Newest \in 0 .. MaxMessages /\ committed = 1 .. Newest /\ MaxMessages \in Nat
    BY NewestType, BoundsAssumption
  <1>2. CASE Sends
    <2>1. Newest + 1 \in 0 .. MaxMessages
      BY <1>1, <1>2 DEF Sends, Messages
    <2>2. committed' = 1 .. (Newest + 1)
      BY <1>1, <1>2 DEF Sends, CommitMessage
    <2> QED
      BY <2>1, <2>2 DEF Counted
  <1>3. CASE committed' = committed
    BY <1>1, <1>3 DEF Counted
  <1> QED
    BY <1>2, <1>3, LogSteps DEF Broadcasts, Broadcast, Marked, Reads, MarkRead, Forgets,
       Forget, LeavesLog, logVars

(* what an outbox and a wire that announce each message once are *)
OutboxOnce ==
    \A o \in outbox : o.event = "new" => o = Owed(o.msg, Event("new", o.msg, author[o.msg]))
NotYetOnWire ==
    \A o \in outbox : \A k \in DOMAIN wire :
        o.event = "new" /\ wire[k].event = "new" => o.msg # wire[k].msg
WireOnce ==
    \A j, k \in DOMAIN wire :
        wire[j].event = "new" /\ wire[k].event = "new" /\ wire[j].msg = wire[k].msg => j = k

LEMMA AnnouncedOnceKept ==
  ASSUME TypeOK, Counted, AnnouncedOnce, Next
  PROVE  AnnouncedOnce'
  <1> USE DEF AnnouncedOnce
  <1>1. wire \in Seq(Events) /\ Len(wire) \in Nat /\ DOMAIN wire = 1 .. Len(wire)
    BY TypeParts, LenProperties DEF LogTypes
  <1>2. author' = author
    BY LogSteps
  <1>3. CASE Sends
    <2>1. PICK m \in Messages : m = Newest + 1 /\ CommitMessage(m, m, author[m])
      BY <1>3 DEF Sends
    <2>2. m \notin committed
      BY <2>1, NewestType DEF Messages
    <2>3. \A k \in DOMAIN wire : wire[k].msg # m
      BY <2>2, OnWire
    <2>4. /\ outbox' = outbox \union {Owed(m, Event("new", m, author[m]))}
          /\ wire' = wire
      BY <2>1 DEF CommitMessage
    <2> QED
      BY <1>2, <2>3, <2>4 DEF Owed, Event
  <1>4. CASE Broadcasts
    <2>1. PICK o \in outbox : Broadcast(o)
      BY <1>4 DEF Broadcasts
    <2>2. Sent(o) \in Events /\ Sent(o).event = o.event /\ Sent(o).msg = o.msg
      BY TypeParts DEF LogTypes, Entries, Events, Sent, Event
    <2>3. /\ wire' = Append(wire, Sent(o)) /\ outbox' = outbox \ {o}
          /\ DOMAIN wire' = 1 .. Len(wire) + 1
          /\ \A k \in 1 .. Len(wire) : wire'[k] = wire[k]
          /\ wire'[Len(wire) + 1] = Sent(o)
      BY <1>1, <2>1, <2>2, AppendProperties, LenProperties DEF Broadcast
    <2>4. OutboxOnce'
      BY <1>2, <2>3 DEF OutboxOnce
    <2>5. ASSUME NEW a \in outbox', NEW k \in DOMAIN wire', a.event = "new", wire'[k].event = "new"
          PROVE  a.msg # wire'[k].msg
      <3>1. CASE k \in 1 .. Len(wire)
        BY <1>1, <2>3, <2>5, <3>1
      <3>2. CASE k = Len(wire) + 1
        <4>1. a \in outbox /\ a # o /\ o.event = "new"
          BY <2>2, <2>3, <2>5, <3>2
        <4>2. a.msg # o.msg
          BY <2>5, <4>1
        <4> QED
          BY <2>2, <2>3, <3>2, <4>2
      <3> QED
        BY <1>1, <2>3, <3>1, <3>2
    <2>6. ASSUME NEW j \in DOMAIN wire', NEW k \in DOMAIN wire', j < k,
                 wire'[j].event = "new", wire'[k].event = "new"
          PROVE  wire'[j].msg # wire'[k].msg
      <3>1. j \in 1 .. Len(wire)
        BY <1>1, <2>3, <2>6
      <3>2. CASE k \in 1 .. Len(wire)
        BY <1>1, <2>3, <2>6, <3>1, <3>2
      <3>3. CASE k = Len(wire) + 1
        BY <1>1, <2>2, <2>3, <2>6, <3>1, <3>3
      <3> QED
        BY <1>1, <2>3, <3>2, <3>3
    <2>7. WireOnce'
      BY <1>1, <2>3, <2>6 DEF WireOnce
    <2> QED
      BY <2>4, <2>5, <2>7 DEF OutboxOnce, WireOnce
  <1>5. ASSUME NEW u \in Users, NEW by, NEW m \in committed, Reads(by, m, u)
        PROVE  AnnouncedOnce'
    <2>1. outbox' = outbox \union {Owed(by, Event("receipt", m, u))} /\ wire' = wire
      BY <1>5 DEF Reads, MarkRead
    <2>2. Owed(by, Event("receipt", m, u)).event # "new"
      BY DEF Owed, Event
    <2> QED
      BY <1>2, <2>1, <2>2
  <1>6. CASE UNCHANGED <<outbox, wire>>
    BY <1>2, <1>6
  <1> QED
    BY <1>3, <1>4, <1>5, <1>6, LogSteps DEF Marked, Forgets, Forget, LeavesLog, logVars

LEMMA ReceiptsKept ==
  ASSUME TypeOK, ReceiptsAreTrue, Next
  PROVE  ReceiptsAreTrue'
  <1> USE DEF ReceiptsAreTrue
  <1>1. /\ wire \in Seq(Events) /\ Len(wire) \in Nat /\ DOMAIN wire = 1 .. Len(wire)
        /\ \A o \in outbox : o.user \in Users /\ o.msg \in Messages
        /\ \A k \in DOMAIN wire : wire[k].user \in Users /\ wire[k].msg \in Messages
    <2>1. \A o \in outbox : o.user \in Users /\ o.msg \in Messages
      BY TypeParts DEF LogTypes, Entries
    <2> QED
      BY <2>1, OnWire
  <1>2. \A u \in Users : reached'[u] >= reached[u] /\ reached[u] \in Nat /\ reached'[u] \in Nat
    BY ReachedGrows, LogTypesKept, TypeParts DEF LogTypes, Messages
  <1>3. ASSUME \A o \in outbox' : o \in outbox \/ o.event = "new", wire' = wire
        PROVE  ReceiptsAreTrue'
    BY <1>1, <1>2, <1>3 DEF Messages
  <1>4. CASE Sends
    BY <1>3, <1>4 DEF Sends, CommitMessage, Owed, Event
  <1>5. CASE Broadcasts
    <2>1. (\E o \in outbox : Broadcast(o)) /\ UNCHANGED reached
      BY <1>5 DEF Broadcasts
    <2>o. PICK o \in outbox : Broadcast(o)
      BY <2>1
    <2>2. Sent(o) \in Events /\ Sent(o).event = o.event /\ Sent(o).msg = o.msg
          /\ Sent(o).user = o.user
      BY TypeParts DEF LogTypes, Entries, Events, Sent, Event
    <2>3. /\ wire' = Append(wire, Sent(o)) /\ outbox' = outbox \ {o} /\ reached' = reached
          /\ DOMAIN wire' = 1 .. Len(wire) + 1
          /\ \A k \in 1 .. Len(wire) : wire'[k] = wire[k]
          /\ wire'[Len(wire) + 1] = Sent(o)
      BY <1>1, <2>1, <2>o, <2>2, AppendProperties, LenProperties DEF Broadcast
    <2> QED
      BY <1>1, <2>2, <2>3
  <1>6. ASSUME NEW u \in Users, NEW by, NEW m \in committed, Reads(by, m, u)
        PROVE  ReceiptsAreTrue'
    <2>1. outbox' = outbox \union {Owed(by, Event("receipt", m, u))} /\ wire' = wire
      BY <1>6 DEF Reads, MarkRead
    <2>2. m \in Nat
      BY DEF TypeOK, Messages
    <2>3. reached'[u] >= m
      BY <1>2, <1>6, <2>2 DEF Reads, TypeOK
    <2> QED
      BY <1>1, <1>2, <2>1, <2>2, <2>3 DEF Owed, Event, Messages
  <1>7. CASE UNCHANGED <<outbox, wire>>
    BY <1>3, <1>7
  <1> QED
    BY <1>4, <1>5, <1>6, <1>7, LogSteps DEF Marked, Forgets, Forget, LeavesLog, logVars

-----------------------------------------------------------------------------
(* The pages. *)

LEMMA OnPage ==
  ASSUME TypeOK, NEW p \in Pages
  PROVE  /\ rows[p] \in Rows /\ Len(rows[p]) \in Nat /\ DOMAIN rows[p] = 1 .. Len(rows[p])
         /\ listed[p] \in 0 .. Len(rows[p])
         /\ \A i \in DOMAIN rows[p] :
              rows[p][i].msg \in Messages /\ rows[p][i].seen \in BOOLEAN
  <1>1. rows[p] \in Seq(Row) /\ listed[p] \in Nat /\ listed[p] <= Len(rows[p])
    BY TypeParts DEF PageTypes, Rows, Row
  <1>2. Len(rows[p]) \in Nat /\ DOMAIN rows[p] = 1 .. Len(rows[p])
    BY <1>1, LenProperties
  <1>3. \A i \in DOMAIN rows[p] : rows[p][i] \in Row
    BY <1>1, <1>2, ElementOfSeq
  <1> QED
    BY <1>1, <1>2, <1>3 DEF Rows, Row

(* what a page shows and where its consumer is *)
view == <<mark, rows, listed, socket, cursor>>

(* Few steps change it. *)
LEMMA ViewSteps ==
  ASSUME Next
  PROVE  \/ UNCHANGED view
         \/ \E p \in Pages : \/ ReadWatermark(p) \/ RenderList(p)
                             \/ Connecting(p) \/ Ends(p)
                             \/ NewMessage(p) \/ ReadReceipt(p)
  BY DEF Next, Send, BroadcastMessage, ReadElsewhere, RemoveRow, AddRow, Marking, LoadRow,
         SaveRow, Receipt, AtStep, HandleSeen, Hide, Show, Relay, Ends, view, page, connection

(* what a connection that ends leaves behind *)
LEMMA EndsSteps ==
  ASSUME NEW p \in Pages, Ends(p)
  PROVE  /\ socket[p] \in {"connecting", "allowed", "joined", "open"} \/ task[p] # Idle
         /\ Closes(p)
         /\ UNCHANGED <<logVars, reached, author, row, mark, rows, listed, visible>>
  BY DEF Ends, Drop, SaveRaises, AtStep, members, page, Idle

LEMMA WatermarkKept ==
  ASSUME TypeOK, WatermarkIsTrue, Next
  PROVE  WatermarkIsTrue'
  <1> USE DEF WatermarkIsTrue, view, page, connection
  <1>1. \A u \in Users : /\ reached'[u] >= reached[u] /\ reached[u] \in Nat /\ reached'[u] \in Nat
                         /\ pointer[u] <= reached[u] /\ pointer[u] \in Nat
    BY ReachedGrows, LogTypesKept, TypeParts DEF LogTypes, Messages
  <1>2. \A p \in Pages : mark[p] \in Messages \union {-1, 0} /\ Viewer[p] \in Users
    BY ViewerAssumption DEF TypeOK
  <1>3. \A p \in Pages : mark[p] \in Int /\ Others(Viewer[p]) \subseteq Users
    BY <1>2 DEF Messages, Others
  <1>4. ASSUME NEW q \in Pages, mark'[q] = mark[q], mark[q] > 0
        PROVE  \E v \in Others(Viewer[q]) : reached'[v] >= mark'[q]
    BY <1>1, <1>3, <1>4
  <1>5. ASSUME \A q \in Pages : mark'[q] \in {mark[q], -1} PROVE WatermarkIsTrue'
    BY <1>3, <1>4, <1>5
  <1>6. ASSUME NEW p \in Pages, ReadWatermark(p) PROVE WatermarkIsTrue'
    <2>1. /\ FurthestRead(Viewer[p]) \in Messages \union {0}
          /\ FurthestRead(Viewer[p]) # 0 =>
               \E v \in Others(Viewer[p]) : pointer[v] = FurthestRead(Viewer[p])
      BY <1>2, FurthestReadIs
    <2>2. /\ mark'[p] = FurthestRead(Viewer[p]) /\ reached' = reached
          /\ \A q \in Pages \ {p} : mark'[q] = mark[q]
      BY <1>6 DEF ReadWatermark, TypeOK
    <2>3. mark'[p] > 0 => \E v \in Others(Viewer[p]) : reached'[v] >= mark'[p]
      BY <1>1, <1>3, <2>1, <2>2 DEF Messages
    <2> QED
      BY <1>4, <2>2, <2>3
  <1>7. ASSUME NEW p \in Pages, RenderList(p) PROVE WatermarkIsTrue'
    BY <1>5, <1>7 DEF RenderList, TypeOK
  <1> QED
    BY <1>5, <1>6, <1>7, ViewSteps, EndsSteps DEF Connecting, CheckMember, JoinGroup, Accept,
       Reconnect, NewMessage, ReadReceipt, Relays

(* How the rows of a page change: they are rendered, one is appended, or   *)
(* some are ticked. *)
Renders(p) ==
    /\ Len(rows'[p]) = Newest /\ listed'[p] = Newest
    /\ \A i \in 1 .. Newest :
         /\ rows'[p][i].msg = i
         /\ rows'[p][i].seen => i <= mark[p]
AppendsRow(p) ==
    /\ Len(rows'[p]) = Len(rows[p]) + 1 /\ listed'[p] = listed[p]
    /\ \A i \in DOMAIN rows[p] : rows'[p][i] = rows[p][i]
    /\ rows'[p][Len(rows[p]) + 1] = [msg |-> Next1(p).msg, seen |-> FALSE]
TicksRows(p) ==
    /\ Len(rows'[p]) = Len(rows[p]) /\ listed'[p] = listed[p]
    /\ \A i \in DOMAIN rows[p] :
         /\ rows'[p][i].msg = rows[p][i].msg
         /\ rows'[p][i].seen =>
              \/ rows[p][i].seen
              \/ /\ Next1(p).user # Viewer[p]
                 /\ \E j \in DOMAIN rows[p] : i <= j /\ rows[p][j].msg = Next1(p).msg

LEMMA RendersRows ==
  ASSUME TypeOK, Counted, NEW p \in Pages, RenderList(p)
  PROVE  Renders(p)
  <1>1. Newest \in Nat
    BY NewestType, BoundsAssumption
  <1>2. /\ rows'[p] = [m \in 1 .. Newest |-> [msg |-> m, seen |-> Own(p, m) /\ m <= mark[p]]]
        /\ listed'[p] = Newest
    BY DEF RenderList, TypeOK
  <1>3. DOMAIN rows'[p] = 1 .. Newest /\ rows'[p] \in Rows
    BY <1>2, RenderTypes
  <1>4. Len(rows'[p]) = Newest
    BY <1>1, <1>3, LenProperties DEF Rows
  <1>5. ASSUME NEW i \in 1 .. Newest
        PROVE  rows'[p][i].msg = i /\ (rows'[p][i].seen => i <= mark[p])
    <2>1. PICK b : b = (Own(p, i) /\ i <= mark[p])
      OBVIOUS
    <2>2. rows'[p][i] = [msg |-> i, seen |-> b]
      BY <1>2, <2>1
    <2>3. rows'[p][i].msg = i /\ rows'[p][i].seen = b
      BY <2>2
    <2> QED
      BY <2>1, <2>3, Zenon
  <1> QED
    BY <1>2, <1>4, <1>5 DEF Renders

LEMMA AppendsOneRow ==
  ASSUME TypeOK, NEW p \in Pages, NewMessage(p)
  PROVE  AppendsRow(p) /\ \A q \in Pages \ {p} : rows'[q] = rows[q]
  <1>1. Next1(p).msg \in Messages /\ Appends(p, Next1(p).msg) /\ rows \in [Pages -> Rows]
    BY EventTypes DEF NewMessage, Relays, Appends, TypeOK
  <1>2. UNCHANGED listed
    BY DEF NewMessage, Relays
  <1> QED
    BY <1>1, <1>2, AppendedRow, OnPage DEF AppendsRow

LEMMA TicksSomeRows ==
  ASSUME TypeOK, NEW p \in Pages, ReadReceipt(p)
  PROVE  TicksRows(p) /\ \A q \in Pages \ {p} : rows'[q] = rows[q]
  <1>1. Next1(p).msg \in Messages /\ rows \in [Pages -> Rows] /\ UNCHANGED listed
    BY EventTypes DEF ReadReceipt, Relays, TypeOK
  <1>2. CASE Concerns(p, Next1(p))
    <2>1. rows' = [rows EXCEPT ![p] = MarkMessagesAsSeen(p, Next1(p).msg)]
      BY <1>2 DEF ReadReceipt
    <2>2. rows'[p] = MarkMessagesAsSeen(p, Next1(p).msg) /\ \A q \in Pages \ {p} : rows'[q] = rows[q]
      BY <1>1, <2>1
    <2>3. PICK target : target = Target(p, Next1(p).msg)
      OBVIOUS
    <2>4. /\ Len(rows'[p]) = Len(rows[p])
          /\ \A i \in DOMAIN rows[p] :
               /\ rows'[p][i].msg = rows[p][i].msg
               /\ rows'[p][i].seen => \/ rows[p][i].seen
                                      \/ target # {} /\ i <= Min(target)
      BY <1>1, <2>2, <2>3, TickedRows
    <2>5. target # {} => /\ Min(target) \in DOMAIN rows[p]
                         /\ rows[p][Min(target)].msg = Next1(p).msg
      <3>1. target \in SUBSET Nat
        BY <2>3, OnPage DEF Target
      <3>2. target # {} => Min(target) \in target
        BY <3>1, MinOf
      <3> QED
        BY <2>3, <3>2 DEF Target
    <2> QED
      BY <1>1, <1>2, <2>2, <2>4, <2>5 DEF Concerns, TicksRows
  <1>3. CASE ~Concerns(p, Next1(p))
    BY <1>1, <1>3 DEF ReadReceipt, TicksRows
  <1> QED
    BY <1>2, <1>3

LEMMA RenderedFirstKept ==
  ASSUME TypeOK, TypeOK', Counted, RenderedFirst, WorksWhileOpen, Next
  PROVE  RenderedFirst'
  <1> USE DEF page, connection
  <1>d. \A q \in Pages : DOMAIN rows'[q] = 1 .. Len(rows'[q]) /\ Len(rows'[q]) \in Nat
    BY LenProperties DEF TypeOK, Rows
  <1>s. /\ mark \in [Pages -> Messages \union {-1, 0}] /\ socket \in [Pages -> Sockets]
        /\ rows \in [Pages -> Rows] /\ listed \in [Pages -> Nat]
    BY TypeParts DEF PageTypes
  (* what RenderedFirst says of one page *)
  <1> DEFINE Fine(q) == /\ mark[q] # -1 => socket[q] = "none"
                        /\ socket[q] = "none" => rows[q] = <<>> /\ listed[q] = 0
                        /\ \A i \in DOMAIN rows[q] : i <= listed[q] => rows[q][i].msg = i
  <1>f. \A q \in Pages : Fine(q)
    BY DEF RenderedFirst
  <1>g. SUFFICES \A q \in Pages : Fine(q)'
    BY DEF RenderedFirst
  <1>0. CASE UNCHANGED view
    BY <1>f, <1>0 DEF view
  <1>1. ASSUME NEW p \in Pages, ReadWatermark(p) PROVE \A q \in Pages : Fine(q)'
    BY <1>f, <1>s, <1>1 DEF ReadWatermark
  <1>2. ASSUME NEW p \in Pages, RenderList(p) PROVE \A q \in Pages : Fine(q)'
    <2>1. /\ mark'[p] = -1 /\ socket'[p] = "connecting" /\ Renders(p)
          /\ \A q \in Pages \ {p} : /\ mark'[q] = mark[q] /\ socket'[q] = socket[q]
                                    /\ rows'[q] = rows[q] /\ listed'[q] = listed[q]
      BY <1>s, <1>2, RendersRows DEF RenderList
    <2>2. Fine(p)'
      BY <1>d, <2>1 DEF Renders
    <2> QED
      BY <1>f, <2>1, <2>2
  <1>3. ASSUME NEW p \in Pages, Connecting(p) \/ Ends(p) PROVE \A q \in Pages : Fine(q)'
    <2>1. /\ socket[p] # "none" /\ socket'[p] # "none" /\ UNCHANGED page
          /\ \A q \in Pages \ {p} : socket'[q] = socket[q]
      <3>1. CASE Connecting(p)
        BY <1>s, <3>1 DEF Connecting, CheckMember, JoinGroup, Accept, Reconnect
      <3>2. CASE Ends(p)
        BY <1>s, <3>2, EndsSteps DEF Closes, WorksWhileOpen
      <3> QED
        BY <1>3, <3>1, <3>2
    <2> QED
      BY <1>f, <2>1
  <1>4. ASSUME NEW p \in Pages, UNCHANGED <<mark, listed, socket>>, socket[p] = "open",
               \A q \in Pages \ {p} : rows'[q] = rows[q],
               AppendsRow(p) \/ TicksRows(p)
        PROVE  \A q \in Pages : Fine(q)'
    <2>1. listed[p] <= Len(rows[p]) /\ listed[p] \in Nat /\ Len(rows[p]) \in Nat
          /\ DOMAIN rows[p] = 1 .. Len(rows[p])
      BY OnPage
    <2>2. \A i \in DOMAIN rows[p] : rows'[p][i].msg = rows[p][i].msg
      BY <1>4 DEF AppendsRow, TicksRows
    <2>3. \A i \in DOMAIN rows'[p] : i <= listed'[p] => i \in DOMAIN rows[p]
      BY <1>d, <1>4, <2>1
    <2>4. Fine(p)'
      BY <1>f, <1>4, <2>2, <2>3
    <2> QED
      BY <1>f, <1>4, <2>4
  <1>5. ASSUME NEW p \in Pages, NewMessage(p) \/ ReadReceipt(p) PROVE \A q \in Pages : Fine(q)'
    BY <1>4, <1>5, AppendsOneRow, TicksSomeRows DEF NewMessage, ReadReceipt, Relays, Ready
  <1> QED
    BY <1>0, <1>1, <1>2, <1>3, <1>5, ViewSteps

(* An event that p has passed stays passed: p joins the group at the end   *)
(* of the wire and reads on from there. *)
LEMMA PassedKept ==
  ASSUME TypeOK, Next, NEW p \in Pages, NEW m, Passed(p, m)
  PROVE  Passed(p, m)'
  <1> USE DEF page, connection
  <1>1. PICK k \in DOMAIN wire : /\ wire[k].event = "new" /\ wire[k].msg = m
                                 /\ InGroup(p) => k <= cursor[p]
    BY DEF Passed
  <1>2. Len(wire') \in Nat /\ DOMAIN wire' = 1 .. Len(wire')
    BY LogTypesKept, LenProperties DEF LogTypes
  <1>3. k \in DOMAIN wire' /\ wire'[k] = wire[k] /\ k \in 1 .. Len(wire)
    BY <1>2, OnWire, WireGrows
  <1>s. /\ socket \in [Pages -> Sockets] /\ cursor \in [Pages -> Nat]
    BY TypeParts DEF PageTypes, CursorTypes
  <1>4. InGroup(p)' => k <= cursor'[p]
    <2>0. CASE UNCHANGED <<socket, cursor>>
      BY <1>1, <2>0 DEF InGroup
    <2>1. ASSUME NEW q \in Pages,
                 RenderList(q) \/ CheckMember(q) \/ Accept(q) \/ Reconnect(q) \/ Ends(q)
          PROVE  InGroup(p)' => k <= cursor'[p]
      <3>1. InGroup(p)' => InGroup(p) /\ cursor'[p] = cursor[p]
        <4>1. CASE Ends(q)
          BY <1>s, <4>1, EndsSteps DEF Closes, InGroup
        <4>2. CASE RenderList(q) \/ CheckMember(q) \/ Accept(q) \/ Reconnect(q)
          BY <1>s, <4>2 DEF RenderList, CheckMember, Accept, Reconnect, InGroup
        <4> QED
          BY <2>1, <4>1, <4>2
      <3> QED
        BY <1>1, <3>1
    <2>2. ASSUME NEW q \in Pages, JoinGroup(q)
          PROVE  InGroup(p)' => k <= cursor'[p]
      <3>1. cursor'[p] = Len(wire) \/ (cursor'[p] = cursor[p] /\ (InGroup(p)' => InGroup(p)))
        BY <1>s, <2>2 DEF JoinGroup, InGroup
      <3> QED
        BY <1>1, <1>3, <3>1
    <2>3. ASSUME NEW q \in Pages, NewMessage(q) \/ ReadReceipt(q)
          PROVE  InGroup(p)' => k <= cursor'[p]
      <3>1. socket' = socket /\ cursor'[p] >= cursor[p] /\ cursor'[p] \in Nat
        BY <1>s, <2>3 DEF NewMessage, ReadReceipt, Relays
      <3> QED
        BY <1>1, <1>3, <1>s, <3>1 DEF InGroup
    <2> QED
      BY <2>0, <2>1, <2>2, <2>3, ViewSteps DEF Connecting, ReadWatermark, view
  <1> QED
    BY <1>1, <1>3, <1>4 DEF Passed

LEMMA AppendedOnceKept ==
  ASSUME TypeOK, TypeOK', Counted, AnnouncedOnce, RenderedFirst, AppendedOnce, Next
  PROVE  AppendedOnce'
  <1> USE DEF page, connection
  <1>d. \A q \in Pages : /\ DOMAIN rows'[q] = 1 .. Len(rows'[q]) /\ Len(rows'[q]) \in Nat
                         /\ listed'[q] \in Nat
    BY LenProperties DEF TypeOK, Rows
  (* what AppendedOnce says of one page *)
  <1> DEFINE Fine(q) ==
               /\ \A i \in DOMAIN rows[q] : listed[q] < i => Passed(q, rows[q][i].msg)
               /\ \A i, j \in DOMAIN rows[q] :
                    listed[q] < i /\ i < j => rows[q][i].msg # rows[q][j].msg
  <1>f. \A q \in Pages : Fine(q)
    BY DEF AppendedOnce
  <1>g. SUFFICES \A q \in Pages : Fine(q)'
    BY DEF AppendedOnce
  (* rows that keep their messages and their number *)
  <1>1. ASSUME NEW q \in Pages, Len(rows'[q]) = Len(rows[q]), listed'[q] = listed[q],
               \A i \in DOMAIN rows[q] : rows'[q][i].msg = rows[q][i].msg
        PROVE  Fine(q)'
    <2>1. DOMAIN rows'[q] = DOMAIN rows[q]
      BY <1>1, <1>d, OnPage
    <2>3. \A i \in DOMAIN rows'[q] : rows'[q][i].msg = rows[q][i].msg
      BY <1>1, <2>1
    <2>4. ASSUME NEW i \in DOMAIN rows'[q], listed'[q] < i PROVE Passed(q, rows[q][i].msg)'
      <3>1. PICK m : m = rows[q][i].msg
        OBVIOUS
      <3>2. Passed(q, m)'
        BY <1>1, <1>f, <2>1, <2>4, <3>1, PassedKept
      <3>3. rows'[q][i].msg = m
        BY <2>3, <3>1
      <3> QED
        BY <3>2, <3>3 DEF Passed
    <2>5. \A i, j \in DOMAIN rows'[q] :
             listed'[q] < i /\ i < j => rows'[q][i].msg # rows'[q][j].msg
      BY <1>1, <1>f, <2>1, <2>3
    <2> QED
      BY <2>4, <2>5
  <1>2. ASSUME NEW q \in Pages, rows'[q] = rows[q], listed'[q] = listed[q] PROVE Fine(q)'
    BY <1>1, <1>2
  <1>3. ASSUME NEW p \in Pages, RenderList(p) PROVE \A q \in Pages : Fine(q)'
    <2>1. /\ Renders(p)
          /\ \A q \in Pages \ {p} : rows'[q] = rows[q] /\ listed'[q] = listed[q]
      BY <1>3, RendersRows DEF RenderList, TypeOK
    <2>2. Fine(p)'
      BY <1>d, <2>1 DEF Renders
    <2> QED
      BY <1>2, <2>1, <2>2
  <1>4. ASSUME NEW p \in Pages, ReadReceipt(p) PROVE \A q \in Pages : Fine(q)'
    <2>1. TicksRows(p) /\ UNCHANGED listed /\ \A q \in Pages \ {p} : rows'[q] = rows[q]
      BY <1>4, TicksSomeRows DEF ReadReceipt, Relays
    <2> QED
      BY <1>1, <1>2, <2>1 DEF TicksRows
  <1>5. ASSUME NEW p \in Pages, NewMessage(p) PROVE \A q \in Pages : Fine(q)'
    <2>1. AppendsRow(p) /\ UNCHANGED <<listed, wire, socket>>
          /\ \A q \in Pages \ {p} : rows'[q] = rows[q]
      BY <1>5, AppendsOneRow DEF NewMessage, Relays, logVars
    <2>2. PICK m, c, n : m = Next1(p).msg /\ c = cursor[p] + 1 /\ n = Len(rows[p])
      OBVIOUS
    <2>3. /\ c \in DOMAIN wire /\ wire[c].event = "new" /\ wire[c].msg = m
          /\ cursor'[p] = c /\ cursor[p] \in Nat /\ InGroup(p)
      BY <1>5, <2>2, EventTypes, OnWire DEF NewMessage, Relays, Ready, InGroup, TypeOK
    <2>4. /\ n \in Nat /\ DOMAIN rows[p] = 1 .. n /\ DOMAIN rows'[p] = 1 .. n + 1
          /\ listed[p] \in 0 .. n
          /\ \A i \in 1 .. n : rows'[p][i].msg = rows[p][i].msg
          /\ rows'[p][n + 1].msg = m
      BY <1>d, <2>1, <2>2, OnPage DEF AppendsRow
    <2>5. Passed(p, m)'
      <3>1. c <= cursor'[p]
        BY <2>2, <2>3
      <3> QED
        BY <2>1, <2>3, <3>1 DEF Passed
    <2>6. \A i \in 1 .. n : listed[p] < i => Passed(p, rows[p][i].msg)
      BY <1>f, <2>4
    <2>7. ASSUME NEW i \in 1 .. n, listed[p] < i PROVE rows[p][i].msg # m
      <3>1. PICK k \in DOMAIN wire : /\ wire[k].event = "new" /\ wire[k].msg = rows[p][i].msg
                                     /\ k <= cursor[p]
        BY <2>3, <2>6, <2>7 DEF Passed
      <3>2. k # c
        BY <2>2, <2>3, <3>1, OnWire
      <3> QED
        BY <2>3, <3>1, <3>2 DEF AnnouncedOnce
    <2>8. ASSUME NEW i \in 1 .. n + 1, listed[p] < i PROVE Passed(p, rows[p][i].msg)'
      <3>1. CASE i \in 1 .. n
        <4>1. PICK a : a = rows[p][i].msg
          OBVIOUS
        <4>2. Passed(p, a)'
          BY <2>6, <2>8, <3>1, <4>1, PassedKept
        <4>3. rows'[p][i].msg = a
          BY <2>4, <3>1, <4>1
        <4> QED
          BY <4>2, <4>3 DEF Passed
      <3>2. CASE i = n + 1
        BY <2>4, <2>5, <3>2 DEF Passed
      <3> QED
        BY <2>4, <3>1, <3>2
    <2>9. ASSUME NEW i \in 1 .. n + 1, NEW j \in 1 .. n + 1, listed[p] < i, i < j
          PROVE  rows'[p][i].msg # rows'[p][j].msg
      <3>1. i \in 1 .. n
        BY <2>4, <2>9
      <3>2. CASE j \in 1 .. n
        BY <1>f, <2>4, <2>9, <3>1, <3>2
      <3>3. CASE j = n + 1
        BY <2>4, <2>7, <2>9, <3>1, <3>3
      <3> QED
        BY <2>4, <3>2, <3>3
    <2>10. Fine(p)'
      BY <2>1, <2>4, <2>8, <2>9
    <2> QED
      BY <1>2, <2>1, <2>10
  <1> QED
    BY <1>2, <1>3, <1>4, <1>5, ViewSteps, EndsSteps DEF view, ReadWatermark, Connecting,
       CheckMember, JoinGroup, Accept, Reconnect

LEMMA WorksWhileOpenKept ==
  ASSUME TypeOK, RenderedFirst, WorksWhileOpen, Next
  PROVE  WorksWhileOpen'
  <1> USE DEF WorksWhileOpen, page, connection
  <1>t. task \in [Pages -> Tasks] /\ socket \in [Pages -> Sockets]
    BY TypeParts DEF PageTypes
  <1>1. CASE UNCHANGED <<socket, task>>
    BY <1>1
  <1>2. ASSUME NEW p \in Pages, RenderList(p) \/ Connecting(p) PROVE WorksWhileOpen'
    BY <1>2, <1>t DEF RenderedFirst, RenderList, Connecting, CheckMember, JoinGroup, Accept,
       Reconnect
  <1>3. ASSUME NEW p \in Pages, LoadRow(p) \/ SaveRow(p) \/ Receipt(p) \/ HandleSeen(p)
        PROVE  WorksWhileOpen'
    <2>1. socket[p] = "open"
      BY <1>3 DEF LoadRow, SaveRow, Receipt, AtStep, HandleSeen, Ready, Idle
    <2>2. UNCHANGED socket /\ \A q \in Pages \ {p} : task'[q] = task[q]
      BY <1>3, <1>t DEF LoadRow, SaveRow, Receipt, HandleSeen
    <2> QED
      BY <2>1, <2>2
  <1>4. ASSUME NEW p \in Pages, Ends(p) PROVE WorksWhileOpen'
    BY <1>4, <1>t, EndsSteps DEF Closes
  <1> QED
    BY <1>1, <1>2, <1>3, <1>4 DEF Next, Send, BroadcastMessage, ReadElsewhere, RemoveRow, AddRow,
       ReadWatermark, Marking, Relay, NewMessage, ReadReceipt, Relays, Hide, Show, Ends

(* what SeenIsEarned says of a tick on page q *)
Earned(q, m) == \E v \in Others(Viewer[q]) : reached[v] >= m

LEMMA SeenIsEarnedKept ==
  ASSUME TypeOK, TypeOK', Counted, ReceiptsAreTrue, WatermarkIsTrue, SeenIsEarned, Next
  PROVE  SeenIsEarned'
  <1> USE DEF page, connection
  <1>d. \A q \in Pages : DOMAIN rows'[q] = 1 .. Len(rows'[q]) /\ Len(rows'[q]) \in Nat
    BY LenProperties DEF TypeOK, Rows
  <1>v. \A q \in Pages : Viewer[q] \in Users /\ Others(Viewer[q]) \subseteq Users
    BY ViewerAssumption DEF Others
  <1>p. \A u \in Users : reached'[u] >= reached[u] /\ reached[u] \in Nat /\ reached'[u] \in Nat
    BY ReachedGrows, LogTypesKept, TypeParts DEF LogTypes, Messages
  <1>e. ASSUME NEW q \in Pages, NEW m \in Nat, Earned(q, m) PROVE Earned(q, m)'
    BY <1>e, <1>v, <1>p DEF Earned
  <1> DEFINE Fine(q) == \A i \in DOMAIN rows[q] :
                          rows[q][i].seen => Earned(q, rows[q][i].msg) \/ OutOfOrder(q)
  <1>f. \A q \in Pages : Fine(q)
    BY DEF SeenIsEarned, Earned
  <1>g. SUFFICES \A q \in Pages : Fine(q)'
    BY DEF SeenIsEarned, Earned
  (* a page whose rows stay, or are followed by an unread one *)
  <1>1. ASSUME NEW q \in Pages, Len(rows'[q]) >= Len(rows[q]),
               \A i \in DOMAIN rows[q] : rows'[q][i].msg = rows[q][i].msg,
               OutOfOrder(q)
        PROVE  OutOfOrder(q)'
    <2>1. DOMAIN rows[q] \subseteq DOMAIN rows'[q]
      BY <1>1, <1>d, OnPage
    <2> QED
      BY <1>1, <2>1 DEF OutOfOrder
  <1>2. ASSUME NEW q \in Pages, NEW i \in DOMAIN rows[q], rows[q][i].seen,
               Len(rows'[q]) >= Len(rows[q]),
               \A j \in DOMAIN rows[q] : rows'[q][j].msg = rows[q][j].msg
        PROVE  Earned(q, rows[q][i].msg)' \/ OutOfOrder(q)'
    <2>1. PICK m \in Messages : m = rows[q][i].msg
      BY OnPage
    <2>2. Earned(q, m)' \/ OutOfOrder(q)'
      BY <1>1, <1>2, <1>e, <1>f, <2>1 DEF Messages
    <2> QED
      BY <1>2, <2>1, <2>2 DEF Earned
  <1>3. ASSUME NEW q \in Pages, rows'[q] = rows[q] PROVE Fine(q)'
    BY <1>2, <1>3, OnPage
  <1>4. ASSUME NEW p \in Pages, RenderList(p) PROVE \A q \in Pages : Fine(q)'
    <2>1. Renders(p) /\ UNCHANGED reached /\ \A q \in Pages \ {p} : rows'[q] = rows[q]
      BY <1>4, RendersRows DEF RenderList, TypeOK
    <2>2. ASSUME NEW i \in DOMAIN rows'[p], rows'[p][i].seen PROVE Earned(p, rows[p][i].msg)'
      <3>1. /\ i \in 1 .. Newest /\ Newest \in Nat /\ rows'[p][i].msg = i /\ i <= mark[p]
            /\ mark[p] \in Int
        <4>1. mark[p] \in Int /\ Newest \in Nat
          <5>1. mark[p] \in Messages \union {-1, 0}
            BY DEF TypeOK
          <5> QED
            BY <5>1, NewestType, BoundsAssumption DEF Messages
        <4>2. i \in 1 .. Newest
          BY <1>d, <2>1, <2>2 DEF Renders
        <4> QED
          BY <2>1, <2>2, <4>1, <4>2 DEF Renders
      <3>2. PICK v \in Others(Viewer[p]) : reached[v] >= mark[p]
        BY <3>1 DEF WatermarkIsTrue
      <3>3. reached'[v] >= i
        BY <1>v, <1>p, <2>1, <3>1, <3>2
      <3> QED
        BY <3>1, <3>3 DEF Earned
    <2> QED
      BY <1>3, <2>1, <2>2
  <1>5. ASSUME NEW p \in Pages, NewMessage(p) PROVE \A q \in Pages : Fine(q)'
    <2>1. AppendsRow(p) /\ \A q \in Pages \ {p} : rows'[q] = rows[q]
      BY <1>5, AppendsOneRow
    <2>2. ASSUME NEW i \in DOMAIN rows'[p], rows'[p][i].seen
          PROVE  i \in DOMAIN rows[p] /\ rows[p][i].seen
      <3>1. i \in DOMAIN rows[p] \/ i = Len(rows[p]) + 1
        BY <1>d, <2>1, OnPage DEF AppendsRow
      <3>2. i # Len(rows[p]) + 1
        BY <2>1, <2>2 DEF AppendsRow
      <3> QED
        BY <2>1, <2>2, <3>1, <3>2 DEF AppendsRow
    <2>3. Fine(p)'
      BY <1>2, <2>1, <2>2, OnPage DEF AppendsRow
    <2> QED
      BY <1>3, <2>1, <2>3
  <1>6. ASSUME NEW p \in Pages, ReadReceipt(p) PROVE \A q \in Pages : Fine(q)'
    <2>1. TicksRows(p) /\ \A q \in Pages \ {p} : rows'[q] = rows[q]
      BY <1>6, TicksSomeRows
    <2>2. DOMAIN rows'[p] = DOMAIN rows[p]
      BY <1>d, <2>1, OnPage DEF TicksRows
    <2>3. PICK e : e = Next1(p)
      OBVIOUS
    <2>4. /\ e.user \in Users /\ e.msg \in Messages /\ reached[e.user] >= e.msg
      <3>1. cursor[p] + 1 \in DOMAIN wire /\ e = wire[cursor[p] + 1] /\ e.event = "receipt"
            /\ e.user \in Users /\ e.msg \in Messages
        BY <1>6, <2>3, EventTypes, OnWire DEF ReadReceipt, Relays
      <3> QED
        BY <3>1 DEF ReceiptsAreTrue
    <2>5. ASSUME NEW i \in DOMAIN rows'[p], rows'[p][i].seen, ~rows[p][i].seen
          PROVE  Earned(p, rows[p][i].msg)' \/ OutOfOrder(p)'
      <3>1. PICK j \in DOMAIN rows[p] : i <= j /\ rows[p][j].msg = e.msg
        BY <2>1, <2>2, <2>3, <2>5 DEF TicksRows
      <3>2. e.user \in Others(Viewer[p])
        BY <2>1, <2>2, <2>3, <2>4, <2>5 DEF TicksRows, Others
      <3>3. PICK m \in Messages : m = rows[p][i].msg
        BY <2>2, OnPage
      <3>4. CASE m <= e.msg
        <4>1. reached[e.user] >= m /\ m \in Nat
          BY <1>p, <2>4, <3>4 DEF Messages
        <4>2. Earned(p, m)'
          BY <1>e, <3>2, <4>1 DEF Earned
        <4> QED
          BY <2>1, <2>2, <3>3, <4>2 DEF TicksRows, Earned
      <3>5. CASE m > e.msg
        <4>1. i < j
          <5>1. i # j /\ i \in Nat /\ j \in Nat
            BY <2>2, <2>4, <3>1, <3>3, <3>5, OnPage DEF Messages
          <5> QED
            BY <3>1, <5>1
        <4>2. OutOfOrder(p)
          BY <2>2, <3>1, <3>3, <3>5, <4>1 DEF OutOfOrder
        <4> QED
          BY <1>1, <2>1, <4>2, OnPage DEF TicksRows
      <3> QED
        BY <2>4, <3>4, <3>5 DEF Messages
    <2>6. Fine(p)'
      BY <1>2, <2>1, <2>2, <2>5, OnPage DEF TicksRows
    <2> QED
      BY <1>3, <2>1, <2>6
  <1> QED
    BY <1>3, <1>4, <1>5, <1>6, ViewSteps, EndsSteps DEF view, ReadWatermark, Connecting,
       CheckMember, JoinGroup, Accept, Reconnect

-----------------------------------------------------------------------------
LEMMA InitInv == Init => Inv
  <1> SUFFICES ASSUME Init PROVE Inv
    OBVIOUS
  <1> USE BoundsAssumption DEF Init
  <1>1. TypeOK
    <2>1. wire \in Seq(Events) /\ rows \in [Pages -> Rows] /\ inbox \in [Pages -> Seq(Seens)]
      BY EmptySeq DEF Rows
    <2>2. \A p \in Pages : Len(rows[p]) = 0 /\ Len(wire) = 0
      BY EmptySeq
    <2>3. LogTypes
      BY <2>1 DEF LogTypes
    <2>4. PageTypes
      BY <2>1, <2>2 DEF PageTypes, Seens, Sockets, Tasks, Idle
    <2>5. CursorTypes
      BY <2>2 DEF CursorTypes
    <2> QED
      BY <2>3, <2>4, <2>5, TypeParts
  <1>2. Counted
    <2>1. committed = 1 .. 0
      OBVIOUS
    <2> QED
      BY <2>1 DEF Counted
  <1>3. DOMAIN wire = {} /\ \A p \in Pages : DOMAIN rows[p] = {}
    <2>1. DOMAIN << >> = {}
      OBVIOUS
    <2> QED
      BY <2>1
  <1>4. AnnouncedOnce /\ ReceiptsAreTrue
    BY <1>3 DEF AnnouncedOnce, ReceiptsAreTrue
  <1>5. WatermarkIsTrue /\ RenderedFirst /\ WorksWhileOpen
    BY <1>3 DEF WatermarkIsTrue, RenderedFirst, WorksWhileOpen
  <1>6. AppendedOnce /\ SeenIsEarned
    BY <1>3 DEF AppendedOnce, SeenIsEarned
  <1> QED
    BY <1>1, <1>2, <1>4, <1>5, <1>6 DEF Inv

LEMMA NextInv == Inv /\ [Next]_vars => Inv'
  <1> SUFFICES ASSUME Inv, [Next]_vars PROVE Inv'
    OBVIOUS
  <1>1. CASE Next
    <2> USE <1>1 DEF Inv
    <2>1. TypeOK'
      <3>1. LogTypes' /\ PageTypes' /\ CursorTypes'
        BY LogTypesKept, PageTypesKept, CursorTypesKept
      <3> QED
        BY <3>1 DEF TypeOK, LogTypes, PageTypes, CursorTypes, Entries, Events, Types,
                    Sockets, Tasks
    <2>2. Counted' /\ AnnouncedOnce' /\ ReceiptsAreTrue'
      BY CountedKept, AnnouncedOnceKept, ReceiptsKept
    <2>3. WatermarkIsTrue' /\ RenderedFirst' /\ AppendedOnce'
      BY <2>1, WatermarkKept, RenderedFirstKept, AppendedOnceKept
    <2>4. WorksWhileOpen'
      BY WorksWhileOpenKept
    <2>5. SeenIsEarned'
      BY <2>1, SeenIsEarnedKept
    <2> QED
      BY <2>1, <2>2, <2>3, <2>4, <2>5
  <1>2. CASE UNCHANGED vars
    BY <1>2 DEF vars, logVars, page, connection, members, bounds, Inv, TypeOK, Counted, AnnouncedOnce,
         ReceiptsAreTrue, WatermarkIsTrue, RenderedFirst, AppendedOnce, Passed, InGroup,
         WorksWhileOpen, SeenIsEarned, OutOfOrder
  <1> QED
    BY <1>1, <1>2

(* Every reachable state is well typed. *)
THEOREM TypeCorrect == Spec => []TypeOK
  <1>1. Inv => TypeOK
    BY DEF Inv
  <1> QED
    BY <1>1, InitInv, NextInv, PTL DEF Spec

LEMMA InvTwice == Inv => TwiceOnlyIfListed
  <1> SUFFICES ASSUME Inv, NEW p \in Pages,
                      NEW i \in DOMAIN rows[p], NEW j \in DOMAIN rows[p],
                      i < j, rows[p][i].msg = rows[p][j].msg
               PROVE  i <= listed[p] /\ listed[p] < j
    BY DEF TwiceOnlyIfListed
  <1>1. i \in Nat /\ j \in Nat /\ listed[p] \in Nat
    BY OnPage DEF Inv
  <1>2. i <= listed[p]
    BY <1>1 DEF Inv, AppendedOnce
  <1>3. listed[p] < j
    BY <1>1, <1>2 DEF Inv, RenderedFirst
  <1> QED
    BY <1>2, <1>3

(* A page shows a message twice only if it was rendered with it and the    *)
(* broadcast came after the socket had joined the group; drops, reconnects *)
(* and the order of the events never repeat a row.                         *)
THEOREM RowsAreRepeatedOnce == Spec => []TwiceOnlyIfListed
  <1> QED
    BY InvTwice, InitInv, NextInv, PTL DEF Spec

(* A row is ticked only if somebody else has read its message at some time *)
(* -- a stale save or the removal of that participant may have taken it    *)
(* back since -- unless the rows of the page are out of order.             *)
THEOREM TicksAreEarned == Spec => []SeenIsEarned
  <1>1. Inv => SeenIsEarned
    BY DEF Inv
  <1> QED
    BY <1>1, InitInv, NextInv, PTL DEF Spec

-----------------------------------------------------------------------------
(* The pages and their consumers use the services as MessageLog allows.    *)

LEMMA InitFollowsLog == Init => LogInit
  BY DEF Init, LogInit

LEMMA StepFollowsLog == Inv /\ [Next]_vars => [LogNext]_logVars
  <1> SUFFICES ASSUME Inv, [Next]_vars PROVE LogNext \/ UNCHANGED logVars
    OBVIOUS
  <1>t. TypeOK
    BY DEF Inv
  <1>1. CASE Sends
    <2>1. PICK m \in Messages : m = Newest + 1 /\ CommitMessage(m, m, author[m])
      BY <1>1 DEF Sends
    <2>2. m \in committed' \ committed
      BY <2>1, NewestType DEF Inv, CommitMessage, Messages
    <2>3. m \in Callers /\ author[m] \in Users
      BY <1>t, CallersAssumption DEF TypeOK
    <2> QED
      BY <2>1, <2>2, <2>3 DEF LogNext
  <1>2. CASE Broadcasts
    BY <1>2 DEF Broadcasts, LogNext
  <1>3. CASE Marked
    <2>1. PICK u \in Users : \E by \in {u} \union Pages : \E m \in committed : MarkRead(by, m, u)
      BY <1>3 DEF Marked, Reads
    <2>2. {u} \union Pages \subseteq Callers
      BY CallersAssumption
    <2> QED
      BY <2>1, <2>2 DEF LogNext
  <1>4. CASE Forgets
    BY <1>4 DEF Forgets, LogNext
  <1>5. CASE LeavesLog \/ UNCHANGED vars
    BY <1>5 DEF LeavesLog, vars
  <1> QED
    BY <1>t, <1>1, <1>2, <1>3, <1>4, <1>5, LogSteps

(* Whatever the pages, their consumers, other clients and the removals do  *)
(* to the messages and the pointers is a behaviour of MessageLog: LiveChat *)
(* asks no more of the services than they are shown to promise.            *)
THEOREM PagesFollowLog == Spec => LogSpec
  <1> QED
    BY InitInv, NextInv, InitFollowsLog, StepFollowsLog, PTL DEF Spec, LogSpec

-----------------------------------------------------------------------------
(* What DeliveredWhileJoined and SeenIsRecorded say of a single step: what *)
(* they wait for is not lost on the way, so that it is enough that the     *)
(* consumer runs.                                                          *)

(* An event that waits for a page of the group is neither skipped nor      *)
(* forgotten, hidden or not, and a row stays: until the socket closes, the *)
(* message is waiting or on the page.                                      *)
NothingIsSkipped ==
    [][\A p \in Pages : \A m \in Messages :
         /\ InGroup(p) /\ Waiting(p, m) =>
              \/ socket'[p] = "closed"
              \/ (InGroup(p) /\ Waiting(p, m))'
              \/ Shown(p, m)'
         /\ Shown(p, m) => Shown(p, m)']_vars

LEMMA WaitingStep ==
  ASSUME Inv, Next, NEW p \in Pages, NEW m \in Messages, InGroup(p), Waiting(p, m)
  PROVE  socket'[p] = "closed" \/ (InGroup(p) /\ Waiting(p, m))' \/ Shown(p, m)'
  <1> USE DEF page, connection
  <1>t. TypeOK /\ socket \in [Pages -> Sockets] /\ cursor \in [Pages -> Nat]
    BY TypeParts DEF Inv, PageTypes, CursorTypes
  <1>1. PICK k \in cursor[p] + 1 .. Len(wire) : wire[k].event = "new" /\ wire[k].msg = m
    BY DEF Waiting
  <1>2. /\ k \in 1 .. Len(wire) /\ Len(wire) \in Nat /\ cursor[p] \in Nat /\ k > cursor[p]
        /\ Len(wire') \in Nat /\ Len(wire') >= Len(wire)
        /\ wire'[k] = wire[k]
    BY <1>1, <1>t, OnWire, WireGrows, LogTypesKept, LenProperties DEF LogTypes
  <1>3. ASSUME cursor'[p] = cursor[p] \/ (cursor'[p] = cursor[p] + 1 /\ k # cursor[p] + 1)
        PROVE  Waiting(p, m)'
    <2>1. k \in cursor'[p] + 1 .. Len(wire')
      BY <1>2, <1>3
    <2> QED
      BY <1>1, <1>2, <2>1 DEF Waiting
  <1>4. CASE UNCHANGED view
    BY <1>3, <1>4 DEF view, InGroup
  <1>e. ASSUME NEW q \in Pages, Ends(q)
        PROVE  socket'[p] = "closed" \/ (InGroup(p) /\ Waiting(p, m))'
    <2>1. CASE q = p
      BY <1>e, <1>t, <2>1, EndsSteps DEF Closes
    <2>2. CASE q # p
      <3>1. socket'[p] = socket[p] /\ cursor'[p] = cursor[p]
        BY <1>e, <1>t, <2>2, EndsSteps DEF Closes
      <3> QED
        BY <1>3, <3>1 DEF InGroup
    <2> QED
      BY <2>1, <2>2
  <1>5. ASSUME NEW q \in Pages, ReadWatermark(q) \/ RenderList(q) \/ Connecting(q)
        PROVE  socket'[p] = "closed" \/ (InGroup(p) /\ Waiting(p, m))'
    <2>1. RenderList(q) => socket[q] = "none"
      BY DEF RenderList, Inv, RenderedFirst
    <2>2. CASE q = p
      BY <1>3, <1>5, <1>t, <2>1, <2>2 DEF ReadWatermark, RenderList, Connecting, CheckMember,
           JoinGroup, Accept, Reconnect, InGroup
    <2>3. CASE q # p
      <3>1. socket'[p] = socket[p] /\ cursor'[p] = cursor[p]
        BY <1>5, <1>t, <2>3 DEF ReadWatermark, RenderList, Connecting, CheckMember, JoinGroup,
             Accept, Reconnect
      <3> QED
        BY <1>3, <3>1 DEF InGroup
    <2> QED
      BY <2>2, <2>3
  <1>6. ASSUME NEW q \in Pages, NewMessage(q) \/ ReadReceipt(q)
        PROVE  (InGroup(p) /\ Waiting(p, m))' \/ Shown(p, m)'
    <2>1. /\ UNCHANGED socket /\ cursor'[p] \in {cursor[p], cursor[p] + 1}
          /\ cursor'[p] # cursor[p] => q = p
      BY <1>6, <1>t DEF NewMessage, ReadReceipt, Relays
    <2>2. CASE cursor'[p] = cursor[p] \/ k # cursor[p] + 1
      BY <1>3, <2>1, <2>2 DEF InGroup
    <2>3. CASE cursor'[p] = cursor[p] + 1 /\ k = cursor[p] + 1
      <3>1. q = p /\ Next1(p).event = "new" /\ Next1(p).msg = m
        BY <1>1, <1>2, <2>1, <2>3 DEF Next1
      <3>2. NewMessage(p)
        BY <1>6, <3>1 DEF ReadReceipt, Relays
      <3>3. AppendsRow(p)
        BY <1>t, <3>2, AppendsOneRow
      <3>4. rows'[p][Len(rows[p]) + 1].msg = m
        BY <3>1, <3>3 DEF AppendsRow
      <3>5. Len(rows[p]) + 1 \in DOMAIN rows'[p]
        <4>1. PageTypes'
          BY <1>t, PageTypesKept DEF Inv
        <4>2. DOMAIN rows'[p] = 1 .. Len(rows'[p])
          BY <4>1, LenProperties DEF PageTypes, Rows
        <4> QED
          BY <1>t, <3>3, <4>2, OnPage DEF AppendsRow
      <3> QED
        BY <3>4, <3>5 DEF Shown
    <2> QED
      BY <2>1, <2>2, <2>3
  <1> QED
    BY <1>4, <1>e, <1>5, <1>6, ViewSteps

LEMMA ShownStep ==
  ASSUME Inv, Next, NEW p \in Pages, NEW m \in Messages, Shown(p, m)
  PROVE  Shown(p, m)'
  <1> USE DEF page, connection
  <1>1. PICK i \in DOMAIN rows[p] : rows[p][i].msg = m
    BY DEF Shown
  <1>2. TypeOK /\ RenderedFirst /\ Counted
    BY DEF Inv
  <1>3. DOMAIN rows'[p] = 1 .. Len(rows'[p]) /\ Len(rows'[p]) \in Nat
    BY <1>2, PageTypesKept, LenProperties DEF PageTypes, Rows
  <1>4. CASE rows'[p] = rows[p]
    BY <1>1, <1>4 DEF Shown
  <1>5. ASSUME NEW q \in Pages, RenderList(q) PROVE rows'[p] = rows[p]
    <2>1. socket[q] = "none" /\ rows[q] = <<>>
      BY <1>2, <1>5 DEF RenderList, RenderedFirst
    <2>2. q # p
      BY <1>1, <2>1
    <2> QED
      BY <1>2, <1>5, <2>2 DEF RenderList, TypeOK
  <1>6. ASSUME NEW q \in Pages, NewMessage(q) \/ ReadReceipt(q) PROVE Shown(p, m)'
    <2>1. CASE q # p
      BY <1>2, <1>4, <1>6, <2>1, AppendsOneRow, TicksSomeRows
    <2>2. CASE q = p
      <3>1. AppendsRow(p) \/ TicksRows(p)
        BY <1>2, <1>6, <2>2, AppendsOneRow, TicksSomeRows
      <3>2. i \in DOMAIN rows'[p] /\ rows'[p][i].msg = m
        BY <1>1, <1>2, <1>3, <3>1, OnPage DEF AppendsRow, TicksRows
      <3> QED
        BY <3>2 DEF Shown
    <2> QED
      BY <2>1, <2>2
  <1> QED
    BY <1>4, <1>5, <1>6, ViewSteps, EndsSteps DEF view, ReadWatermark, Connecting,
       CheckMember, JoinGroup, Accept, Reconnect

(* No interleaving of broadcasts, receipts, markings and visibility        *)
(* changes makes a page of the group miss a message.                       *)
THEOREM GroupMissesNothing == Spec => NothingIsSkipped
  <1> DEFINE Kept == \A p \in Pages : \A m \in Messages :
                       /\ InGroup(p) /\ Waiting(p, m) =>
                            \/ socket'[p] = "closed"
                            \/ (InGroup(p) /\ Waiting(p, m))'
                            \/ Shown(p, m)'
                       /\ Shown(p, m) => Shown(p, m)'
  <1>1. Inv /\ [Next]_vars => [Kept]_vars
    BY WaitingStep, ShownStep
  <1> QED
    BY <1>1, InitInv, NextInv, PTL DEF Spec, NothingIsSkipped
-----------------------------------------------------------------------------
(* A 'seen' is on its way, or its marking has begun and is not saved yet. *)
Pending(p, m) ==
    \/ \E i \in DOMAIN inbox[p] : inbox[p][i] = m
    \/ task[p].step \in {"load", "save"} /\ task[p].msg = m

(* A 'seen' that has been sent is on its way until the user's pointer is   *)
(* that far, the socket closes or the user has no row any more: no other   *)
(* 'seen', connect or reader on another tab makes the consumer forget it.  *)
SeenIsKept ==
    [][\A p \in Pages : \A m \in Messages :
         Pending(p, m) =>
            \/ socket'[p] = "closed"
            \/ Pending(p, m)'
            \/ (pointer[Viewer[p]] >= m)'
            \/ row[Viewer[p]] = 0]_vars

(* what is done to a user elsewhere *)
Serves(u) == ReadElsewhere(u) \/ RemoveRow(u) \/ AddRow(u)

(* What becomes of the 'seen' events that wait for a consumer. *)
LEMMA InboxSteps ==
  ASSUME Inv, Next, NEW p \in Pages
  PROVE  \/ inbox'[p] = inbox[p]
         \/ \E m \in Seens : inbox'[p] = Append(inbox[p], m)
         \/ HandleSeen(p)
         \/ socket'[p] = "closed"
  <1> USE DEF page, connection, Seens
  <1>t. /\ inbox \in [Pages -> Seq(Messages \union {LATEST})]
        /\ socket \in [Pages -> Sockets] /\ TypeOK
    BY TypeParts DEF Inv, PageTypes
  <1>1. ASSUME NEW q \in Pages, NEW m \in Seens, Emit(q, m)
        PROVE  inbox'[p] = inbox[p] \/ inbox'[p] = Append(inbox[p], m)
    BY <1>t, <1>1 DEF Emit
  <1>2. ASSUME NEW q \in Pages, NewMessage(q) \/ ReadReceipt(q)
        PROVE  inbox'[p] = inbox[p] \/ \E m \in Seens : inbox'[p] = Append(inbox[p], m)
    <2>1. Next1(q).msg \in Seens
      BY <1>t, <1>2, EventTypes DEF NewMessage, ReadReceipt, Relays
    <2>2. Emit(q, Next1(q).msg) \/ UNCHANGED inbox
      BY <1>2 DEF NewMessage, ReadReceipt
    <2> QED
      BY <1>1, <2>1, <2>2
  <1>3. ASSUME NEW q \in Pages, Show(q)
        PROVE  inbox'[p] = inbox[p] \/ \E m \in Seens : inbox'[p] = Append(inbox[p], m)
    BY <1>1, <1>3 DEF Show
  <1>4. ASSUME NEW q \in Pages, HandleSeen(q) PROVE HandleSeen(p) \/ inbox'[p] = inbox[p]
    BY <1>t, <1>4 DEF HandleSeen
  <1>5. ASSUME NEW q \in Pages, Ends(q) PROVE socket'[p] = "closed" \/ inbox'[p] = inbox[p]
    BY <1>t, <1>5, EndsSteps DEF Closes
  <1>6. ASSUME NEW q \in Pages,
               \/ ReadWatermark(q) \/ RenderList(q) \/ Connecting(q) \/ LoadRow(q)
               \/ SaveRow(q) \/ Receipt(q) \/ Hide(q)
        PROVE  inbox'[p] = inbox[p]
    BY <1>6 DEF ReadWatermark, RenderList, Connecting, CheckMember, JoinGroup, Accept, Reconnect,
       LoadRow, SaveRow, Receipt, Hide
  <1>7. ASSUME Send \/ BroadcastMessage \/ \E u \in Users : Serves(u) PROVE inbox'[p] = inbox[p]
    BY <1>7 DEF Send, BroadcastMessage, Serves, ReadElsewhere, RemoveRow, AddRow
  <1> QED
    BY <1>2, <1>3, <1>4, <1>5, <1>6, <1>7 DEF Next, Relay, Marking, Ends, Serves

LEMMA SeenStep ==
  ASSUME Inv, Next, NEW p \in Pages, NEW m \in Messages, Pending(p, m)
  PROVE  \/ socket'[p] = "closed" \/ Pending(p, m)' \/ pointer'[Viewer[p]] >= m
         \/ row[Viewer[p]] = 0
  <1> USE DEF page, connection, Seens
  <1>t. /\ inbox[p] \in Seq(Seens) /\ socket \in [Pages -> Sockets] /\ TypeOK /\ Counted
        /\ task \in [Pages -> Tasks] /\ Viewer[p] \in Users
        /\ pointer \in [Users -> Messages \union {0}]
    BY TypeParts, ViewerAssumption DEF Inv, PageTypes, LogTypes
  <1>n. m \in Nat \ {0} /\ m # LATEST /\ pointer[Viewer[p]] \in Nat
    BY <1>t, BoundsAssumption DEF Messages, LATEST
  <1>2. ASSUME task[p].step \in {"load", "save"}, task[p].msg = m
        PROVE  \/ socket'[p] = "closed" \/ Pending(p, m)' \/ pointer'[Viewer[p]] >= m
               \/ row[Viewer[p]] = 0
    <2>1. task[p] # Idle /\ socket[p] = "open"
      <3>1. task[p] # Idle
        BY <1>2 DEF Idle
      <3> QED
        BY <3>1 DEF Inv, WorksWhileOpen
    <2>2. CASE task'[p] = task[p]
      BY <1>2, <2>2 DEF Pending
    <2>3. CASE LoadRow(p)
      <3>1. CASE row[Viewer[p]] # 0 /\ m > pointer[Viewer[p]]
        <4>1. task'[p] = [task[p] EXCEPT !.step = "save", !.pk = row[Viewer[p]]]
          BY <1>2, <1>t, <2>3, <3>1 DEF LoadRow, MovesForward
        <4>2. task'[p].step = "save" /\ task'[p].msg = m
          BY <1>2, <1>t, <4>1 DEF Tasks
        <4> QED
          BY <4>2 DEF Pending
      <3>2. CASE ~ (m > pointer[Viewer[p]])
        BY <1>n, <2>3, <3>2 DEF LoadRow, logVars
      <3> QED
        BY <3>1, <3>2
    <2>4. CASE SaveRow(p)
      <3>1. pointer' = [pointer EXCEPT ![Viewer[p]] = m]
        BY <1>2, <2>4 DEF SaveRow, Reads, MarkRead
      <3> QED
        BY <1>n, <1>t, <3>1
    <2>5. ASSUME NEW q \in Pages, LoadRow(q) \/ SaveRow(q) \/ Receipt(q)
          PROVE  task'[p] = task[p] \/ LoadRow(p) \/ SaveRow(p)
      BY <1>2, <1>t, <2>5 DEF LoadRow, SaveRow, Receipt, AtStep
    <2>6. ASSUME NEW q \in Pages, Accept(q) \/ HandleSeen(q)
          PROVE  task'[p] = task[p]
      BY <1>t, <2>1, <2>6 DEF Accept, HandleSeen, Ready
    <2>7. ASSUME NEW q \in Pages, Ends(q) PROVE task'[p] = task[p] \/ socket'[p] = "closed"
      BY <1>t, <2>7, EndsSteps DEF Closes
    <2>8. \/ task'[p] = task[p]
          \/ \E q \in Pages : \/ LoadRow(q) \/ SaveRow(q) \/ Receipt(q)
                              \/ Accept(q) \/ HandleSeen(q) \/ Ends(q)
      BY DEF Next, Send, BroadcastMessage, ReadElsewhere, RemoveRow, AddRow, ReadWatermark,
         RenderList, Connecting, CheckMember, JoinGroup, Reconnect, Marking, Relay, NewMessage,
         ReadReceipt, Relays, Hide, Show, Ends
    <2> QED
      BY <2>2, <2>3, <2>4, <2>5, <2>6, <2>7, <2>8
  <1>3. ASSUME NEW i \in DOMAIN inbox[p], inbox[p][i] = m
        PROVE  socket'[p] = "closed" \/ Pending(p, m)'
    <2>1. i \in 1 .. Len(inbox[p]) /\ Len(inbox[p]) \in Nat
      BY <1>t, <1>3, LenProperties
    <2>2. CASE inbox'[p] = inbox[p]
      BY <1>3, <2>2 DEF Pending
    <2>3. ASSUME NEW k \in Seens, inbox'[p] = Append(inbox[p], k) PROVE Pending(p, m)'
      <3>1. i \in DOMAIN inbox'[p] /\ inbox'[p][i] = m
        BY <1>t, <1>3, <2>1, <2>3, AppendProperties
      <3> QED
        BY <3>1 DEF Pending
    <2>4. CASE HandleSeen(p)
      <3>1. /\ task'[p] = Marks(Head(inbox[p]))
            /\ inbox'[p] = Tail(inbox[p]) /\ inbox[p] # << >>
        BY <1>t, <2>4 DEF HandleSeen, TypeOK
      <3>2. CASE i = 1
        <4>1. Head(inbox[p]) = m
          BY <1>3, <1>t, <3>1, <3>2, HeadTailProperties
        <4>2. Marks(m).step = "load" /\ Marks(m).msg = m
          BY <1>n, <1>t, MarksIs
        <4> QED
          BY <3>1, <4>1, <4>2 DEF Pending
      <3>3. CASE i # 1
        <4>1. i - 1 \in DOMAIN Tail(inbox[p]) /\ Tail(inbox[p])[i - 1] = inbox[p][i]
          BY <1>t, <2>1, <3>1, <3>3, HeadTailProperties
        <4> QED
          BY <1>3, <3>1, <4>1 DEF Pending
      <3> QED
        BY <3>2, <3>3
    <2> QED
      BY <2>2, <2>3, <2>4, InboxSteps
  <1> QED
    BY <1>2, <1>3 DEF Pending

(* A 'seen' that has reached the server's socket is not forgotten before   *)
(* its save, unless the socket closes or the user has been removed.        *)
THEOREM SeenIsNotForgotten == Spec => SeenIsKept
  <1> DEFINE Kept == \A p \in Pages : \A m \in Messages :
                       Pending(p, m) =>
                          \/ socket'[p] = "closed"
                          \/ Pending(p, m)'
                          \/ (pointer[Viewer[p]] >= m)'
                          \/ row[Viewer[p]] = 0
  <1>1. Inv /\ [Next]_vars => [Kept]_vars
    BY SeenStep
  <1> QED
    BY <1>1, InitInv, NextInv, PTL DEF Spec, SeenIsKept

-----------------------------------------------------------------------------
(* How much of SeenIsComplete holds.                                       *)

(* A page that hears of a receipt for a message of its own user, and shows *)
(* that message among rows in order, ticks the first row of the message    *)
(* and all of the user's older ones.                                       *)
TicksReachDown ==
    [][\A p \in Pages :
         HearsReceipt(p) /\ ~OutOfOrder(p) /\ Target(p, Next1(p).msg) # {} =>
            /\ \E j \in DOMAIN rows[p] : /\ rows[p][j].msg = Next1(p).msg
                                        /\ rows'[p][j].seen
            /\ \A i \in DOMAIN rows[p] :
                 Own(p, rows[p][i].msg) /\ rows[p][i].msg < Next1(p).msg
                     => rows'[p][i].seen]_vars

(* An open page moves on along the wire by relaying. *)
LEMMA HearsByRelay ==
  ASSUME TypeOK, Next, NEW p \in Pages, HearsReceipt(p)
  PROVE  ReadReceipt(p)
  <1> USE DEF page, connection
  <1>t. /\ socket \in [Pages -> Sockets] /\ cursor \in [Pages -> Nat]
        /\ socket[p] = "open" /\ cursor'[p] = cursor[p] + 1 /\ cursor[p] \in Nat
    BY TypeParts DEF PageTypes, CursorTypes, HearsReceipt
  <1>1. ~ UNCHANGED view
    BY <1>t DEF view
  <1>2. ASSUME NEW q \in Pages,
               ReadWatermark(q) \/ RenderList(q) \/ Connecting(q) \/ Ends(q)
        PROVE  FALSE
    BY <1>t, <1>2, EndsSteps DEF ReadWatermark, RenderList, Connecting, CheckMember, JoinGroup,
       Accept, Reconnect, Closes
  <1>3. ASSUME NEW q \in Pages, NewMessage(q) \/ ReadReceipt(q)
        PROVE  q = p
    BY <1>t, <1>3 DEF NewMessage, ReadReceipt, Relays
  <1>4. ~ NewMessage(p)
    BY DEF NewMessage, Relays, HearsReceipt
  <1> QED
    BY <1>1, <1>2, <1>3, <1>4, ViewSteps

LEMMA ReachStep ==
  ASSUME Inv, Next, NEW p \in Pages,
         HearsReceipt(p), ~OutOfOrder(p), Target(p, Next1(p).msg) # {}
  PROVE  /\ \E j \in DOMAIN rows[p] : /\ rows[p][j].msg = Next1(p).msg
                                      /\ rows'[p][j].seen
         /\ \A i \in DOMAIN rows[p] :
              Own(p, rows[p][i].msg) /\ rows[p][i].msg < Next1(p).msg
                  => rows'[p][i].seen
  <1>1. TypeOK /\ ReadReceipt(p)
    BY HearsByRelay DEF Inv
  <1>2. PICK m \in Messages : m = Next1(p).msg
    BY <1>1, EventTypes DEF ReadReceipt, Relays
  <1>3. /\ rows \in [Pages -> Rows]
        /\ DOMAIN rows[p] = 1 .. Len(rows[p]) /\ Len(rows[p]) \in Nat
        /\ \A i \in DOMAIN rows[p] : rows[p][i].msg \in Nat
        /\ m \in Nat
    <2>1. rows \in [Pages -> Rows]
      BY <1>1 DEF TypeOK
    <2>2. Messages \subseteq Nat
      BY BoundsAssumption DEF Messages
    <2> QED
      BY <1>1, <2>1, <2>2, OnPage
  <1>4. rows'[p] = MarkMessagesAsSeen(p, m)
    BY <1>1, <1>2, <1>3 DEF ReadReceipt, HearsReceipt, Concerns
  <1>5. PICK t : t = Target(p, m)
    OBVIOUS
  <1>6. t \in SUBSET Nat /\ t # {} /\ t \subseteq DOMAIN rows[p]
    BY <1>2, <1>3, <1>5 DEF Target
  <1>7. PICK j \in t : j = Min(t)
    BY <1>6, MinOf
  <1>8. /\ j \in DOMAIN rows[p] /\ rows[p][j].msg = m /\ Own(p, rows[p][j].msg)
    BY <1>5, <1>7 DEF Target
  <1>9. \A i \in DOMAIN rows[p] : Own(p, rows[p][i].msg) /\ i <= j => rows'[p][i].seen
    <2>1. \A i \in DOMAIN rows[p] : Own(p, rows[p][i].msg) /\ t # {} /\ i <= Min(t)
             => MarkMessagesAsSeen(p, m)[i].seen
      BY <1>3, <1>5, TickedForSure
    <2> QED
      BY <1>4, <1>6, <1>7, <2>1, Zenon
  <1>10. \A i \in DOMAIN rows[p] : rows[p][i].msg < m => i <= j
    BY <1>3, <1>8 DEF OutOfOrder
  <1>11. rows'[p][j].seen
    BY <1>3, <1>8, <1>9
  <1> QED
    BY <1>2, <1>8, <1>9, <1>10, <1>11

(* SeenIsComplete fails only for pages whose rows are out of order, or for *)
(* a receipt that names somebody else's message or one the page does not   *)
(* show: then markMessagesAsSeen finds no row to begin with.               *)
THEOREM OwnReceiptsTickAll == Spec => TicksReachDown
  <1> DEFINE Reach == \A p \in Pages :
         HearsReceipt(p) /\ ~OutOfOrder(p) /\ Target(p, Next1(p).msg) # {} =>
            /\ \E j \in DOMAIN rows[p] : /\ rows[p][j].msg = Next1(p).msg
                                        /\ rows'[p][j].seen
            /\ \A i \in DOMAIN rows[p] :
                 Own(p, rows[p][i].msg) /\ rows[p][i].msg < Next1(p).msg
                     => rows'[p][i].seen
  <1>1. ASSUME UNCHANGED vars PROVE [Reach]_vars
    BY <1>1
  <1>2. Inv /\ [Next]_vars => [Reach]_vars
    BY <1>1, ReachStep
  <1> QED
    BY <1>2, InitInv, NextInv, PTL DEF Spec, TicksReachDown

(* A tick stays: neither rendering, relaying nor reconnecting unticks a    *)
(* row.                                                                    *)
TicksStay ==
    [][\A p \in Pages : \A i \in DOMAIN rows[p] :
         rows[p][i].seen => rows'[p][i].seen]_vars

LEMMA TickStep ==
  ASSUME Inv, Next, NEW p \in Pages, NEW i \in DOMAIN rows[p], rows[p][i].seen
  PROVE  rows'[p][i].seen
  <1>1. TypeOK /\ RenderedFirst
    BY DEF Inv
  <1>2. ASSUME NEW q \in Pages, RenderList(q) PROVE rows'[p] = rows[p]
    <2>1. rows[q] = <<>>
      BY <1>1, <1>2 DEF RenderList, RenderedFirst
    <2>2. q # p
      BY <2>1
    <2> QED
      BY <1>1, <1>2, <2>2 DEF RenderList, TypeOK
  <1>3. ASSUME NEW q \in Pages, NewMessage(q) PROVE rows'[p][i].seen
    BY <1>1, <1>3, AppendsOneRow DEF AppendsRow
  <1>4. ASSUME NEW q \in Pages, ReadReceipt(q) PROVE rows'[p][i].seen
    <2>1. CASE rows'[p] = rows[p]
      BY <2>1
    <2>2. CASE rows'[p] # rows[p]
      <3>1. q = p
        BY <1>1, <1>4, <2>2, TicksSomeRows
      <3>2. Next1(p).msg \in Messages /\ rows \in [Pages -> Rows]
        BY <1>1, <1>4, <3>1, EventTypes DEF ReadReceipt, Relays, TypeOK
      <3>3. rows'[p] = MarkMessagesAsSeen(p, Next1(p).msg)
        BY <1>4, <2>2, <3>1, <3>2 DEF ReadReceipt
      <3>4. \A k \in DOMAIN rows[p] :
               rows[p][k].seen => MarkMessagesAsSeen(p, Next1(p).msg)[k].seen
        BY <3>2, TickedForSure
      <3> QED
        BY <3>3, <3>4, Zenon
    <2> QED
      BY <2>1, <2>2
  <1> QED
    BY <1>2, <1>3, <1>4, ViewSteps, EndsSteps DEF view, page, connection, ReadWatermark,
       Connecting, CheckMember, JoinGroup, Accept, Reconnect

(* No page takes a tick back.                                              *)
THEOREM TicksAreKept == Spec => TicksStay
  <1> DEFINE Stay == \A p \in Pages : \A i \in DOMAIN rows[p] :
                       rows[p][i].seen => rows'[p][i].seen
  <1>1. Inv /\ [Next]_vars => [Stay]_vars
    BY TickStep
  <1> QED
    BY <1>1, InitInv, NextInv, PTL DEF Spec, TicksStay

===============================================================================
